---------------------------- MODULE Socks5Proofs ----------------------------
(* The inductive invariant of Socks5, what each handler of a connection    *)
(* does to the table of the selector, to the descriptors and to the        *)
(* connection objects when it holds, and the theorems of the proxy.        *)
EXTENDS Socks5, SelectorProofs, FiniteSetTheorems

-----------------------------------------------------------------------------
(* The inductive invariant.                                                *)

\* What a connection with contents r waits for on its client and its origin.
ClientInterest(r) ==
  CASE r.st \in {"HELLO_READ", "AUTH_READ", "REQUEST_READ"} -> {"OP_READ"}
    [] r.st \in {"HELLO_WRITE", "AUTH_WRITE", "REQUEST_WRITE"} -> {"OP_WRITE"}
    [] r.st \in {"REQUEST_RESOLV", "REQUEST_CONNECTING"} -> {}
    [] r.st = "COPY" ->
         {op \in {"OP_READ"} : ~r.client_eof /\ can_write(r.read_buffer)}
         \cup {op \in {"OP_WRITE"} : can_read(r.write_buffer)}

OriginInterest(r) ==
  CASE r.st = "REQUEST_CONNECTING" -> {"OP_WRITE"}
    [] r.st = "COPY" ->
         {op \in {"OP_READ"} : ~r.origin_eof /\ can_write(r.write_buffer)}
         \cup {op \in {"OP_WRITE"} : can_read(r.read_buffer)}
    [] OTHER -> {}

Entry(c, r, fd) ==
  [interest |-> IF fd = r.client_fd THEN ClientInterest(r) ELSE OriginInterest(r),
   data |-> c]

ListenerEntry == [interest |-> {"OP_READ"}, data |-> Listener]

Fds(r) == {r.client_fd, r.origin_fd} \ {NoFd}

\* The states before an origin is tried.
WithoutOrigin == {"HELLO_READ", "HELLO_WRITE", "AUTH_READ", "AUTH_WRITE",
                  "REQUEST_READ", "REQUEST_RESOLV"}

\* Both directions of the relay have ended and been drained.
BothDone(r) ==
  /\ r.client_eof /\ ~can_read(r.read_buffer)
  /\ r.origin_eof /\ ~can_read(r.write_buffer)

\* What the contents of a live connection satisfy.
GoodConn(r) ==
  /\ r \in ConnOK
  /\ r.client_fd # NoFd /\ r.client_fd # r.origin_fd
  /\ r.references = IF r.origin_fd = NoFd THEN 1 ELSE 2
  /\ r.resolving <=> r.st = "REQUEST_RESOLV"
  /\ r.st \in WithoutOrigin => r.origin_fd = NoFd
  /\ r.st = "REQUEST_CONNECTING" => r.origin_fd # NoFd /\ r.left >= 1
  /\ r.st \in {"REQUEST_WRITE", "COPY"} =>
       (r.reply = "SUCCESS" <=> r.origin_fd # NoFd)
  /\ r.st = "COPY" => r.reply = "SUCCESS"
  /\ r.st # "COPY" => ~r.client_eof /\ ~r.origin_eof
  /\ ~BothDone(r)

\* An entry of the table is free, the listener's or that of a live connection,
\* and waits for what the state of the connection calls for.
TableMatches ==
  \A fd \in FD :
    \/ sel.item[fd] = FD_UNUSED
    \/ sel.item[fd] = ListenerEntry
    \/ \E c \in Conns : /\ mem[c] = "live" /\ fd \in Fds(conn[c])
                        /\ sel.item[fd] = Entry(c, conn[c], fd)

ConnsMatch ==
  \A c \in Conns : mem[c] = "live" =>
    /\ GoodConn(conn[c])
    /\ \A fd \in Fds(conn[c]) : sel.item[fd].data = c

ListenerThere == ~shutting_down => sel.item[ListenFd] = ListenerEntry

\* A resolver thread that has still to queue its job works for a connection in
\* REQUEST_RESOLV, alone, and no job of that connection is in the list yet.
Asking(w) == wpc[w] \in {"work", "notify"}

ThreadsServe ==
  \A w \in Workers : Asking(w) =>
    /\ wconn[w] \in Conns /\ mem[wconn[w]] = "live"
    /\ conn[wconn[w]].st = "REQUEST_RESOLV"
    /\ conn[wconn[w]].client_fd = wfd[w]
    /\ wpc[w] = "notify" => conn[wconn[w]].dns # "none"
    /\ \A v \in Workers : Asking(v) /\ wconn[v] = wconn[w] => v = w
    /\ \A n \in DOMAIN Unserved : Unserved[n] # wfd[w]

JobsServe ==
  /\ \A n \in DOMAIN Unserved : \E c \in Conns :
       /\ mem[c] = "live" /\ conn[c].st = "REQUEST_RESOLV"
       /\ conn[c].client_fd = Unserved[n] /\ conn[c].dns # "none"
  /\ \A m, n \in DOMAIN Unserved : Unserved[m] = Unserved[n] => m = n

\* Unless malloc fails, a resolution that was started has not been forgotten.
ResolutionsGoOn ==
  ~MallocMayFail => \A c \in Conns : mem[c] = "live" /\ conn[c].st = "REQUEST_RESOLV" =>
    \/ \E w \in Workers : Asking(w) /\ wconn[w] = c
    \/ \E n \in DOMAIN Unserved : Unserved[n] = conn[c].client_fd

\* The key of handle_iteration outlives the read handler only; meanwhile its
\* entry keeps its owner or is wiped.
KeyMatches ==
  key # NoData =>
    pc = "iterate" /\ cursor <= limit /\ sel.item[cursor].data \in {key, NoData}

PoolMatches ==
  /\ Len(pool) <= MAX_POOL
  /\ \A m, n \in DOMAIN pool : pool[m] = pool[n] => m = n
  /\ \A n \in DOMAIN pool : mem[pool[n]] = "pool"
  /\ \A c \in Conns : mem[c] = "pool" => \E n \in DOMAIN pool : pool[n] = c

\* An object has its buffers for as long as it is not freed.
BuffersMatch ==
  /\ buffer_size \in [Conns -> BufferSizes \cup {NoSize}]
  /\ \A c \in Conns : mem[c] # "free" <=> buffer_size[c] \in BufferSizes

\* After Teardown a thread may still write into a connection, which was leaked.
OrphansLeaked ==
  \A w \in Workers : wpc[w] = "work" =>
    /\ wconn[w] \in Conns /\ mem[wconn[w]] = "leaked" /\ conn[wconn[w]].resolving
    /\ \A v \in Workers : wpc[v] = "work" /\ wconn[v] = wconn[w] => v = w

\* The parts of the invariant, by what they are about.
LoopOK ==
  /\ slave_r \in SUBSET FD /\ slave_w \in SUBSET FD
  /\ pc \in {"loop", "pselect", "iterate", "notify", "jobs", "teardown",
             "destroyed", "exited"}
  /\ cursor \in 0 .. ITEMS_MAX_SIZE /\ limit \in FD
  /\ key \in Data \cup {NoData}
  /\ KeyMatches

NotifyOK ==
  /\ jobs \in Seq(FD) /\ walk \in Seq(FD)
  /\ mutex <=> pc = "jobs"
  /\ wpc \in [Workers -> {"idle", "work", "notify", "kill"}]
  /\ wfd \in [Workers -> FD]
  /\ wconn \in [Workers -> Conns \cup {NoData}]

ObjectsOK ==
  /\ conn \in [Conns -> ConnOK]
  /\ mem \in [Conns -> {"free", "live", "pool", "leaked"}]
  /\ pool \in Seq(Conns) /\ PoolMatches
  /\ pool_size = Len(pool)
  /\ BuffersMatch /\ io_buffer_size \in BufferSizes
  /\ link \in [Conns -> {"none", "connecting", "up", "failed"}]
  /\ current \in 0 .. Cardinality(Conns)
  /\ sigcount \in 0 .. MaxSignals

TableOK ==
  /\ TableMatches /\ ConnsMatch /\ ListenerThere
  /\ open = Used(sel)
  /\ \A c \in Conns : mem[c] # "leaked"
  /\ current = Cardinality(Live)

ResolversOK == ThreadsServe /\ JobsServe /\ ResolutionsGoOn

Socks5Inv ==
  /\ GoodTable(sel) /\ LoopOK /\ NotifyOK /\ ObjectsOK
  /\ Running => TableOK /\ ResolversOK
  /\ ~Running => sel = EmptyTable /\ open = {} /\ OrphansLeaked

-----------------------------------------------------------------------------
(* What the calls of the selector do to each entry of the table.           *)
LEMMA RegisterItem ==
  ASSUME NEW s, GoodTable(s), NEW fd \in FD, NEW i \in Interest, NEW d \in Data
  PROVE  LET t == selector_register(s, fd, i, d)
         IN  /\ GoodTable(t)
             /\ \A g \in FD : t.item[g] = IF g = fd THEN [interest |-> i, data |-> d]
                                                    ELSE s.item[g]
<1>1. s.item \in [FD -> Item]
  BY DEF GoodTable, Table
<1> QED
  BY <1>1, RegisterGood DEF selector_register

LEMMA UnregisterItem ==
  ASSUME NEW s, GoodTable(s), NEW fd
  PROVE  LET t == selector_unregister_fd(s, fd)
         IN  /\ GoodTable(t)
             /\ \A g \in FD : t.item[g] = IF g = fd /\ ITEM_USED(s, fd) THEN FD_UNUSED
                                                                        ELSE s.item[g]
<1>1. s.item \in [FD -> Item]
  BY DEF GoodTable, Table
<1>2. CASE fd \in FD /\ ITEM_USED(s, fd)
  BY <1>1, <1>2, UnregisterGood DEF selector_unregister_fd
<1>3. CASE ~(fd \in FD /\ ITEM_USED(s, fd))
  BY <1>1, <1>3, UnregisterGood DEF selector_unregister_fd
<1> QED
  BY <1>2, <1>3

LEMMA SetInterestItem ==
  ASSUME NEW s, GoodTable(s), NEW fd, NEW i \in Interest
  PROVE  LET t == selector_set_interest(s, fd, i)
         IN  /\ GoodTable(t)
             /\ \A g \in FD : t.item[g] =
                  IF g = fd /\ ITEM_USED(s, fd)
                  THEN [interest |-> i, data |-> s.item[g].data] ELSE s.item[g]
<1> DEFINE t == selector_set_interest(s, fd, i)
<1>1. s.item \in [FD -> Item] /\ s \in Table
  BY DEF GoodTable, Table
<1>2. CASE fd \in FD /\ ITEM_USED(s, fd)
  <2>1. t = [s EXCEPT !.item[fd].interest = i]
    BY <1>2 DEF selector_set_interest
  <2>2. t.item = [s.item EXCEPT ![fd] = [s.item[fd] EXCEPT !.interest = i]]
    BY <2>1, <1>1 DEF Table
  <2>3. [s.item[fd] EXCEPT !.interest = i]
        = [interest |-> i, data |-> s.item[fd].data]
    BY <1>1, <1>2 DEF Item
  <2> QED
    BY <1>1, <1>2, <2>2, <2>3, SetInterestGood
<1>3. CASE ~(fd \in FD /\ ITEM_USED(s, fd))
  BY <1>1, <1>3, SetInterestGood DEF selector_set_interest
<1> QED
  BY <1>2, <1>3

-----------------------------------------------------------------------------
(* The ways a handler of connection c may leave the state.                 *)

\* What is known when a handler of a live connection c runs.
Serving(c) ==
  /\ Socks5Inv /\ Running
  /\ c \in Conns /\ mem[c] = "live"

\* The connection stays: its entries are those its contents call for, the
\* descriptors it gave up are closed, nobody else's entry has changed.
Stays(c) ==
  /\ GoodConn(conn'[c]) /\ conn' = [conn EXCEPT ![c] = conn'[c]]
  /\ conn'[c].client_fd = conn[c].client_fd
  /\ \/ conn'[c].origin_fd \in {conn[c].origin_fd, NoFd}
     \/ sel.item[conn'[c].origin_fd] = FD_UNUSED
  /\ GoodTable(sel')
  /\ \A fd \in FD : sel'.item[fd] =
       IF fd \in Fds(conn'[c]) THEN Entry(c, conn'[c], fd)
       ELSE IF fd \in Fds(conn[c]) THEN FD_UNUSED ELSE sel.item[fd]
  /\ open' = (open \ Fds(conn[c])) \cup Fds(conn'[c])
  /\ link' \in [Conns -> {"none", "connecting", "up", "failed"}]
  /\ UNCHANGED <<mem, pool, pool_size, buffer_size, current>>

\* The connection is gone: its descriptors are closed, its object destroyed.
Gone(c) ==
  /\ conn' = [conn EXCEPT ![c] = ZeroedConn]
  /\ GoodTable(sel')
  /\ \A fd \in FD : sel'.item[fd] =
       IF fd \in Fds(conn[c]) THEN FD_UNUSED ELSE sel.item[fd]
  /\ open' = open \ Fds(conn[c])
  /\ link' \in [Conns -> {"none", "connecting", "up", "failed"}]
  /\ mem' = [mem EXCEPT ![c] = DestroyedAs(c)]
  /\ pool' = IF DestroyedAs(c) = "pool" THEN <<c>> \o pool ELSE pool
  /\ pool_size' = IF DestroyedAs(c) = "pool" THEN pool_size + 1 ELSE pool_size
  /\ buffer_size' = IF DestroyedAs(c) = "free"
                    THEN [buffer_size EXCEPT ![c] = NoSize] ELSE buffer_size
  /\ metrics_connection_closed

LEMMA NoFdIsNone == NoFd \notin FD /\ ListenFd \in FD
BY SelectorAssumption DEF NoFd, FD, ListenFd

LEMMA EntryData ==
  ASSUME NEW c, NEW r, NEW fd
  PROVE  /\ Entry(c, r, fd).data = c
         /\ Entry(c, r, fd).interest = IF fd = r.client_fd THEN ClientInterest(r)
                                                           ELSE OriginInterest(r)
BY DEF Entry

LEMMA FdsAreDescriptors ==
  ASSUME NEW r, GoodConn(r)
  PROVE  /\ Fds(r) \subseteq FD /\ r.client_fd \in Fds(r)
         /\ r.client_fd \in FD
         /\ r.origin_fd # NoFd => r.origin_fd \in FD
BY DEF GoodConn, ConnOK, Fds

\* No descriptor belongs to two connections, none to a connection and nobody.
LEMMA FdsAreDisjoint ==
  ASSUME TableOK, NEW c \in Conns, mem[c] = "live"
  PROVE  /\ \A fd \in Fds(conn[c]) : /\ fd \in FD /\ sel.item[fd].data = c
                                     /\ sel.item[fd] = Entry(c, conn[c], fd)
         /\ \A fd \in FD : sel.item[fd].data = c => fd \in Fds(conn[c])
         /\ \A d \in Conns : mem[d] = "live" /\ d # c =>
              Fds(conn[d]) \cap Fds(conn[c]) = {}
<1>1. GoodConn(conn[c]) /\ \A fd \in Fds(conn[c]) : fd \in FD /\ sel.item[fd].data = c
  BY FdsAreDescriptors DEF TableOK, ConnsMatch
<1>2. \A fd \in FD : sel.item[fd].data = c =>
        fd \in Fds(conn[c]) /\ sel.item[fd] = Entry(c, conn[c], fd)
  <2> SUFFICES ASSUME NEW fd \in FD, sel.item[fd].data = c
               PROVE  fd \in Fds(conn[c]) /\ sel.item[fd] = Entry(c, conn[c], fd)
    OBVIOUS
  <2>1. c # NoData /\ c # Listener
    BY SelectorAssumption, Socks5Assumption
  <2>2. sel.item[fd] # FD_UNUSED /\ sel.item[fd] # ListenerEntry
    BY <2>1 DEF FD_UNUSED, ListenerEntry
  <2>3. PICK d \in Conns : /\ mem[d] = "live" /\ fd \in Fds(conn[d])
                           /\ sel.item[fd] = Entry(d, conn[d], fd)
    BY <2>2 DEF TableOK, TableMatches
  <2>4. d = c
    BY <2>3 DEF Entry
  <2> QED
    BY <2>3, <2>4
<1>3. ASSUME NEW d \in Conns, mem[d] = "live", d # c
      PROVE  Fds(conn[d]) \cap Fds(conn[c]) = {}
  BY <1>1, <1>3 DEF TableOK, ConnsMatch
<1> QED
  BY <1>1, <1>2, <1>3

(* A connection that stays keeps the table and the objects as they should  *)
(* be.                                                                     *)
LEMMA StaysTable ==
  ASSUME NEW c, Serving(c), Stays(c),
         UNCHANGED <<shutting_down, sigcount, io_buffer_size>>
  PROVE  TableOK' /\ ObjectsOK'
<1> DEFINE r == conn[c]
           q == conn'[c]
<1>0. /\ c \in Conns /\ mem[c] = "live" /\ TableOK /\ ObjectsOK
      /\ GoodTable(sel) /\ GoodTable(sel') /\ GoodConn(r) /\ GoodConn(q)
  BY DEF Serving, Socks5Inv, Stays, TableOK, ConnsMatch
<1>1. c # NoData /\ c # Listener /\ NoFd \notin FD
  BY <1>0, NoFdIsNone, SelectorAssumption, Socks5Assumption
<1>2. Fds(r) \subseteq FD /\ Fds(q) \subseteq FD
  BY <1>0, FdsAreDescriptors
<1>3. /\ \A fd \in Fds(r) : sel.item[fd].data = c
      /\ \A fd \in FD : sel.item[fd].data = c => fd \in Fds(r)
  BY <1>0, FdsAreDisjoint
<1>4. \A fd \in Fds(q) : fd \in Fds(r) \/ sel.item[fd] = FD_UNUSED
  BY <1>0 DEF Stays, Fds
<1>5. \A d \in Conns : /\ d # c => conn'[d] = conn[d]
                       /\ mem'[d] = mem[d]
  BY <1>0 DEF Stays, ObjectsOK
<1>6. \A fd \in FD : sel'.item[fd] =
       IF fd \in Fds(q) THEN Entry(c, q, fd)
       ELSE IF fd \in Fds(r) THEN FD_UNUSED ELSE sel.item[fd]
  BY DEF Stays
<1>7. ConnsMatch'
  <2> SUFFICES ASSUME NEW d \in Conns, mem'[d] = "live"
               PROVE  /\ GoodConn(conn'[d])
                      /\ \A fd \in Fds(conn'[d]) : sel'.item[fd].data = d
    BY DEF ConnsMatch, GoodConn, Fds, ConnOK, BothDone
  <2>1. CASE d = c
    BY <1>0, <1>2, <1>6, <2>1, EntryData
  <2>2. CASE d # c
    <3>1. conn'[d] = conn[d] /\ mem[d] = "live" /\ GoodConn(conn[d])
      BY <1>0, <1>5, <2>2 DEF TableOK, ConnsMatch
    <3>2. \A fd \in Fds(conn[d]) : fd \in FD /\ sel.item[fd].data = d
      BY <1>0, <3>1, FdsAreDisjoint
    <3>3. \A fd \in Fds(conn[d]) : sel.item[fd].data # NoData
      BY <3>2, SelectorAssumption, Socks5Assumption
    <3>4. \A fd \in Fds(conn[d]) : fd \notin Fds(r) /\ fd \notin Fds(q)
      BY <3>2, <3>3, <1>3, <1>4, <2>2 DEF FD_UNUSED
    <3> QED
      BY <1>6, <3>1, <3>2, <3>4
  <2> QED
    BY <2>1, <2>2
<1>8. TableMatches'
  <2> SUFFICES ASSUME NEW fd \in FD
               PROVE  \/ sel'.item[fd] = FD_UNUSED
                      \/ sel'.item[fd] = ListenerEntry
                      \/ \E d \in Conns : /\ mem'[d] = "live" /\ fd \in Fds(conn'[d])
                                          /\ sel'.item[fd] = Entry(d, conn'[d], fd)
    BY DEF TableMatches, Fds, Entry, ListenerEntry, FD_UNUSED, ClientInterest,
           OriginInterest
  <2>1. CASE fd \in Fds(q)
    BY <1>0, <1>5, <1>6, <2>1
  <2>2. CASE fd \notin Fds(q) /\ fd \in Fds(r)
    BY <1>6, <2>2
  <2>3. CASE fd \notin Fds(q) /\ fd \notin Fds(r)
    <3>1. sel'.item[fd] = sel.item[fd]
      BY <1>6, <2>3
    <3>2. CASE \E d \in Conns : /\ mem[d] = "live" /\ fd \in Fds(conn[d])
                                /\ sel.item[fd] = Entry(d, conn[d], fd)
      BY <1>5, <2>3, <3>1, <3>2
    <3> QED
      BY <1>0, <3>1, <3>2 DEF TableOK, TableMatches
  <2> QED
    BY <2>1, <2>2, <2>3
<1>9. Used(sel') = (Used(sel) \ Fds(r)) \cup Fds(q)
  <2>1. \A fd \in FD : Entry(c, q, fd).data = c /\ FD_UNUSED.data = NoData
    BY EntryData DEF FD_UNUSED
  <2>2. \A fd \in FD : sel'.item[fd].data # NoData <=>
          fd \in Fds(q) \/ (fd \notin Fds(r) /\ sel.item[fd].data # NoData)
    BY <1>1, <1>6, <2>1
  <2> QED
    BY <1>2, <2>2 DEF Used, ITEM_USED
<1>10. ListenerThere'
  <2>1. Listener # NoData /\ Listener # c
    BY <1>1, SelectorAssumption, Socks5Assumption
  <2>2. ASSUME ~shutting_down
        PROVE  ListenFd \notin Fds(r) /\ ListenFd \notin Fds(q)
    BY <1>0, <1>3, <1>4, <2>1, <2>2
    DEF TableOK, ListenerThere, ListenerEntry, FD_UNUSED
  <2> QED
    BY <1>0, <1>6, <2>2, NoFdIsNone DEF TableOK, ListenerThere, ListenerEntry
<1>11. open' = Used(sel')
  BY <1>0, <1>9 DEF Stays, TableOK
<1>12. current' = Cardinality(Live')
  BY <1>0 DEF Stays, TableOK, Live
<1>13. \A d \in Conns : mem'[d] # "leaked"
  BY <1>0 DEF Stays, TableOK
<1>14. TableOK'
  BY <1>7, <1>8, <1>10, <1>11, <1>12, <1>13 DEF TableOK, Used, ITEM_USED
<1>15. conn' \in [Conns -> ConnOK]
  BY <1>0 DEF Stays, ObjectsOK, GoodConn
<1>16. ObjectsOK'
  BY <1>0, <1>15 DEF Stays, ObjectsOK, PoolMatches, BuffersMatch
<1> QED
  BY <1>14, <1>16

\* The objects in use are finitely many.
LEMMA LiveIsFinite ==
  IsFiniteSet(Live) /\ Cardinality(Live) \in 0 .. Cardinality(Conns)
<1>1. IsFiniteSet(Conns) /\ Live \subseteq Conns
  BY Socks5Assumption DEF Live
<1> QED
  BY <1>1, FS_Subset, FS_CardinalityType

\* Putting c in front of a list, entry by entry.
LEMMA Prepended ==
  ASSUME NEW S, NEW q \in Seq(S), NEW c \in S
  PROVE  /\ <<c>> \o q \in Seq(S) /\ Len(<<c>> \o q) = Len(q) + 1
         /\ (<<c>> \o q)[1] = c
         /\ \A n \in DOMAIN q : n + 1 \in DOMAIN (<<c>> \o q)
                                /\ (<<c>> \o q)[n + 1] = q[n]
         /\ \A n \in DOMAIN (<<c>> \o q) : n = 1 \/ (n - 1 \in DOMAIN q
                                                    /\ (<<c>> \o q)[n] = q[n - 1])
OBVIOUS

(* A connection that is gone, which was not resolving, leaves the table    *)
(* and the objects as they should be.                                      *)
LEMMA GoneTable ==
  ASSUME NEW c, Serving(c), Gone(c),
         UNCHANGED <<shutting_down, sigcount, io_buffer_size>>,
         conn[c].st # "REQUEST_RESOLV"
  PROVE  TableOK' /\ ObjectsOK'
<1> DEFINE r == conn[c]
<1>0. /\ c \in Conns /\ mem[c] = "live" /\ TableOK /\ ObjectsOK
      /\ GoodTable(sel) /\ GoodTable(sel') /\ GoodConn(r)
  BY DEF Serving, Socks5Inv, Gone, TableOK, ConnsMatch
<1>1. c # NoData /\ c # Listener
  BY <1>0, SelectorAssumption, Socks5Assumption
<1>2. /\ \A fd \in Fds(r) : fd \in FD /\ sel.item[fd].data = c
      /\ \A fd \in FD : sel.item[fd].data = c => fd \in Fds(r)
  BY <1>0, FdsAreDisjoint
<1>3. mem'[c] \in {"pool", "free"}
      /\ (mem'[c] = "pool" => Len(pool) < MAX_POOL)
  BY <1>0 DEF Gone, ObjectsOK, DestroyedAs, GoodConn
<1>4. \A d \in Conns : d # c => conn'[d] = conn[d] /\ mem'[d] = mem[d]
  BY <1>0 DEF Gone, ObjectsOK
<1>5. \A fd \in FD : sel'.item[fd] =
        IF fd \in Fds(r) THEN FD_UNUSED ELSE sel.item[fd]
  BY DEF Gone
<1>6. ConnsMatch'
  <2> SUFFICES ASSUME NEW d \in Conns, mem'[d] = "live"
               PROVE  /\ GoodConn(conn'[d])
                      /\ \A fd \in Fds(conn'[d]) : sel'.item[fd].data = d
    BY DEF ConnsMatch, GoodConn, Fds, ConnOK, BothDone
  <2>1. d # c /\ conn'[d] = conn[d] /\ mem[d] = "live" /\ GoodConn(conn[d])
    BY <1>0, <1>3, <1>4 DEF TableOK, ConnsMatch
  <2>2. \A fd \in Fds(conn[d]) : fd \in FD /\ sel.item[fd].data = d
    BY <1>0, <2>1, FdsAreDisjoint
  <2> QED
    BY <1>2, <1>5, <2>1, <2>2
<1>7. TableMatches'
  <2> SUFFICES ASSUME NEW fd \in FD
               PROVE  \/ sel'.item[fd] = FD_UNUSED
                      \/ sel'.item[fd] = ListenerEntry
                      \/ \E d \in Conns : /\ mem'[d] = "live" /\ fd \in Fds(conn'[d])
                                          /\ sel'.item[fd] = Entry(d, conn'[d], fd)
    BY DEF TableMatches, Fds, Entry, ListenerEntry, FD_UNUSED, ClientInterest,
           OriginInterest
  <2>1. CASE fd \in Fds(r)
    BY <1>5, <2>1
  <2>2. CASE fd \notin Fds(r)
    <3>1. sel'.item[fd] = sel.item[fd]
      BY <1>5, <2>2
    <3>2. CASE \E d \in Conns : /\ mem[d] = "live" /\ fd \in Fds(conn[d])
                                /\ sel.item[fd] = Entry(d, conn[d], fd)
      BY <1>4, <2>2, <3>1, <3>2
    <3> QED
      BY <1>0, <3>1, <3>2 DEF TableOK, TableMatches
  <2> QED
    BY <2>1, <2>2
<1>8. Used(sel') = Used(sel) \ Fds(r)
  <2>1. FD_UNUSED.data = NoData
    BY DEF FD_UNUSED
  <2> QED
    BY <1>5, <2>1 DEF Used, ITEM_USED
<1>9. ListenerThere'
  <2>1. ASSUME ~shutting_down PROVE ListenFd \notin Fds(r)
    BY <1>0, <1>1, <1>2, <2>1 DEF TableOK, ListenerThere, ListenerEntry
  <2> QED
    BY <1>0, <1>5, <2>1, NoFdIsNone DEF TableOK, ListenerThere, ListenerEntry
<1>10. open' = Used(sel')
  BY <1>0, <1>8 DEF Gone, TableOK
<1>11. current' = Cardinality(Live') /\ current' \in 0 .. Cardinality(Conns)
  <2>1. Live' = Live \ {c} /\ c \in Live
    BY <1>0, <1>3, <1>4 DEF Live
  <2>2. Cardinality(Live') = Cardinality(Live) - 1
    BY <2>1, LiveIsFinite, FS_RemoveElement
  <2>3. Cardinality(Live) > 0 /\ Cardinality(Conns) \in Nat
    BY <2>1, LiveIsFinite, FS_EmptySet, FS_CardinalityType, Socks5Assumption
  <2> QED
    BY <1>0, <2>2, <2>3, LiveIsFinite DEF Gone, TableOK, metrics_connection_closed
<1>12. \A d \in Conns : mem'[d] # "leaked"
  BY <1>0, <1>3, <1>4 DEF TableOK
<1>13. TableOK'
  BY <1>6, <1>7, <1>9, <1>10, <1>11, <1>12 DEF TableOK, Used, ITEM_USED
<1>14. ZeroedConn \in ConnOK
  BY Socks5Assumption DEF ZeroedConn, ConnOK, State, Reply, Buffer
<1>15. pool' \in Seq(Conns) /\ PoolMatches'
  <2>1. pool \in Seq(Conns) /\ PoolMatches /\ mem \in [Conns -> {"free", "live", "pool", "leaked"}]
    BY <1>0 DEF ObjectsOK
  <2>2. \A n \in DOMAIN pool : pool[n] \in Conns /\ pool[n] # c
    BY <1>0, <2>1 DEF PoolMatches
  <2>3. CASE mem'[c] = "pool"
    <3>1. pool' = <<c>> \o pool
      BY <1>0, <2>1, <2>3 DEF Gone
    <3>2. Len(pool') <= MAX_POOL
      BY <1>3, <2>1, <2>3, <3>1, <1>0, Prepended, Socks5Assumption
    <3>3. \A m, n \in DOMAIN pool' : pool'[m] = pool'[n] => m = n
      BY <1>0, <2>1, <2>2, <3>1, Prepended DEF PoolMatches
    <3>4. \A n \in DOMAIN pool' : mem'[pool'[n]] = "pool"
      BY <1>0, <1>4, <2>1, <2>2, <2>3, <3>1, Prepended DEF PoolMatches
    <3>5. ASSUME NEW d \in Conns, mem'[d] = "pool"
          PROVE  \E n \in DOMAIN pool' : pool'[n] = d
      <4>1. CASE d = c
        <5>1. 1 \in DOMAIN pool' /\ pool'[1] = c
          BY <1>0, <2>1, <3>1
        <5> QED
          BY <4>1, <5>1
      <4>2. CASE d # c
        <5>1. PICK n \in DOMAIN pool : pool[n] = d
          BY <1>4, <2>1, <3>5, <4>2 DEF PoolMatches
        <5>2. n + 1 \in DOMAIN pool' /\ pool'[n + 1] = pool[n]
          BY <1>0, <2>1, <3>1, <5>1, Prepended
        <5> QED
          BY <5>1, <5>2
      <4> QED
        BY <4>1, <4>2
    <3> QED
      BY <1>0, <2>1, <3>1, <3>2, <3>3, <3>4, <3>5, Prepended DEF PoolMatches
  <2>4. CASE mem'[c] # "pool"
    <3>1. pool' = pool
      BY <1>0, <2>1, <2>4 DEF Gone
    <3> QED
      BY <1>0, <1>4, <2>1, <2>2, <2>4, <3>1 DEF PoolMatches
  <2> QED
    BY <2>3, <2>4
<1>16. ObjectsOK'
  <2>1. mem' \in [Conns -> {"free", "live", "pool", "leaked"}]
    BY <1>0, <1>3 DEF Gone, ObjectsOK
  <2>2. conn' \in [Conns -> ConnOK]
    BY <1>0, <1>14 DEF Gone, ObjectsOK
  <2>3. pool_size' = Len(pool')
    <3>1. pool_size = Len(pool) /\ pool \in Seq(Conns)
      BY <1>0 DEF ObjectsOK
    <3>2. CASE DestroyedAs(c) = "pool"
      <4>1. pool' = <<c>> \o pool /\ pool_size' = pool_size + 1
        BY <3>2 DEF Gone
      <4> QED
        BY <1>0, <3>1, <4>1, Prepended
    <3>3. CASE DestroyedAs(c) # "pool"
      BY <3>1, <3>3 DEF Gone
    <3> QED
      BY <3>2, <3>3
  <2>4. BuffersMatch'
    <3>1. BuffersMatch /\ mem \in [Conns -> {"free", "live", "pool", "leaked"}]
      BY <1>0 DEF ObjectsOK
    <3>2. mem'[c] = DestroyedAs(c) /\ buffer_size[c] \in BufferSizes
      BY <1>0, <3>1 DEF Gone, BuffersMatch
    <3>3. CASE DestroyedAs(c) = "free"
      <4>1. buffer_size' = [buffer_size EXCEPT ![c] = NoSize]
        BY <3>3 DEF Gone
      <4> QED
        BY <1>0, <1>4, <3>1, <3>2, <3>3, <4>1, Socks5Assumption DEF BuffersMatch
    <3>4. CASE DestroyedAs(c) # "free"
      <4>1. buffer_size' = buffer_size
        BY <3>4 DEF Gone
      <4> QED
        BY <1>0, <1>4, <3>1, <3>2, <3>4, <4>1 DEF BuffersMatch
    <3> QED
      BY <3>3, <3>4
  <2> QED
    BY <1>0, <1>11, <1>15, <2>1, <2>2, <2>3, <2>4 DEF Gone, ObjectsOK
<1> QED
  BY <1>13, <1>16

-----------------------------------------------------------------------------
(* The endings of handlers.                                                *)

\* Table s differs from the current one in the entries of c only, and these
\* are the ones of contents q.
Carries(s, c, q) ==
  /\ GoodTable(s)
  /\ \A fd \in FD :
       IF fd \in Fds(q) THEN s.item[fd].data = c
       ELSE s.item[fd] = IF fd \in Fds(conn[c]) THEN FD_UNUSED ELSE sel.item[fd]

LEMMA CarriesStart ==
  ASSUME NEW c, Serving(c)
  PROVE  /\ Carries(sel, c, conn[c])
         /\ GoodConn(conn[c]) /\ conn[c] \in ConnOK
         /\ \A fd \in Fds(conn[c]) : sel.item[fd].interest =
              IF fd = conn[c].client_fd THEN ClientInterest(conn[c])
                                        ELSE OriginInterest(conn[c])
<1>1. TableOK /\ GoodTable(sel) /\ c \in Conns /\ mem[c] = "live"
  BY DEF Serving, Socks5Inv
<1>2. \A fd \in Fds(conn[c]) : fd \in FD /\ sel.item[fd].data = c
                               /\ sel.item[fd] = Entry(c, conn[c], fd)
  BY <1>1, FdsAreDisjoint
<1>3. GoodConn(conn[c])
  BY <1>1 DEF TableOK, ConnsMatch
<1>4. \A fd \in Fds(conn[c]) : sel.item[fd].interest =
              IF fd = conn[c].client_fd THEN ClientInterest(conn[c])
                                        ELSE OriginInterest(conn[c])
  BY <1>2, EntryData
<1> QED
  BY <1>1, <1>2, <1>3, <1>4 DEF Carries, GoodConn

LEMMA CarriesInterest ==
  ASSUME NEW s, NEW c \in Conns, NEW q, NEW fd, NEW i \in Interest, Carries(s, c, q),
         fd \in Fds(q) \/ fd = NoFd
  PROVE  LET t == selector_set_interest(s, fd, i)
         IN  /\ Carries(t, c, q)
             /\ \A g \in FD : t.item[g].interest = IF g = fd THEN i ELSE s.item[g].interest
<1> DEFINE t == selector_set_interest(s, fd, i)
<1>1. c # NoData
  BY SelectorAssumption, Socks5Assumption
<1>2. /\ GoodTable(t)
      /\ \A g \in FD : t.item[g] = IF g = fd /\ ITEM_USED(s, fd)
                                   THEN [interest |-> i, data |-> s.item[g].data]
                                   ELSE s.item[g]
  BY SetInterestItem DEF Carries
<1>3. fd \in FD => ITEM_USED(s, fd)
  BY <1>1, NoFdIsNone DEF Carries, ITEM_USED
<1>4. \A g \in FD : g # fd => t.item[g] = s.item[g]
  BY <1>2
<1>5. fd \in FD => t.item[fd] = [interest |-> i, data |-> s.item[fd].data]
  BY <1>2, <1>3
<1>6. fd \in FD => t.item[fd].interest = i /\ t.item[fd].data = s.item[fd].data
  BY <1>5
<1>7. fd \in FD => fd \in Fds(q)
  BY NoFdIsNone
<1> QED
  BY <1>2, <1>4, <1>6, <1>7 DEF Carries

(* A handler that leaves the connection with good contents, and its        *)
(* entries waiting for what these call for, lets it stay.                  *)
LEMMA CarriesStays ==
  ASSUME NEW c, NEW q, NEW s, Serving(c), Carries(s, c, q), GoodConn(q),
         q.client_fd = conn[c].client_fd,
         \/ q.origin_fd \in {conn[c].origin_fd, NoFd}
         \/ sel.item[q.origin_fd] = FD_UNUSED,
         s.item[q.client_fd].interest = ClientInterest(q),
         q.origin_fd # NoFd => s.item[q.origin_fd].interest = OriginInterest(q),
         Updates(c, q, s),
         open' = (open \ Fds(conn[c])) \cup Fds(q),
         link' \in [Conns -> {"none", "connecting", "up", "failed"}],
         UNCHANGED objVars
  PROVE  Stays(c)
<1>1. c \in Conns /\ conn \in [Conns -> ConnOK]
  BY DEF Serving, Socks5Inv, ObjectsOK
<1>2. conn'[c] = q /\ conn' = [conn EXCEPT ![c] = conn'[c]] /\ sel' = s
  BY <1>1 DEF Updates
<1>3. Fds(q) \subseteq FD /\ q.client_fd # q.origin_fd
  BY FdsAreDescriptors DEF GoodConn
<1>4. s.item \in [FD -> Item]
  BY DEF Carries, GoodTable, Table
<1>5. ASSUME NEW fd \in Fds(q) PROVE s.item[fd] = Entry(c, q, fd)
  <2>1. fd \in FD /\ s.item[fd].data = c /\ s.item[fd] \in Item
    BY <1>3, <1>4 DEF Carries
  <2>2. s.item[fd].interest = IF fd = q.client_fd THEN ClientInterest(q)
                                                  ELSE OriginInterest(q)
    BY <1>3 DEF Fds
  <2>3. s.item[fd] = [interest |-> s.item[fd].interest, data |-> s.item[fd].data]
    BY <2>1 DEF Item
  <2> QED
    BY <2>1, <2>2, <2>3 DEF Entry
<1>6. \A fd \in FD : s.item[fd] =
        IF fd \in Fds(q) THEN Entry(c, q, fd)
        ELSE IF fd \in Fds(conn[c]) THEN FD_UNUSED ELSE sel.item[fd]
  BY <1>5 DEF Carries
<1>7. GoodTable(s)
  BY DEF Carries
<1> QED
  BY <1>2, <1>6, <1>7 DEF Stays, objVars, poolVars

LEMMA FdsAreOpen ==
  ASSUME NEW c, Serving(c)
  PROVE  /\ Fds(conn[c]) \subseteq open
         /\ open = (open \ Fds(conn[c])) \cup Fds(conn[c])
         /\ link \in [Conns -> {"none", "connecting", "up", "failed"}]
<1>1. TableOK /\ c \in Conns /\ mem[c] = "live" /\ ObjectsOK
  BY DEF Serving, Socks5Inv
<1>2. \A fd \in Fds(conn[c]) : fd \in FD /\ sel.item[fd].data = c
  BY <1>1, FdsAreDisjoint
<1>3. c # NoData
  BY <1>1, SelectorAssumption, Socks5Assumption
<1> QED
  BY <1>1, <1>2, <1>3 DEF TableOK, Used, ITEM_USED, ObjectsOK

(* The state does not change, or to one that waits for the same events.    *)
LEMMA ContinuesPlain ==
  ASSUME NEW c, NEW q, Serving(c), GoodConn(q),
         q.client_fd = conn[c].client_fd, q.origin_fd = conn[c].origin_fd,
         ClientInterest(q) = ClientInterest(conn[c]),
         OriginInterest(q) = OriginInterest(conn[c]),
         Continues(c, q, sel)
  PROVE  Stays(c)
<1>1. Fds(q) = Fds(conn[c])
  BY DEF Fds
<1>2. Carries(sel, c, q)
  BY <1>1, CarriesStart DEF Carries
<1>3. /\ sel.item[q.client_fd].interest = ClientInterest(q)
      /\ q.origin_fd # NoFd => sel.item[q.origin_fd].interest = OriginInterest(q)
  BY CarriesStart DEF Fds, GoodConn
<1>4. /\ open' = (open \ Fds(conn[c])) \cup Fds(q)
      /\ link' \in [Conns -> {"none", "connecting", "up", "failed"}]
  BY <1>1, FdsAreOpen DEF Continues
<1> QED
  BY <1>2, <1>3, <1>4, CarriesStays DEF Continues

(* Before there is an origin, the client's interest follows the state.     *)
LEMMA ContinuesClient ==
  ASSUME NEW c, NEW q, NEW i \in Interest, Serving(c), GoodConn(q),
         q.client_fd = conn[c].client_fd,
         conn[c].origin_fd = NoFd, q.origin_fd = NoFd, ClientInterest(q) = i,
         Continues(c, q, selector_set_interest(sel, conn[c].client_fd, i))
  PROVE  Stays(c)
<1> DEFINE s == selector_set_interest(sel, conn[c].client_fd, i)
<1>1. Fds(q) = Fds(conn[c]) /\ q.client_fd \in Fds(q) /\ q.client_fd \in FD
      /\ c \in Conns
  BY FdsAreDescriptors DEF Fds, Serving
<1>2. Carries(sel, c, q)
  BY <1>1, CarriesStart DEF Carries
<1>3. Carries(s, c, q) /\ s.item[q.client_fd].interest = i
  BY <1>1, <1>2, CarriesInterest
<1>4. /\ open' = (open \ Fds(conn[c])) \cup Fds(q)
      /\ link' \in [Conns -> {"none", "connecting", "up", "failed"}]
  BY <1>1, FdsAreOpen DEF Continues
<1> QED
  BY <1>3, <1>4, CarriesStays DEF Continues

(* In the relay, copy_compute_interests makes both interests follow.       *)
LEMMA ContinuesCopy ==
  ASSUME NEW c, NEW q, Serving(c), GoodConn(q), q.st = "COPY",
         q.client_fd = conn[c].client_fd, q.origin_fd = conn[c].origin_fd,
         Continues(c, q, copy_compute_interests(sel, q))
  PROVE  Stays(c)
<1> DEFINE i == ClientInterest(q)
           j == OriginInterest(q)
           s == selector_set_interest(sel, q.client_fd, i)
           t == selector_set_interest(s, q.origin_fd, j)
<1>1. Fds(q) = Fds(conn[c]) /\ q.client_fd \in Fds(q) /\ q.client_fd \in FD
      /\ c \in Conns /\ q.client_fd # q.origin_fd
      /\ q.origin_fd \in Fds(q) /\ q.origin_fd \in FD
  BY FdsAreDescriptors DEF Fds, Serving, GoodConn
<1>2. /\ i = {op \in {"OP_READ"} : ~q.client_eof /\ can_write(q.read_buffer)}
             \cup {op \in {"OP_WRITE"} : can_read(q.write_buffer)}
      /\ j = {op \in {"OP_READ"} : ~q.origin_eof /\ can_write(q.write_buffer)}
             \cup {op \in {"OP_WRITE"} : can_read(q.read_buffer)}
  BY DEF ClientInterest, OriginInterest
<1>3. i \in Interest /\ j \in Interest
  BY <1>2 DEF Interest
<1>4. copy_compute_interests(sel, q) = t
  BY <1>2, Zenon DEF copy_compute_interests
<1>5. Carries(sel, c, q)
  BY <1>1, CarriesStart DEF Carries
<1> HIDE DEF i, j
<1>6. Carries(s, c, q) /\ s.item[q.client_fd].interest = i
  BY <1>1, <1>3, <1>5, CarriesInterest
<1>7. /\ Carries(t, c, q) /\ t.item[q.origin_fd].interest = j
      /\ t.item[q.client_fd].interest = i
  BY <1>1, <1>3, <1>6, CarriesInterest
<1>8. /\ open' = (open \ Fds(conn[c])) \cup Fds(q)
      /\ link' \in [Conns -> {"none", "connecting", "up", "failed"}]
  BY <1>1, FdsAreOpen DEF Continues
<1> HIDE DEF t
<1> QED
  BY <1>4, <1>7, <1>8, CarriesStays DEF Continues, i, j

(* The request is answered: the origin, if there is one, is muted and the  *)
(* client is waited on to write.                                           *)
LEMMA AnswersStays ==
  ASSUME NEW c, NEW r, NEW s, Serving(c), Carries(s, c, r), r \in ConnOK,
         GoodConn(WithRequestWrite(r)),
         r.client_fd = conn[c].client_fd,
         \/ r.origin_fd \in {conn[c].origin_fd, NoFd}
         \/ sel.item[r.origin_fd] = FD_UNUSED,
         AnswersRequest(c, r, s),
         open' = (open \ Fds(conn[c])) \cup Fds(r),
         link' \in [Conns -> {"none", "connecting", "up", "failed"}]
  PROVE  Stays(c)
<1> DEFINE q == WithRequestWrite(r)
           mute == {}
           s1 == selector_set_interest(s, r.origin_fd, mute)
           t == selector_set_interest(s1, r.client_fd, {"OP_WRITE"})
<1>1. q.client_fd = r.client_fd /\ q.origin_fd = r.origin_fd
      /\ q.st = "REQUEST_WRITE"
  BY DEF WithRequestWrite, ConnOK
<1>2. Fds(q) = Fds(r) /\ c \in Conns
  BY <1>1 DEF Fds, Serving
<1>3. Carries(s, c, q)
  BY <1>2 DEF Carries
<1>4. ClientInterest(q) = {"OP_WRITE"} /\ OriginInterest(q) = {}
  BY <1>1 DEF ClientInterest, OriginInterest
<1>5. mute \in Interest /\ {"OP_WRITE"} \in Interest
  BY DEF Interest
<1>6. q.client_fd \in Fds(q) /\ q.client_fd \in FD /\ q.client_fd # q.origin_fd
      /\ (q.origin_fd # NoFd => q.origin_fd \in Fds(q) /\ q.origin_fd \in FD)
  BY FdsAreDescriptors DEF GoodConn, Fds
<1> HIDE DEF q, mute
<1>7. Carries(s1, c, q)
      /\ (q.origin_fd # NoFd => s1.item[q.origin_fd].interest = mute)
  <2>1. r.origin_fd \in Fds(q) \/ r.origin_fd = NoFd
    BY <1>1, <1>6
  <2>2. /\ Carries(s1, c, q)
        /\ \A g \in FD : s1.item[g].interest =
             IF g = r.origin_fd THEN mute ELSE s.item[g].interest
    <3> DEFINE of == r.origin_fd
    <3>1. of \in Fds(q) \/ of = NoFd
      BY <2>1
    <3> HIDE DEF of
    <3>2. LET u == selector_set_interest(s, of, mute)
          IN  /\ Carries(u, c, q)
              /\ \A g \in FD : u.item[g].interest =
                   IF g = of THEN mute ELSE s.item[g].interest
      BY <1>2, <1>3, <1>5, <3>1, CarriesInterest
    <3> QED
      BY <3>2 DEF of
  <2> QED
    BY <1>1, <1>6, <2>2
<1>8. Carries(t, c, q) /\ t.item[q.client_fd].interest = {"OP_WRITE"}
      /\ (q.origin_fd # NoFd => t.item[q.origin_fd].interest = mute)
  BY <1>1, <1>2, <1>5, <1>6, <1>7, CarriesInterest
<1>9. Updates(c, q, t) /\ UNCHANGED objVars
  BY DEF AnswersRequest, WriteOnly, q, mute
<1> HIDE DEF t
<1> QED
  BY <1>1, <1>2, <1>4, <1>8, <1>9, CarriesStays DEF q, mute

LEMMA PairCardinality ==
  ASSUME NEW a, NEW b, a # b
  PROVE  Cardinality({a, b}) = 2
<1>1. IsFiniteSet({a}) /\ Cardinality({a}) = 1 /\ b \notin {a}
  BY FS_Singleton
<1>2. Cardinality({a} \cup {b}) = 1 + 1
  BY <1>1, FS_AddElement
<1>3. {a, b} = {a} \cup {b}
  OBVIOUS
<1> QED
  BY <1>2, <1>3

(* The state machine has ended: socksv5_done closes both descriptors and,  *)
(* with them, drops all the references.                                    *)
LEMMA DoneGone ==
  ASSUME NEW c, Serving(c), socksv5_done(c)
  PROVE  Gone(c)
<1> DEFINE cf == conn[c].client_fd
           of == conn[c].origin_fd
           s == selector_unregister_fd(sel, cf)
           t == selector_unregister_fd(s, of)
<1>0. /\ c \in Conns /\ mem[c] = "live" /\ TableOK /\ GoodTable(sel)
      /\ GoodConn(conn[c])
  BY CarriesStart DEF Serving, Socks5Inv
<1>1. cf \in FD /\ cf # of /\ Fds(conn[c]) = {cf, of} \ {NoFd}
  BY <1>0, FdsAreDescriptors DEF GoodConn, Fds
<1>r. conn[c].references = IF of = NoFd THEN 1 ELSE 2
  BY <1>0 DEF GoodConn
<1>2. conn[c].references - Cardinality({cf, of} \ {NoFd}) = 0
  <2>1. CASE of = NoFd
    <3>1. {cf, of} \ {NoFd} = {cf}
      BY <1>1, <2>1, NoFdIsNone
    <3>2. Cardinality({cf}) = 1
      BY FS_Singleton
    <3> QED
      BY <1>r, <2>1, <3>1, <3>2
  <2>2. CASE of # NoFd
    <3>1. {cf, of} \ {NoFd} = {cf, of}
      BY <1>1, <2>2, NoFdIsNone
    <3>2. Cardinality({cf, of}) = 2
      BY <1>1, PairCardinality
    <3> QED
      BY <1>r, <2>2, <3>1, <3>2
  <2> QED
    BY <2>1, <2>2
<1>3. /\ sel' = t /\ open' = open \ {cf, of}
      /\ link' = [link EXCEPT ![c] = "none"]
      /\ socks5_destroy(c) /\ metrics_connection_closed
  BY <1>2 DEF socksv5_done
<1>4. \A fd \in Fds(conn[c]) : fd \in FD /\ ITEM_USED(sel, fd)
  BY <1>0, FdsAreDisjoint, SelectorAssumption, Socks5Assumption DEF ITEM_USED
<1>5. GoodTable(s)
      /\ \A g \in FD : s.item[g] = IF g = cf THEN FD_UNUSED ELSE sel.item[g]
  BY <1>0, <1>1, <1>4, UnregisterItem, NoFdIsNone
<1>6. of \in FD => ITEM_USED(s, of)
  BY <1>1, <1>4, <1>5, NoFdIsNone DEF ITEM_USED
<1> HIDE DEF s
<1>7. GoodTable(t)
      /\ \A g \in FD : t.item[g] = IF g = of THEN FD_UNUSED ELSE s.item[g]
  BY <1>5, <1>6, UnregisterItem
<1>8. GoodTable(t) /\ \A g \in FD : t.item[g] =
        IF g \in Fds(conn[c]) THEN FD_UNUSED ELSE sel.item[g]
  BY <1>1, <1>5, <1>7, NoFdIsNone
<1>9. open' = open \ Fds(conn[c])
  <2>1. NoFd \notin open
    BY <1>0, NoFdIsNone DEF TableOK, Used
  <2> QED
    BY <1>1, <1>3, <2>1
<1>10. link' \in [Conns -> {"none", "connecting", "up", "failed"}]
  BY <1>3, FdsAreOpen
<1> HIDE DEF t
<1> QED
  BY <1>3, <1>8, <1>9, <1>10 DEF Gone, socks5_destroy

\* What start_connection is handed: contents r without an origin, whose client
\* is muted, in a table s and with descriptors o that belong to them.
Unconnected(c, r, s, o) ==
  /\ r \in ConnOK
  /\ r.client_fd = conn[c].client_fd /\ r.client_fd # NoFd
  /\ r.origin_fd = NoFd /\ r.references = 1
  /\ ~r.resolving /\ ~r.client_eof /\ ~r.origin_eof
  /\ Carries(s, c, r)
  /\ s.item[r.client_fd].interest = {}
  /\ o = (open \ Fds(conn[c])) \cup Fds(r)

\* What request_write_arrival makes of contents p.
LEMMA AnswerGood ==
  ASSUME NEW p \in ConnOK, p.client_fd # NoFd, p.client_fd # p.origin_fd,
         p.references = IF p.origin_fd = NoFd THEN 1 ELSE 2,
         p.reply = "SUCCESS" <=> p.origin_fd # NoFd,
         ~p.resolving, ~p.client_eof, ~p.origin_eof
  PROVE  GoodConn(WithRequestWrite(p)) /\ WithRequestWrite(p).st = "REQUEST_WRITE"
<1> DEFINE q == WithRequestWrite(p)
<1>1. q \in ConnOK
  BY DEF ConnOK, WithRequestWrite, State, Buffer
<1>2. /\ q.st = "REQUEST_WRITE"
      /\ q.client_fd = p.client_fd /\ q.origin_fd = p.origin_fd
      /\ q.references = p.references /\ q.reply = p.reply
      /\ q.resolving = p.resolving
      /\ q.client_eof = p.client_eof /\ q.origin_eof = p.origin_eof
  BY DEF ConnOK, WithRequestWrite
<1> HIDE DEF q
<1>3. GoodConn(q)
  BY <1>1, <1>2 DEF GoodConn, WithoutOrigin, BothDone
<1> QED
  BY <1>2, <1>3 DEF q

LEMMA RepliesAreReplies ==
  ASSUME NEW r \in ConnOK, NEW n, NEW reply \in AfterSkipping(r, n)
  PROVE  reply \in Reply
BY DEF AfterSkipping, ConnOK, Reply

(* An origin is registered under a descriptor that was free.               *)
LEMMA OriginRegistered ==
  ASSUME NEW c, NEW r, NEW s, NEW o, NEW fd, NEW i \in Interest, NEW q,
         Serving(c), Unconnected(c, r, s, o), CanRegister(s, fd),
         q.client_fd = r.client_fd, q.origin_fd = fd
  PROVE  LET t == selector_register(s, fd, i, c)
         IN  /\ Carries(t, c, q)
             /\ t.item[fd].interest = i /\ t.item[q.client_fd].interest = {}
             /\ fd \in FD /\ fd # NoFd /\ fd # r.client_fd
             /\ fd = conn[c].origin_fd \/ sel.item[fd] = FD_UNUSED
             /\ o \cup {fd} = (open \ Fds(conn[c])) \cup Fds(q)
<1> DEFINE t == selector_register(s, fd, i, c)
<1>0. /\ c \in Conns /\ mem[c] = "live" /\ TableOK /\ GoodTable(s)
      /\ c \in Data /\ c # NoData
      /\ fd \in FD /\ s.item[fd].data = NoData
  BY SelectorAssumption, Socks5Assumption
  DEF Serving, Socks5Inv, Unconnected, Carries, CanRegister, ITEM_USED
<1>1. fd # NoFd /\ r.client_fd \in FD
  BY <1>0, NoFdIsNone DEF Unconnected, ConnOK
<1>2. Fds(r) = {r.client_fd} /\ Fds(q) = {r.client_fd, fd}
  BY <1>1 DEF Fds, Unconnected
<1>3. s.item[r.client_fd].data = c /\ fd # r.client_fd
  BY <1>0, <1>1, <1>2 DEF Unconnected, Carries
<1>4. /\ GoodTable(t)
      /\ \A g \in FD : t.item[g] = IF g = fd THEN [interest |-> i, data |-> c]
                                             ELSE s.item[g]
  BY <1>0, RegisterItem
<1>5. t.item[fd].interest = i /\ t.item[fd].data = c
  BY <1>0, <1>4
<1>6. Carries(t, c, q)
  BY <1>2, <1>3, <1>4, <1>5 DEF Unconnected, Carries
<1>7. t.item[q.client_fd].interest = {}
  BY <1>1, <1>3, <1>4 DEF Unconnected
<1>8. fd = conn[c].origin_fd \/ sel.item[fd] = FD_UNUSED
  <2>1. CASE fd \in Fds(conn[c])
    BY <1>3, <2>1 DEF Fds, Unconnected
  <2>2. CASE fd \notin Fds(conn[c])
    <3>1. sel.item[fd].data = NoData
      BY <1>0, <1>2, <1>3, <2>2 DEF Unconnected, Carries
    <3>2. \A d \in Conns : Entry(d, conn[d], fd).data # NoData
      BY EntryData, SelectorAssumption, Socks5Assumption
    <3>3. ListenerEntry.data # NoData
      BY SelectorAssumption, Socks5Assumption DEF ListenerEntry
    <3> QED
      BY <1>0, <3>1, <3>2, <3>3 DEF TableOK, TableMatches
  <2> QED
    BY <2>1, <2>2
<1>9. o \cup {fd} = (open \ Fds(conn[c])) \cup Fds(q)
  BY <1>2 DEF Unconnected
<1> QED
  BY <1>0, <1>1, <1>3, <1>5, <1>6, <1>7, <1>8, <1>9

LEMMA ExhaustedStays ==
  ASSUME NEW c, NEW r, NEW s, NEW o, Serving(c), Unconnected(c, r, s, o),
         CandidatesExhausted(c, r, s, o)
  PROVE  Stays(c) /\ conn'[c].st = "REQUEST_WRITE"
<1>1. PICK reply \in AfterSkipping(r, r.left) :
        AnswersRequest(c, [r EXCEPT !.left = 0, !.reply = ExhaustedReply(reply)], s)
  BY DEF CandidatesExhausted
<1> DEFINE p == [r EXCEPT !.left = 0, !.reply = ExhaustedReply(reply)]
<1>2. r \in ConnOK /\ c \in Conns /\ conn \in [Conns -> ConnOK]
  BY DEF Unconnected, Serving, Socks5Inv, ObjectsOK
<1>3. ExhaustedReply(reply) \in Reply /\ ExhaustedReply(reply) # "SUCCESS"
  BY <1>2, RepliesAreReplies DEF ExhaustedReply, Reply
<1>4. /\ p \in ConnOK /\ p.client_fd = r.client_fd /\ p.origin_fd = NoFd
      /\ p.reply # "SUCCESS" /\ p.references = 1 /\ ~p.resolving
      /\ ~p.client_eof /\ ~p.origin_eof
  <2>0. 0 \in 0 .. MAX_ADDRS
    BY Socks5Assumption
  <2>1. p \in ConnOK
    BY <1>2, <1>3, <2>0 DEF ConnOK
  <2>2. /\ p.client_fd = r.client_fd /\ p.origin_fd = r.origin_fd
        /\ p.reply = ExhaustedReply(reply) /\ p.references = r.references
        /\ p.resolving = r.resolving
        /\ p.client_eof = r.client_eof /\ p.origin_eof = r.origin_eof
    BY <1>2 DEF ConnOK
  <2> HIDE DEF p
  <2> QED
    BY <1>3, <2>1, <2>2 DEF Unconnected
<1> HIDE DEF p
<1>5. GoodConn(WithRequestWrite(p)) /\ WithRequestWrite(p).st = "REQUEST_WRITE"
  <2>1. /\ p.client_fd # NoFd /\ p.client_fd # p.origin_fd
        /\ p.references = IF p.origin_fd = NoFd THEN 1 ELSE 2
        /\ p.reply = "SUCCESS" <=> p.origin_fd # NoFd
    BY <1>4 DEF Unconnected
  <2> QED
    BY <1>4, <2>1, AnswerGood
<1>6. Fds(p) = Fds(r)
  BY <1>4 DEF Fds, Unconnected
<1>7. Carries(s, c, p) /\ open' = (open \ Fds(conn[c])) \cup Fds(p)
  BY <1>6 DEF Unconnected, Carries, CandidatesExhausted
<1>8. link' \in [Conns -> {"none", "connecting", "up", "failed"}]
  BY FdsAreOpen DEF CandidatesExhausted
<1>9. AnswersRequest(c, p, s)
  BY <1>1 DEF p
<1>10. conn'[c] = WithRequestWrite(p)
  BY <1>2, <1>9 DEF AnswersRequest, Updates
<1> QED
  BY <1>4, <1>5, <1>7, <1>8, <1>9, <1>10, AnswersStays DEF Unconnected

LEMMA AtOnceStays ==
  ASSUME NEW c, NEW r, NEW s, NEW o, Serving(c), Unconnected(c, r, s, o),
         ConnectedAtOnce(c, r, s, o)
  PROVE  Stays(c) /\ conn'[c].st = "REQUEST_WRITE"
<1>1. PICK n \in 0 .. r.left - 1, fd \in LowestFree(o) :
        /\ CanRegister(s, fd)
        /\ AnswersRequest(c, [WithOrigin(r, fd) EXCEPT !.left = @ - n,
                                                       !.reply = "SUCCESS"],
                          selector_register(s, fd, {}, c))
        /\ open' = o \cup {fd}
        /\ link' = [link EXCEPT ![c] = "up"]
  BY DEF ConnectedAtOnce
<1> DEFINE p == [WithOrigin(r, fd) EXCEPT !.left = @ - n, !.reply = "SUCCESS"]
           mute == {}
           t == selector_register(s, fd, mute, c)
<1>2. r \in ConnOK /\ c \in Conns /\ conn \in [Conns -> ConnOK] /\ fd \in FD
  BY <1>1 DEF Unconnected, Serving, Socks5Inv, ObjectsOK, CanRegister
<1>3. r.left - n \in 0 .. MAX_ADDRS /\ "SUCCESS" \in Reply /\ r.references + 1 \in 0 .. 2
  BY <1>1, <1>2, Socks5Assumption DEF ConnOK, Reply, Unconnected
<1>4. p \in ConnOK
  BY <1>2, <1>3 DEF ConnOK, WithOrigin
<1>5. /\ p.client_fd = r.client_fd /\ p.origin_fd = fd
      /\ p.reply = "SUCCESS" /\ p.references = r.references + 1
      /\ p.resolving = r.resolving
      /\ p.client_eof = r.client_eof /\ p.origin_eof = r.origin_eof
  BY <1>2 DEF ConnOK, WithOrigin
<1> HIDE DEF p
<1>6. mute \in Interest
  BY DEF Interest
<1>7. AnswersRequest(c, p, t)
  BY <1>1 DEF p
<1> HIDE DEF mute
<1>8. /\ Carries(t, c, p)
      /\ fd # NoFd /\ fd # r.client_fd
      /\ fd = conn[c].origin_fd \/ sel.item[fd] = FD_UNUSED
      /\ o \cup {fd} = (open \ Fds(conn[c])) \cup Fds(p)
  BY <1>1, <1>5, <1>6, OriginRegistered
<1>9. GoodConn(WithRequestWrite(p)) /\ WithRequestWrite(p).st = "REQUEST_WRITE"
  <2>1. /\ p.client_fd # NoFd /\ p.client_fd # p.origin_fd
        /\ p.references = IF p.origin_fd = NoFd THEN 1 ELSE 2
        /\ p.reply = "SUCCESS" <=> p.origin_fd # NoFd
        /\ ~p.resolving /\ ~p.client_eof /\ ~p.origin_eof
    BY <1>5, <1>8 DEF Unconnected
  <2> QED
    BY <1>4, <2>1, AnswerGood
<1>10. link' \in [Conns -> {"none", "connecting", "up", "failed"}]
  BY <1>1, FdsAreOpen
<1>11. conn'[c] = WithRequestWrite(p)
  BY <1>2, <1>7 DEF AnswersRequest, Updates
<1> HIDE DEF t
<1>12. p.client_fd = conn[c].client_fd
  BY <1>5 DEF Unconnected
<1> QED
  BY <1>1, <1>4, <1>5, <1>7, <1>8, <1>9, <1>10, <1>11, <1>12, AnswersStays

LEMMA UnderWayStays ==
  ASSUME NEW c, NEW r, NEW s, NEW o, Serving(c), Unconnected(c, r, s, o),
         ConnectionUnderWay(c, r, s, o)
  PROVE  Stays(c) /\ conn'[c].st = "REQUEST_CONNECTING"
<1>1. PICK n \in 0 .. r.left - 1, fd \in LowestFree(o) :
       /\ CanRegister(s, fd)
       /\ \E reply \in AfterSkipping(r, n) :
            Updates(c, [WithOrigin(r, fd) EXCEPT !.st = "REQUEST_CONNECTING",
                                                 !.left = @ - n,
                                                 !.reply = reply],
                    selector_register(s, fd, {"OP_WRITE"}, c))
       /\ open' = o \cup {fd}
  BY DEF ConnectionUnderWay
<1>2. PICK reply \in AfterSkipping(r, n) :
        Updates(c, [WithOrigin(r, fd) EXCEPT !.st = "REQUEST_CONNECTING",
                                             !.left = @ - n, !.reply = reply],
                selector_register(s, fd, {"OP_WRITE"}, c))
  BY <1>1
<1> DEFINE q == [WithOrigin(r, fd) EXCEPT !.st = "REQUEST_CONNECTING",
                                          !.left = @ - n, !.reply = reply]
           i == {"OP_WRITE"}
           t == selector_register(s, fd, i, c)
<1>3. r \in ConnOK /\ c \in Conns /\ conn \in [Conns -> ConnOK] /\ fd \in FD
  BY <1>1 DEF Unconnected, Serving, Socks5Inv, ObjectsOK, CanRegister
<1>4. /\ r.left - n \in 0 .. MAX_ADDRS /\ r.left - n >= 1
      /\ reply \in Reply /\ r.references + 1 \in 0 .. 2
  BY <1>1, <1>3, Socks5Assumption, RepliesAreReplies DEF ConnOK, Unconnected
<1>5. q \in ConnOK
  BY <1>3, <1>4 DEF ConnOK, WithOrigin, State
<1>6. /\ q.st = "REQUEST_CONNECTING" /\ q.left = r.left - n
      /\ q.client_fd = r.client_fd /\ q.origin_fd = fd
      /\ q.references = r.references + 1
      /\ q.resolving = r.resolving
      /\ q.client_eof = r.client_eof /\ q.origin_eof = r.origin_eof
  BY <1>3 DEF ConnOK, WithOrigin
<1>7. i \in Interest
  BY DEF Interest
<1>8. Updates(c, q, t)
  BY <1>2
<1> HIDE DEF q, i
<1>9. /\ Carries(t, c, q) /\ t.item[fd].interest = i
      /\ t.item[q.client_fd].interest = {}
      /\ fd # NoFd /\ fd # r.client_fd
      /\ fd = conn[c].origin_fd \/ sel.item[fd] = FD_UNUSED
      /\ o \cup {fd} = (open \ Fds(conn[c])) \cup Fds(q)
  <2>1. CanRegister(s, fd) /\ q.client_fd = r.client_fd /\ q.origin_fd = fd
    BY <1>1, <1>6
  <2> QED
    BY <2>1, <1>7, OriginRegistered
<1>10. GoodConn(q)
  BY <1>4, <1>5, <1>6, <1>9 DEF GoodConn, WithoutOrigin, BothDone, Unconnected
<1>11. ClientInterest(q) = {} /\ OriginInterest(q) = i
  BY <1>6 DEF ClientInterest, OriginInterest, i
<1>12. link' \in [Conns -> {"none", "connecting", "up", "failed"}]
       /\ UNCHANGED objVars
  BY FdsAreOpen DEF ConnectionUnderWay
<1>13. conn'[c] = q
  BY <1>3, <1>8 DEF Updates
<1>14. q.client_fd = conn[c].client_fd
  BY <1>6 DEF Unconnected
<1> HIDE DEF t
<1> QED
  BY <1>1, <1>6, <1>8, <1>9, <1>10, <1>11, <1>12, <1>13, <1>14, CarriesStays

LEMMA StartStays ==
  ASSUME NEW c, NEW r, NEW s, NEW o, Serving(c), Unconnected(c, r, s, o),
         start_connection(c, r, s, o)
  PROVE  Stays(c) /\ conn'[c].st \in {"REQUEST_WRITE", "REQUEST_CONNECTING"}
         /\ UNCHANGED <<wconn, workVars>>
<1>1. Stays(c) /\ conn'[c].st \in {"REQUEST_WRITE", "REQUEST_CONNECTING"}
  BY ExhaustedStays, AtOnceStays, UnderWayStays DEF start_connection
<1>2. UNCHANGED <<wconn, workVars>>
  BY DEF start_connection, CandidatesExhausted, ConnectedAtOnce,
         ConnectionUnderWay, AnswersRequest
<1> QED
  BY <1>1, <1>2

-----------------------------------------------------------------------------
(* Which handler may be called, and of whom.                               *)

\* The entries of the table, one by one.
LEMMA EntriesOwned ==
  ASSUME Socks5Inv, Running, NEW fd \in FD, NEW c \in Conns, sel.item[fd].data = c
  PROVE  Serving(c) /\ fd \in Fds(conn[c]) /\ sel.item[fd] = Entry(c, conn[c], fd)
<1>1. c # NoData /\ c # Listener
  BY SelectorAssumption, Socks5Assumption
<1>2. sel.item[fd] # FD_UNUSED /\ sel.item[fd] # ListenerEntry
  BY <1>1 DEF FD_UNUSED, ListenerEntry
<1>3. PICK d \in Conns : /\ mem[d] = "live" /\ fd \in Fds(conn[d])
                         /\ sel.item[fd] = Entry(d, conn[d], fd)
  BY <1>2 DEF Socks5Inv, TableOK, TableMatches
<1>4. d = c
  BY <1>3, EntryData
<1> QED
  BY <1>3, <1>4 DEF Serving

LEMMA CursorInTable ==
  ASSUME Socks5Inv, ReadDue \/ WriteDue
  PROVE  cursor \in FD /\ pc = "iterate" /\ Running /\ cursor <= limit
BY DEF Socks5Inv, LoopOK, ReadDue, WriteDue, AtItem, Running, FD

LEMMA ReadingServes ==
  ASSUME Socks5Inv, NEW c \in Conns, NEW st, Reading(c, st)
  PROVE  /\ Serving(c) /\ conn[c].st = st /\ pc = "iterate"
         /\ cursor \in FD /\ sel.item[cursor].data = c
<1>1. ReadDue /\ sel.item[cursor].data = c /\ conn[c].st = st
  BY DEF Reading, DispatchRead
<1> QED
  BY <1>1, CursorInTable, EntriesOwned

LEMMA WriteOwned ==
  ASSUME Socks5Inv, WriteDue
  PROVE  KeyData = sel.item[cursor].data /\ KeyData \in Conns /\ mem[KeyData] = "live"
<1>1. /\ cursor \in FD /\ pc = "iterate" /\ Running
      /\ "OP_WRITE" \in sel.item[cursor].interest
  BY CursorInTable DEF WriteDue
<1>2. sel.item[cursor] # FD_UNUSED /\ sel.item[cursor] # ListenerEntry
  BY <1>1 DEF FD_UNUSED, ListenerEntry
<1>3. PICK c \in Conns : /\ mem[c] = "live"
                         /\ sel.item[cursor] = Entry(c, conn[c], cursor)
  BY <1>1, <1>2 DEF Socks5Inv, TableOK, TableMatches
<1>4. sel.item[cursor].data = c /\ c # NoData
  BY <1>3, EntryData, SelectorAssumption, Socks5Assumption
<1>5. KeyData = c
  BY <1>4 DEF KeyData, Socks5Inv, LoopOK, KeyMatches
<1> QED
  BY <1>3, <1>4, <1>5

LEMMA WritingServes ==
  ASSUME Socks5Inv, NEW c \in Conns, NEW st, Writing(c, st)
  PROVE  /\ Serving(c) /\ conn[c].st = st /\ pc = "iterate"
         /\ cursor \in FD /\ sel.item[cursor].data = c
<1>1. WriteDue /\ KeyData = c /\ conn[c].st = st
  BY DEF Writing, DispatchWrite
<1>2. sel.item[cursor].data = c
  BY <1>1, WriteOwned
<1> QED
  BY <1>1, <1>2, CursorInTable, EntriesOwned

LEMMA ResolvedServes ==
  ASSUME Socks5Inv, NEW c \in Conns, Resolved(c)
  PROVE  /\ Serving(c) /\ conn[c].st = "REQUEST_RESOLV" /\ pc = "jobs"
         /\ walk # <<>> /\ conn[c].client_fd = Head(walk)
<1>1. /\ pc = "jobs" /\ walk # <<>> /\ sel.item[Head(walk)].data = c
      /\ conn[c].st = "REQUEST_RESOLV" /\ Running
  BY DEF Resolved, DispatchBlock, JobDue, on_block_ready, Running
<1>2. walk \in Seq(FD) /\ Head(walk) \in FD /\ 1 \in DOMAIN walk /\ Head(walk) = walk[1]
  BY <1>1 DEF Socks5Inv, NotifyOK
<1>3. Serving(c)
  BY <1>1, <1>2, EntriesOwned
<1>4. PICK d \in Conns : mem[d] = "live" /\ conn[d].client_fd = Head(walk)
  BY <1>1, <1>2 DEF Socks5Inv, ResolversOK, JobsServe, Unserved
<1>5. Head(walk) \in Fds(conn[d])
  BY <1>1, <1>2, <1>4, NoFdIsNone DEF Fds
<1>6. d = c
  BY <1>1, <1>4, <1>5 DEF Socks5Inv, TableOK, ConnsMatch
<1> QED
  BY <1>1, <1>3, <1>4, <1>6

-----------------------------------------------------------------------------
(* What each handler of a connection leaves.                               *)

\* A handler other than those of a resolution ends like this.
Ends(c) ==
  /\ (Stays(c) /\ conn'[c].st # "REQUEST_RESOLV") \/ Gone(c)
  /\ UNCHANGED <<wconn, workVars>>

\* The fields a step of the handshake leaves alone.
SameParts(q, r) ==
  /\ q.client_fd = r.client_fd /\ q.origin_fd = r.origin_fd
  /\ q.references = r.references /\ q.resolving = r.resolving
  /\ q.client_eof = r.client_eof /\ q.origin_eof = r.origin_eof

LEMMA HandshakeGood ==
  ASSUME NEW q \in ConnOK, NEW r, GoodConn(r), SameParts(q, r),
         r.st \in WithoutOrigin \ {"REQUEST_RESOLV"},
         q.st \in WithoutOrigin \ {"REQUEST_RESOLV"}
  PROVE  GoodConn(q) /\ q.origin_fd = NoFd /\ r.origin_fd = NoFd
BY DEF GoodConn, SameParts, WithoutOrigin, BothDone

LEMMA DoneEnds ==
  ASSUME NEW c, Serving(c), socksv5_done(c)
  PROVE  Ends(c)
<1>1. UNCHANGED <<wconn, workVars>>
  BY DEF socksv5_done
<1> QED
  BY <1>1, DoneGone DEF Ends

\* Reading or writing on in the same state, with at most a buffer changed.
LEMMA GoesOnEnds ==
  ASSUME NEW c, Serving(c), conn[c].st \in WithoutOrigin \ {"REQUEST_RESOLV"},
         ReadsOn(c)
  PROVE  Ends(c)
<1>1. PICK left \in {conn[c].read_buffer, "empty"} :
        Continues(c, [conn[c] EXCEPT !.read_buffer = left], sel)
  BY DEF ReadsOn
<1> DEFINE q == [conn[c] EXCEPT !.read_buffer = left]
<1>2. conn[c] \in ConnOK /\ GoodConn(conn[c]) /\ c \in Conns
      /\ conn \in [Conns -> ConnOK]
  BY CarriesStart DEF Serving, Socks5Inv, ObjectsOK
<1>3. q \in ConnOK /\ SameParts(q, conn[c]) /\ q.st = conn[c].st
  BY <1>2 DEF ConnOK, Buffer, SameParts
<1>4. Continues(c, q, sel) /\ conn'[c] = q
  BY <1>1, <1>2 DEF Continues, Updates
<1> HIDE DEF q
<1>5. GoodConn(q) /\ q.origin_fd = conn[c].origin_fd
  BY <1>2, <1>3, HandshakeGood
<1>6. ClientInterest(q) = ClientInterest(conn[c])
      /\ OriginInterest(q) = OriginInterest(conn[c])
  BY <1>3 DEF ClientInterest, OriginInterest, WithoutOrigin
<1>7. Stays(c)
  BY <1>3, <1>4, <1>5, <1>6, ContinuesPlain DEF SameParts
<1> QED
  BY <1>3, <1>4, <1>7 DEF Ends, Continues

LEMMA WritesOnEnds ==
  ASSUME NEW c, Serving(c), conn[c].st # "REQUEST_RESOLV", WritesOn(c)
  PROVE  Ends(c)
<1>1. GoodConn(conn[c]) /\ c \in Conns /\ conn \in [Conns -> ConnOK]
  BY CarriesStart DEF Serving, Socks5Inv, ObjectsOK
<1>2. Stays(c)
  BY <1>1, ContinuesPlain DEF WritesOn
<1>3. conn'[c] = conn[c]
  BY <1>1 DEF WritesOn, Continues, Updates
<1> QED
  BY <1>2, <1>3 DEF Ends, WritesOn, Continues

\* A step of the handshake to a state that waits for i on the client.
LEMMA TurnEnds ==
  ASSUME NEW c, Serving(c), conn[c].st \in WithoutOrigin \ {"REQUEST_RESOLV"},
         NEW q \in ConnOK, q.st \in WithoutOrigin \ {"REQUEST_RESOLV"},
         SameParts(q, conn[c]), NEW i \in Interest, ClientInterest(q) = i,
         Continues(c, q, selector_set_interest(sel, conn[c].client_fd, i))
  PROVE  Ends(c)
<1>1. GoodConn(conn[c]) /\ c \in Conns /\ conn \in [Conns -> ConnOK]
  BY CarriesStart DEF Serving, Socks5Inv, ObjectsOK
<1>2. GoodConn(q) /\ q.origin_fd = NoFd /\ conn[c].origin_fd = NoFd
      /\ q.client_fd = conn[c].client_fd
  BY <1>1, HandshakeGood DEF SameParts
<1>3. Stays(c)
  BY <1>2, ContinuesClient
<1>4. conn'[c] = q
  BY <1>1 DEF Continues, Updates
<1> QED
  BY <1>3, <1>4 DEF Ends, Continues

LEMMA HelloReadEnds ==
  ASSUME Socks5Inv, NEW c \in Conns, hello_read(c)
  PROVE  Serving(c) /\ Ends(c) /\ conn[c].st # "REQUEST_RESOLV"
<1>1. Serving(c) /\ conn[c].st = "HELLO_READ" /\ conn[c] \in ConnOK
  BY ReadingServes, CarriesStart DEF hello_read
<1>2. CASE ReadsOn(c) \/ socksv5_done(c)
  BY <1>1, <1>2, GoesOnEnds, DoneEnds DEF WithoutOrigin
<1>3. ASSUME NEW offered \in Offers, NEW rest \in Leftovers,
             Continues(c, [conn[c] EXCEPT !.st = "HELLO_WRITE",
                                          !.method = choose_method(offered),
                                          !.read_buffer = rest,
                                          !.write_buffer = "part"],
                       selector_set_interest(sel, conn[c].client_fd, {"OP_WRITE"}))
      PROVE  Ends(c)
  <2> DEFINE m == choose_method(offered)
             q == [conn[c] EXCEPT !.st = "HELLO_WRITE", !.method = m,
                                  !.read_buffer = rest, !.write_buffer = "part"]
             i == {"OP_WRITE"}
  <2>1. m \in {"NO_AUTH", "USERPASS", "NONE"}
    <3>1. offered \in SUBSET {"NO_AUTH", "USERPASS"}
      BY Socks5Assumption
    <3>2. \/ offered = {} \/ offered = {"USERPASS"} \/ "NO_AUTH" \in offered
      BY <3>1
    <3> QED
      BY <3>1, <3>2 DEF choose_method
  <2>2. rest \in Buffer
    BY Socks5Assumption DEF Buffer
  <2>3. Continues(c, q, selector_set_interest(sel, conn[c].client_fd, i))
    BY <1>3
  <2> HIDE DEF m
  <2>4. q \in ConnOK
    BY <1>1, <2>1, <2>2 DEF ConnOK, State, Buffer
  <2>5. SameParts(q, conn[c]) /\ q.st = "HELLO_WRITE"
    BY <1>1 DEF ConnOK, SameParts
  <2>6. i \in Interest
    BY DEF Interest
  <2> HIDE DEF q
  <2>7. ClientInterest(q) = i
    BY <2>5 DEF ClientInterest
  <2> HIDE DEF i
  <2> QED
    BY <1>1, <2>3, <2>4, <2>5, <2>6, <2>7, TurnEnds DEF WithoutOrigin
<1>4. Ends(c)
  BY <1>2, <1>3 DEF hello_read
<1> QED
  BY <1>1, <1>4

LEMMA HelloWriteEnds ==
  ASSUME Socks5Inv, NEW c \in Conns, hello_write(c)
  PROVE  Serving(c) /\ Ends(c) /\ conn[c].st # "REQUEST_RESOLV"
<1>1. Serving(c) /\ conn[c].st = "HELLO_WRITE" /\ conn[c] \in ConnOK
  BY WritingServes, CarriesStart DEF hello_write
<1>2. CASE WritesOn(c) \/ socksv5_done(c)
  BY <1>1, <1>2, WritesOnEnds, DoneEnds
<1>3. CASE Continues(c, [conn[c] EXCEPT !.st = AfterHello(conn[c].method),
                                        !.write_buffer = "empty"],
                     selector_set_interest(sel, conn[c].client_fd, {"OP_READ"}))
  <2> DEFINE a == AfterHello(conn[c].method)
             q == [conn[c] EXCEPT !.st = a, !.write_buffer = "empty"]
             i == {"OP_READ"}
  <2>1. a \in {"AUTH_READ", "REQUEST_READ"}
    BY DEF AfterHello
  <2>2. Continues(c, q, selector_set_interest(sel, conn[c].client_fd, i))
    BY <1>3
  <2> HIDE DEF a
  <2>3. q \in ConnOK
    BY <1>1, <2>1 DEF ConnOK, State, Buffer
  <2>4. SameParts(q, conn[c]) /\ q.st = a
    BY <1>1 DEF ConnOK, SameParts
  <2>5. i \in Interest
    BY DEF Interest
  <2> HIDE DEF q
  <2>6. ClientInterest(q) = i
    BY <2>1, <2>4 DEF ClientInterest
  <2> HIDE DEF i
  <2> QED
    BY <1>1, <2>1, <2>2, <2>3, <2>4, <2>5, <2>6, TurnEnds DEF WithoutOrigin
<1>4. Ends(c)
  BY <1>2, <1>3 DEF hello_write
<1> QED
  BY <1>1, <1>4

LEMMA AuthReadEnds ==
  ASSUME Socks5Inv, NEW c \in Conns, auth_read(c)
  PROVE  Serving(c) /\ Ends(c) /\ conn[c].st # "REQUEST_RESOLV"
<1>1. Serving(c) /\ conn[c].st = "AUTH_READ" /\ conn[c] \in ConnOK
  BY ReadingServes, CarriesStart DEF auth_read
<1>2. CASE ReadsOn(c) \/ socksv5_done(c)
  BY <1>1, <1>2, GoesOnEnds, DoneEnds DEF WithoutOrigin
<1>3. ASSUME NEW ok \in BOOLEAN, NEW rest \in Leftovers,
             Continues(c, [conn[c] EXCEPT !.st = "AUTH_WRITE",
                                          !.auth_ok = ok,
                                          !.read_buffer = rest,
                                          !.write_buffer = "part"],
                       selector_set_interest(sel, conn[c].client_fd, {"OP_WRITE"}))
      PROVE  Ends(c)
  <2> DEFINE q == [conn[c] EXCEPT !.st = "AUTH_WRITE", !.auth_ok = ok,
                                  !.read_buffer = rest, !.write_buffer = "part"]
             i == {"OP_WRITE"}
  <2>1. rest \in Buffer
    BY Socks5Assumption DEF Buffer
  <2>2. Continues(c, q, selector_set_interest(sel, conn[c].client_fd, i))
    BY <1>3
  <2>3. q \in ConnOK
    BY <1>1, <2>1 DEF ConnOK, State, Buffer
  <2>4. SameParts(q, conn[c]) /\ q.st = "AUTH_WRITE"
    BY <1>1 DEF ConnOK, SameParts
  <2>5. i \in Interest
    BY DEF Interest
  <2> HIDE DEF q
  <2>6. ClientInterest(q) = i
    BY <2>4 DEF ClientInterest
  <2> HIDE DEF i
  <2> QED
    BY <1>1, <2>2, <2>3, <2>4, <2>5, <2>6, TurnEnds DEF WithoutOrigin
<1>4. Ends(c)
  BY <1>2, <1>3 DEF auth_read
<1> QED
  BY <1>1, <1>4

LEMMA AuthWriteEnds ==
  ASSUME Socks5Inv, NEW c \in Conns, auth_write(c)
  PROVE  Serving(c) /\ Ends(c) /\ conn[c].st # "REQUEST_RESOLV"
<1>1. Serving(c) /\ conn[c].st = "AUTH_WRITE" /\ conn[c] \in ConnOK
  BY WritingServes, CarriesStart DEF auth_write
<1>2. CASE WritesOn(c) \/ socksv5_done(c)
  BY <1>1, <1>2, WritesOnEnds, DoneEnds
<1>3. CASE Continues(c, [conn[c] EXCEPT !.st = "REQUEST_READ",
                                        !.write_buffer = "empty"],
                     selector_set_interest(sel, conn[c].client_fd, {"OP_READ"}))
  <2> DEFINE q == [conn[c] EXCEPT !.st = "REQUEST_READ", !.write_buffer = "empty"]
             i == {"OP_READ"}
  <2>1. Continues(c, q, selector_set_interest(sel, conn[c].client_fd, i))
    BY <1>3
  <2>2. q \in ConnOK
    BY <1>1 DEF ConnOK, State, Buffer
  <2>3. SameParts(q, conn[c]) /\ q.st = "REQUEST_READ"
    BY <1>1 DEF ConnOK, SameParts
  <2>4. i \in Interest
    BY DEF Interest
  <2> HIDE DEF q
  <2>5. ClientInterest(q) = i
    BY <2>3 DEF ClientInterest
  <2> HIDE DEF i
  <2> QED
    BY <1>1, <2>1, <2>2, <2>3, <2>4, <2>5, TurnEnds DEF WithoutOrigin
<1>4. Ends(c)
  BY <1>2, <1>3 DEF auth_write
<1> QED
  BY <1>1, <1>4

(* The relay.                                                              *)
LEMMA RelayGood ==
  ASSUME NEW q \in ConnOK, NEW r, GoodConn(r), q.st = "COPY",
         r.st \in {"REQUEST_WRITE", "COPY"}, q.reply = r.reply, r.reply = "SUCCESS",
         q.client_fd = r.client_fd, q.origin_fd = r.origin_fd,
         q.references = r.references, q.resolving = r.resolving, ~BothDone(q)
  PROVE  GoodConn(q)
BY DEF GoodConn, WithoutOrigin

LEMMA RequestWriteEnds ==
  ASSUME Socks5Inv, NEW c \in Conns, request_write(c)
  PROVE  Serving(c) /\ Ends(c) /\ conn[c].st # "REQUEST_RESOLV"
<1>1. Serving(c) /\ conn[c].st = "REQUEST_WRITE" /\ conn[c] \in ConnOK
      /\ GoodConn(conn[c]) /\ conn \in [Conns -> ConnOK]
  BY WritingServes, CarriesStart DEF request_write, Socks5Inv, ObjectsOK
<1>2. CASE WritesOn(c) \/ socksv5_done(c)
  BY <1>1, <1>2, WritesOnEnds, DoneEnds
<1> DEFINE q == [conn[c] EXCEPT !.st = "COPY", !.write_buffer = "empty"]
<1>3. CASE conn[c].reply = "SUCCESS" /\ Continues(c, q, copy_compute_interests(sel, q))
  <2>1. q \in ConnOK
    BY <1>1 DEF ConnOK, State, Buffer
  <2>2. SameParts(q, conn[c]) /\ q.st = "COPY" /\ q.reply = conn[c].reply
    BY <1>1 DEF ConnOK, SameParts
  <2>3. conn'[c] = q
    BY <1>1, <1>3 DEF Continues, Updates
  <2> HIDE DEF q
  <2>4. ~BothDone(q)
    <3>1. ~conn[c].client_eof
      BY <1>1 DEF GoodConn
    <3> QED
      BY <2>2, <3>1 DEF SameParts, BothDone
  <2>5. GoodConn(q)
    BY <1>1, <1>3, <2>1, <2>2, <2>4, RelayGood DEF SameParts
  <2>6. Stays(c)
    BY <1>1, <1>3, <2>2, <2>5, ContinuesCopy DEF SameParts
  <2>7. UNCHANGED <<wconn, workVars>>
    BY <1>3 DEF Continues
  <2>8. conn'[c].st # "REQUEST_RESOLV"
    BY <2>2, <2>3
  <2> QED
    BY <1>1, <2>6, <2>7, <2>8 DEF Ends
<1>4. Ends(c)
  BY <1>2, <1>3 DEF request_write
<1> QED
  BY <1>1, <1>4

LEMMA CopyUpdateEnds ==
  ASSUME NEW c, Serving(c), conn[c].st = "COPY", NEW r \in ConnOK,
         r.st = "COPY", r.reply = conn[c].reply,
         r.client_fd = conn[c].client_fd, r.origin_fd = conn[c].origin_fd,
         r.references = conn[c].references, r.resolving = conn[c].resolving,
         copy_update(c, r)
  PROVE  Ends(c)
<1>1. GoodConn(conn[c]) /\ c \in Conns /\ conn \in [Conns -> ConnOK]
  BY CarriesStart DEF Serving, Socks5Inv, ObjectsOK
<1> DEFINE a == r.client_eof /\ ~can_read(r.read_buffer)
           b == r.origin_eof /\ ~can_read(r.write_buffer)
           q == [r EXCEPT !.origin_wr_shut = @ \/ a, !.client_wr_shut = @ \/ b]
<1>2. CASE a /\ b
  BY <1>2, DoneEnds DEF copy_update
<1>3. CASE ~(a /\ b)
  <2>1. Continues(c, q, copy_compute_interests(sel, q))
    BY <1>3 DEF copy_update
  <2>2. (r.origin_wr_shut \/ a) \in BOOLEAN /\ (r.client_wr_shut \/ b) \in BOOLEAN
    OBVIOUS
  <2>3. q \in ConnOK
    BY <2>2, ZenonT(40) DEF ConnOK
  <2>4. /\ q.st = r.st /\ q.reply = r.reply
        /\ q.client_fd = r.client_fd /\ q.origin_fd = r.origin_fd
        /\ q.references = r.references /\ q.resolving = r.resolving
        /\ q.client_eof = r.client_eof /\ q.origin_eof = r.origin_eof
        /\ q.read_buffer = r.read_buffer /\ q.write_buffer = r.write_buffer
    BY DEF ConnOK
  <2>5. conn'[c] = q
    BY <1>1, <2>1 DEF Continues, Updates
  <2> HIDE DEF q
  <2>6. ~BothDone(q)
    BY <1>3, <2>4 DEF BothDone
  <2>7. GoodConn(q)
    BY <1>1, <2>3, <2>4, <2>6, RelayGood DEF GoodConn
  <2>8. Stays(c)
    BY <2>1, <2>4, <2>7, ContinuesCopy
  <2> QED
    BY <2>1, <2>4, <2>5, <2>8 DEF Ends, Continues
<1> QED
  BY <1>2, <1>3

\* What copy_pump left in either buffer.
LEMMA PumpedEnds ==
  ASSUME NEW c, Serving(c), conn[c].st = "COPY", NEW left \in Buffer,
         \/ copy_update(c, [conn[c] EXCEPT !.read_buffer = left])
         \/ copy_update(c, [conn[c] EXCEPT !.write_buffer = left])
  PROVE  Ends(c)
<1>1. conn[c] \in ConnOK
  BY CarriesStart
<1>2. CASE copy_update(c, [conn[c] EXCEPT !.read_buffer = left])
  <2> DEFINE r == [conn[c] EXCEPT !.read_buffer = left]
  <2>1. r \in ConnOK
    BY <1>1 DEF ConnOK
  <2>2. /\ r.st = conn[c].st /\ r.reply = conn[c].reply
        /\ r.client_fd = conn[c].client_fd /\ r.origin_fd = conn[c].origin_fd
        /\ r.references = conn[c].references /\ r.resolving = conn[c].resolving
    BY <1>1 DEF ConnOK
  <2> QED
    BY <1>1, <1>2, <2>1, <2>2, CopyUpdateEnds
<1>3. CASE copy_update(c, [conn[c] EXCEPT !.write_buffer = left])
  <2> DEFINE r == [conn[c] EXCEPT !.write_buffer = left]
  <2>1. r \in ConnOK
    BY <1>1 DEF ConnOK
  <2>2. /\ r.st = conn[c].st /\ r.reply = conn[c].reply
        /\ r.client_fd = conn[c].client_fd /\ r.origin_fd = conn[c].origin_fd
        /\ r.references = conn[c].references /\ r.resolving = conn[c].resolving
    BY <1>1 DEF ConnOK
  <2> QED
    BY <1>1, <1>3, <2>1, <2>2, CopyUpdateEnds
<1> QED
  BY <1>2, <1>3

LEMMA CopyReadEnds ==
  ASSUME Socks5Inv, NEW c \in Conns, copy_read(c)
  PROVE  Serving(c) /\ Ends(c) /\ conn[c].st # "REQUEST_RESOLV"
<1>1. Serving(c) /\ conn[c].st = "COPY" /\ conn[c] \in ConnOK
  BY ReadingServes, CarriesStart DEF copy_read
<1>2. \A b \in Fills : copy_pump(b) \subseteq Buffer
  BY Socks5Assumption DEF copy_pump, Buffer
<1>3. CASE socksv5_done(c)
  BY <1>1, <1>3, DoneEnds
<1>4. CASE copy_update(c, conn[c])
  BY <1>1, <1>4, CopyUpdateEnds
<1>5. CASE copy_update(c, [conn[c] EXCEPT !.client_eof = TRUE])
  <2> DEFINE r == [conn[c] EXCEPT !.client_eof = TRUE]
  <2>1. r \in ConnOK
    BY <1>1 DEF ConnOK
  <2>2. /\ r.st = conn[c].st /\ r.reply = conn[c].reply
        /\ r.client_fd = conn[c].client_fd /\ r.origin_fd = conn[c].origin_fd
        /\ r.references = conn[c].references /\ r.resolving = conn[c].resolving
    BY <1>1 DEF ConnOK
  <2> QED
    BY <1>1, <1>5, <2>1, <2>2, CopyUpdateEnds
<1>6. CASE copy_update(c, [conn[c] EXCEPT !.origin_eof = TRUE])
  <2> DEFINE r == [conn[c] EXCEPT !.origin_eof = TRUE]
  <2>1. r \in ConnOK
    BY <1>1 DEF ConnOK
  <2>2. /\ r.st = conn[c].st /\ r.reply = conn[c].reply
        /\ r.client_fd = conn[c].client_fd /\ r.origin_fd = conn[c].origin_fd
        /\ r.references = conn[c].references /\ r.resolving = conn[c].resolving
    BY <1>1 DEF ConnOK
  <2> QED
    BY <1>1, <1>6, <2>1, <2>2, CopyUpdateEnds
<1>7. Ends(c)
  BY <1>1, <1>2, <1>3, <1>4, <1>5, <1>6, PumpedEnds DEF copy_read
<1> QED
  BY <1>1, <1>7

LEMMA CopyWriteEnds ==
  ASSUME Socks5Inv, NEW c \in Conns, copy_write(c)
  PROVE  Serving(c) /\ Ends(c) /\ conn[c].st # "REQUEST_RESOLV"
<1>1. Serving(c) /\ conn[c].st = "COPY" /\ conn[c] \in ConnOK
  BY WritingServes, CarriesStart DEF copy_write
<1>2. copy_pump(conn[c].read_buffer) \subseteq Buffer
      /\ copy_pump(conn[c].write_buffer) \subseteq Buffer
  BY <1>1 DEF copy_pump, Buffer, ConnOK
<1>3. Ends(c)
  BY <1>1, <1>2, PumpedEnds, DoneEnds DEF copy_write
<1> QED
  BY <1>1, <1>3

(* The request.                                                            *)
LEMMA RefusesEnds ==
  ASSUME NEW c, NEW r, NEW s, NEW reply, Serving(c), Unconnected(c, r, s, open),
         reply \in Reply, reply # "SUCCESS", Refuses(c, r, s, reply)
  PROVE  Ends(c) /\ Stays(c)
<1> DEFINE p == [r EXCEPT !.reply = reply]
<1>1. r \in ConnOK /\ c \in Conns /\ conn \in [Conns -> ConnOK]
  BY DEF Unconnected, Serving, Socks5Inv, ObjectsOK
<1>2. p \in ConnOK
  BY <1>1 DEF ConnOK
<1>3. /\ p.client_fd = r.client_fd /\ p.origin_fd = r.origin_fd
      /\ p.reply = reply /\ p.references = r.references
      /\ p.resolving = r.resolving
      /\ p.client_eof = r.client_eof /\ p.origin_eof = r.origin_eof
  BY <1>1 DEF ConnOK
<1>4. AnswersRequest(c, p, s) /\ UNCHANGED <<open, link>>
  BY DEF Refuses
<1> HIDE DEF p
<1>5. GoodConn(WithRequestWrite(p)) /\ WithRequestWrite(p).st = "REQUEST_WRITE"
  <2>1. /\ p.client_fd # NoFd /\ p.client_fd # p.origin_fd
        /\ p.references = IF p.origin_fd = NoFd THEN 1 ELSE 2
        /\ p.reply = "SUCCESS" <=> p.origin_fd # NoFd
        /\ ~p.resolving /\ ~p.client_eof /\ ~p.origin_eof
    BY <1>3 DEF Unconnected
  <2> QED
    BY <1>2, <2>1, AnswerGood
<1>6. Fds(p) = Fds(r)
  BY <1>3 DEF Fds
<1>7. Carries(s, c, p) /\ open' = (open \ Fds(conn[c])) \cup Fds(p)
  BY <1>4, <1>6 DEF Unconnected, Carries
<1>8. link' \in [Conns -> {"none", "connecting", "up", "failed"}]
  BY <1>4, FdsAreOpen
<1>9. conn'[c] = WithRequestWrite(p)
  BY <1>1, <1>4 DEF AnswersRequest, Updates
<1>10. p.client_fd = conn[c].client_fd /\ p.origin_fd = NoFd
  BY <1>3 DEF Unconnected
<1>11. Stays(c)
  BY <1>2, <1>4, <1>5, <1>7, <1>8, <1>10, AnswersStays
<1>12. UNCHANGED <<wconn, workVars>>
  BY <1>4 DEF AnswersRequest
<1> QED
  BY <1>5, <1>9, <1>11, <1>12 DEF Ends

LEMMA StartEnds ==
  ASSUME NEW c, NEW r, NEW s, NEW o, Serving(c), Unconnected(c, r, s, o),
         start_connection(c, r, s, o)
  PROVE  Ends(c) /\ Stays(c)
BY StartStays DEF Ends

\* How many candidates are left to try does not matter.
LEMMA UnconnectedLeft ==
  ASSUME NEW c, NEW r, NEW s, NEW o, Unconnected(c, r, s, o),
         NEW n \in 0 .. MAX_ADDRS
  PROVE  Unconnected(c, [r EXCEPT !.left = n], s, o)
<1> DEFINE p == [r EXCEPT !.left = n]
<1>1. r \in ConnOK
  BY DEF Unconnected
<1>2. p \in ConnOK
  BY <1>1 DEF ConnOK
<1>3. SameParts(p, r)
  BY <1>1 DEF ConnOK, SameParts
<1> HIDE DEF p
<1>4. Fds(p) = Fds(r)
  BY <1>3 DEF Fds, SameParts
<1>5. Unconnected(c, p, s, o)
  BY <1>2, <1>3, <1>4 DEF Unconnected, SameParts, Carries
<1> QED
  BY <1>5 DEF p

LEMMA ConnectingWriteEnds ==
  ASSUME Socks5Inv, NEW c \in Conns, connecting_write(c)
  PROVE  Serving(c) /\ Ends(c) /\ conn[c].st # "REQUEST_RESOLV"
<1> DEFINE r == conn[c]
<1>1. Serving(c) /\ r.st = "REQUEST_CONNECTING" /\ r \in ConnOK
      /\ GoodConn(r) /\ conn \in [Conns -> ConnOK]
  BY WritingServes, CarriesStart DEF connecting_write, Socks5Inv, ObjectsOK
<1>2. r.origin_fd # NoFd /\ r.references = 2 /\ r.left >= 1 /\ r.client_fd # NoFd
      /\ r.client_fd # r.origin_fd /\ ~r.resolving /\ ~r.client_eof /\ ~r.origin_eof
  BY <1>1 DEF GoodConn
<1>3. CASE AnswersRequest(c, [r EXCEPT !.reply = "SUCCESS"], sel)
           /\ UNCHANGED <<open, link>>
  <2> DEFINE p == [r EXCEPT !.reply = "SUCCESS"]
  <2>1. p \in ConnOK
    BY <1>1 DEF ConnOK, Reply
  <2>2. SameParts(p, r) /\ p.reply = "SUCCESS"
    BY <1>1 DEF ConnOK, SameParts
  <2>3. AnswersRequest(c, p, sel)
    BY <1>3
  <2> HIDE DEF p
  <2>4. GoodConn(WithRequestWrite(p)) /\ WithRequestWrite(p).st = "REQUEST_WRITE"
    <3>1. /\ p.client_fd # NoFd /\ p.client_fd # p.origin_fd
          /\ p.references = IF p.origin_fd = NoFd THEN 1 ELSE 2
          /\ p.reply = "SUCCESS" <=> p.origin_fd # NoFd
          /\ ~p.resolving /\ ~p.client_eof /\ ~p.origin_eof
      BY <1>2, <2>2 DEF SameParts
    <3> QED
      BY <2>1, <3>1, AnswerGood
  <2>5. Fds(p) = Fds(r)
    BY <2>2 DEF Fds, SameParts
  <2>6. Carries(sel, c, p) /\ open' = (open \ Fds(conn[c])) \cup Fds(p)
        /\ link' \in [Conns -> {"none", "connecting", "up", "failed"}]
    BY <1>1, <1>3, <2>5, CarriesStart, FdsAreOpen DEF Carries
  <2>7. conn'[c] = WithRequestWrite(p)
    BY <1>1, <2>3 DEF AnswersRequest, Updates
  <2>8. Stays(c)
    BY <1>1, <2>1, <2>2, <2>3, <2>4, <2>6, AnswersStays DEF SameParts
  <2>9. UNCHANGED <<wconn, workVars>>
    BY <2>3 DEF AnswersRequest
  <2> QED
    BY <1>1, <2>4, <2>7, <2>8, <2>9 DEF Ends
<1>4. ASSUME NEW e \in Errnos,
             start_connection(c, [r EXCEPT !.reply = errno_to_reply(e),
                                           !.origin_fd = NoFd,
                                           !.references = @ - 1,
                                           !.left = @ - 1],
                              selector_unregister_fd(sel, r.origin_fd),
                              open \ {r.origin_fd})
      PROVE  Ends(c)
  <2> DEFINE er == errno_to_reply(e)
             p == [r EXCEPT !.reply = er, !.origin_fd = NoFd,
                            !.references = @ - 1, !.left = @ - 1]
             s == selector_unregister_fd(sel, r.origin_fd)
             o == open \ {r.origin_fd}
  <2>1. er \in Reply
    BY DEF Reply
  <2>2. start_connection(c, p, s, o)
    BY <1>4
  <2> HIDE DEF er
  <2>3. r.references - 1 \in 0 .. 2 /\ r.left - 1 \in 0 .. MAX_ADDRS
    BY <1>1, <1>2, Socks5Assumption DEF ConnOK
  <2>4. p \in ConnOK
    BY <1>1, <2>1, <2>3 DEF ConnOK
  <2>5. /\ p.client_fd = r.client_fd /\ p.origin_fd = NoFd
        /\ p.references = r.references - 1 /\ p.resolving = r.resolving
        /\ p.client_eof = r.client_eof /\ p.origin_eof = r.origin_eof
    BY <1>1 DEF ConnOK
  <2> HIDE DEF p
  <2>6. Fds(p) = {r.client_fd} /\ Fds(r) = {r.client_fd, r.origin_fd}
        /\ r.client_fd \in FD /\ r.origin_fd \in FD
    BY <1>1, <1>2, <2>5, FdsAreDescriptors DEF Fds
  <2>7. Carries(sel, c, r) /\ sel.item[r.client_fd].interest = {}
    <3>1. ClientInterest(r) = {}
      BY <1>1 DEF ClientInterest
    <3> QED
      BY <1>1, <2>6, <3>1, CarriesStart
  <2>8. ITEM_USED(sel, r.origin_fd)
    BY <2>6, <2>7, SelectorAssumption, Socks5Assumption DEF Carries, ITEM_USED
  <2>9. GoodTable(s) /\ \A g \in FD : s.item[g] =
          IF g = r.origin_fd THEN FD_UNUSED ELSE sel.item[g]
    BY <2>7, <2>8, UnregisterItem DEF Carries
  <2> HIDE DEF s
  <2>10. Carries(s, c, p)
    BY <1>2, <2>6, <2>7, <2>9 DEF Carries
  <2>11. s.item[p.client_fd].interest = {}
    BY <1>2, <2>5, <2>6, <2>7, <2>9
  <2>12. o = (open \ Fds(conn[c])) \cup Fds(p)
    BY <1>1, <1>2, <2>6, FdsAreOpen
  <2>13. Unconnected(c, p, s, o)
    BY <1>2, <2>4, <2>5, <2>10, <2>11, <2>12 DEF Unconnected
  <2> QED
    BY <1>1, <2>2, <2>13, StartEnds
<1>5. Ends(c)
  BY <1>3, <1>4 DEF connecting_write
<1> QED
  BY <1>1, <1>5

\* A handler that hands the name to a resolver thread ends like this.
StartsResolving(c) ==
  /\ Stays(c) /\ conn'[c].st = "REQUEST_RESOLV"
  /\ \E w \in Workers :
       /\ wpc[w] = "idle"
       /\ wpc' = [wpc EXCEPT ![w] = "work"]
       /\ wfd' = [wfd EXCEPT ![w] = conn[c].client_fd]
       /\ wconn' = [wconn EXCEPT ![w] = c]

LEMMA ResolveStarts ==
  ASSUME NEW c, NEW r, NEW s, Serving(c), Unconnected(c, r, s, open),
         dns_resolve_async(c, r, s)
  PROVE  StartsResolving(c)
<1> DEFINE q == [r EXCEPT !.st = "REQUEST_RESOLV", !.resolving = TRUE, !.dns = "none"]
<1>1. r \in ConnOK /\ c \in Conns /\ conn \in [Conns -> ConnOK]
  BY DEF Unconnected, Serving, Socks5Inv, ObjectsOK
<1>2. q \in ConnOK
  BY <1>1 DEF ConnOK, State
<1>3. /\ q.st = "REQUEST_RESOLV" /\ q.resolving = TRUE
      /\ q.client_fd = r.client_fd /\ q.origin_fd = r.origin_fd
      /\ q.references = r.references
      /\ q.client_eof = r.client_eof /\ q.origin_eof = r.origin_eof
  BY <1>1 DEF ConnOK
<1>4. Updates(c, q, s) /\ UNCHANGED objVars /\ UNCHANGED <<open, link>>
  BY DEF dns_resolve_async
<1> HIDE DEF q
<1>5. GoodConn(q)
  BY <1>2, <1>3 DEF GoodConn, WithoutOrigin, BothDone, Unconnected
<1>6. Fds(q) = Fds(r)
  BY <1>3 DEF Fds
<1>7. Carries(s, c, q) /\ open' = (open \ Fds(conn[c])) \cup Fds(q)
      /\ link' \in [Conns -> {"none", "connecting", "up", "failed"}]
  BY <1>4, <1>6, FdsAreOpen DEF Unconnected, Carries
<1>8. ClientInterest(q) = {}
  BY <1>3 DEF ClientInterest
<1>9. q.client_fd = conn[c].client_fd /\ q.origin_fd = NoFd
      /\ s.item[q.client_fd].interest = {}
  BY <1>3 DEF Unconnected
<1>10. Stays(c)
  BY <1>4, <1>5, <1>7, <1>8, <1>9, CarriesStays
<1>11. conn'[c] = q
  BY <1>1, <1>4 DEF Updates
<1> QED
  BY <1>3, <1>10, <1>11 DEF StartsResolving, dns_resolve_async, Unconnected

LEMMA RequestReadEnds ==
  ASSUME Socks5Inv, NEW c \in Conns, request_read(c)
  PROVE  Serving(c) /\ (Ends(c) \/ StartsResolving(c)) /\ conn[c].st # "REQUEST_RESOLV"
<1>1. Serving(c) /\ conn[c].st = "REQUEST_READ" /\ conn[c] \in ConnOK
      /\ GoodConn(conn[c])
  BY ReadingServes, CarriesStart DEF request_read
<1>2. CASE ReadsOn(c) \/ socksv5_done(c)
  BY <1>1, <1>2, GoesOnEnds, DoneEnds DEF WithoutOrigin
<1>3. ASSUME NEW rest \in Leftovers,
             process_request(c, [conn[c] EXCEPT !.read_buffer = rest], ClientMuted(c))
      PROVE  Ends(c) \/ StartsResolving(c)
  <2> DEFINE r == [conn[c] EXCEPT !.read_buffer = rest]
             mute == {}
             s == selector_set_interest(sel, conn[c].client_fd, mute)
             p == [r EXCEPT !.left = 1]
  <2>1. rest \in Buffer
    BY Socks5Assumption DEF Buffer
  <2>2. r \in ConnOK
    BY <1>1, <2>1 DEF ConnOK
  <2>3. SameParts(r, conn[c]) /\ r.st = "REQUEST_READ"
    BY <1>1 DEF ConnOK, SameParts
  <2>4. process_request(c, r, s)
    BY <1>3 DEF ClientMuted
  <2>5. mute \in Interest
    BY DEF Interest
  <2> HIDE DEF r, mute
  <2>6. GoodConn(r) /\ r.origin_fd = NoFd
    BY <1>1, <2>2, <2>3, HandshakeGood DEF WithoutOrigin
  <2>7. Fds(r) = Fds(conn[c]) /\ r.client_fd = conn[c].client_fd
    BY <2>3 DEF Fds, SameParts
  <2>8. conn[c].client_fd \in Fds(r) /\ conn[c].client_fd \in FD
    BY <2>6, <2>7, FdsAreDescriptors
  <2>9. Carries(sel, c, r)
    BY <1>1, <2>7, CarriesStart DEF Carries
  <2>10. Carries(s, c, r) /\ s.item[r.client_fd].interest = mute
    <3> DEFINE cf == conn[c].client_fd
    <3>1. cf \in Fds(r) /\ cf \in FD /\ cf = r.client_fd
      BY <2>7, <2>8
    <3> HIDE DEF cf
    <3>2. LET u == selector_set_interest(sel, cf, mute)
          IN  Carries(u, c, r) /\ u.item[cf].interest = mute
      BY <2>5, <2>9, <3>1, CarriesInterest
    <3> QED
      BY <3>1, <3>2 DEF cf
  <2> HIDE DEF s
  <2>11. Unconnected(c, r, s, open)
    <3>1. r.references = 1 /\ ~r.resolving /\ ~r.client_eof /\ ~r.origin_eof
          /\ r.client_fd # NoFd
      BY <2>3, <2>6 DEF GoodConn
    <3>2. open = (open \ Fds(conn[c])) \cup Fds(r)
      BY <1>1, <2>7, FdsAreOpen
    <3> QED
      BY <2>2, <2>6, <2>7, <2>10, <3>1, <3>2 DEF Unconnected, mute
  <2>12. Unconnected(c, p, s, open)
    <3>1. 1 \in 0 .. MAX_ADDRS
      BY Socks5Assumption
    <3> QED
      BY <2>11, <3>1, UnconnectedLeft
  <2> HIDE DEF p
  <2>13. CASE \E reply \in {"GENERAL_FAILURE", "COMMAND_NOT_SUPPORTED"} :
                Refuses(c, r, s, reply)
    BY <1>1, <2>11, <2>13, RefusesEnds DEF Reply
  <2>14. CASE start_connection(c, p, s, open)
    BY <1>1, <2>12, <2>14, StartEnds
  <2>15. CASE dns_resolve_async(c, r, s)
    BY <1>1, <2>11, <2>15, ResolveStarts
  <2> QED
    BY <2>4, <2>13, <2>14, <2>15 DEF process_request, p
<1>4. Ends(c) \/ StartsResolving(c)
  BY <1>2, <1>3 DEF request_read
<1> QED
  BY <1>1, <1>4

LEMMA ResolvBlockEnds ==
  ASSUME Socks5Inv, NEW c \in Conns, resolv_block(c)
  PROVE  /\ Serving(c) /\ Ends(c) /\ Stays(c)
         /\ conn[c].st = "REQUEST_RESOLV" /\ pc = "jobs"
         /\ walk # <<>> /\ conn[c].client_fd = Head(walk)
<1>1. Serving(c) /\ conn[c].st = "REQUEST_RESOLV" /\ conn[c] \in ConnOK
      /\ GoodConn(conn[c]) /\ pc = "jobs"
      /\ walk # <<>> /\ conn[c].client_fd = Head(walk)
  BY ResolvedServes, CarriesStart DEF resolv_block
<1> DEFINE r == [conn[c] EXCEPT !.resolving = FALSE, !.dns = "none"]
<1>2. r \in ConnOK
  BY <1>1 DEF ConnOK
<1>3. /\ r.client_fd = conn[c].client_fd /\ r.origin_fd = conn[c].origin_fd
      /\ r.references = conn[c].references /\ r.resolving = FALSE
      /\ r.client_eof = conn[c].client_eof /\ r.origin_eof = conn[c].origin_eof
  BY <1>1 DEF ConnOK
<1>4. \/ Refuses(c, r, sel, "HOST_UNREACHABLE")
      \/ \E naddrs \in 0 .. MAX_ADDRS :
           start_connection(c, [r EXCEPT !.left = naddrs], sel, open)
  BY DEF resolv_block, Kept
<1> HIDE DEF r
<1>5. Fds(r) = Fds(conn[c]) /\ conn[c].origin_fd = NoFd
  BY <1>1, <1>3 DEF Fds, GoodConn, WithoutOrigin
<1>6. Carries(sel, c, r)
  BY <1>1, <1>5, CarriesStart DEF Carries
<1>7. sel.item[r.client_fd].interest = {}
  <2>1. ClientInterest(conn[c]) = {}
    BY <1>1 DEF ClientInterest
  <2> QED
    BY <1>1, <1>3, <2>1, CarriesStart, FdsAreDescriptors
<1>8. Unconnected(c, r, sel, open)
  <2>1. r.references = 1 /\ ~r.resolving /\ ~r.client_eof /\ ~r.origin_eof
        /\ r.client_fd # NoFd
    BY <1>1, <1>3, <1>5 DEF GoodConn
  <2>2. open = (open \ Fds(conn[c])) \cup Fds(r)
    BY <1>1, <1>5, FdsAreOpen
  <2> QED
    BY <1>2, <1>3, <1>5, <1>6, <1>7, <2>1, <2>2 DEF Unconnected
<1>9. ASSUME Refuses(c, r, sel, "HOST_UNREACHABLE")
      PROVE  Ends(c) /\ Stays(c)
  BY <1>1, <1>8, <1>9, RefusesEnds DEF Reply
<1>10. ASSUME NEW naddrs \in 0 .. MAX_ADDRS,
              start_connection(c, [r EXCEPT !.left = naddrs], sel, open)
       PROVE  Ends(c) /\ Stays(c)
  <2> DEFINE p == [r EXCEPT !.left = naddrs]
  <2>1. Unconnected(c, p, sel, open)
    BY <1>8, UnconnectedLeft
  <2> QED
    BY <1>1, <1>10, <2>1, StartEnds
<1>11. Ends(c) /\ Stays(c)
  BY <1>4, <1>9, <1>10
<1> QED
  BY <1>1, <1>11

-----------------------------------------------------------------------------
(* The resolutions under way are not disturbed.                            *)

\* Only connection c changes.
OthersKept(c) ==
  \A d \in Conns : d # c => conn'[d] = conn[d] /\ mem'[d] = mem[d]

LEMMA EndsKeepsOthers ==
  ASSUME NEW c, Serving(c), Ends(c) \/ StartsResolving(c)
  PROVE  /\ OthersKept(c)
         /\ Stays(c) => mem'[c] = "live" /\ conn'[c].client_fd = conn[c].client_fd
         /\ Ends(c) => mem'[c] # "live" \/ conn'[c].st # "REQUEST_RESOLV"
<1>1. c \in Conns /\ conn \in [Conns -> ConnOK] /\ mem[c] = "live"
      /\ mem \in [Conns -> {"free", "live", "pool", "leaked"}]
  BY DEF Serving, Socks5Inv, ObjectsOK
<1>2. CASE Stays(c)
  BY <1>1, <1>2 DEF Stays, Ends, OthersKept, Gone, DestroyedAs
<1>3. CASE Gone(c)
  BY <1>1, <1>3 DEF Gone, Ends, OthersKept, DestroyedAs, Stays
<1> QED
  BY <1>2, <1>3 DEF Ends, StartsResolving

(* The step of a connection that is not and will not be resolving.         *)
LEMMA QuietStep ==
  ASSUME Socks5Inv, Running, NEW c, OthersKept(c),
         mem[c] # "live" \/ conn[c].st # "REQUEST_RESOLV",
         mem'[c] # "live" \/ conn'[c].st # "REQUEST_RESOLV",
         UNCHANGED <<wconn, workVars, jobs, walk, pc>>
  PROVE  ResolversOK'
<1>1. ResolversOK /\ Unserved' = Unserved
  BY DEF Socks5Inv, Unserved
<1>2. \A w : Asking(w)' <=> Asking(w)
  BY DEF Asking, workVars
<1>3. wconn' = wconn /\ wpc' = wpc /\ wfd' = wfd
  BY DEF workVars
<1>4. ThreadsServe'
  <2> SUFFICES ASSUME NEW w \in Workers, Asking(w)
               PROVE  /\ wconn[w] \in Conns /\ mem'[wconn[w]] = "live"
                      /\ conn'[wconn[w]].st = "REQUEST_RESOLV"
                      /\ conn'[wconn[w]].client_fd = wfd[w]
                      /\ wpc[w] = "notify" => conn'[wconn[w]].dns # "none"
                      /\ \A v \in Workers : Asking(v) /\ wconn[v] = wconn[w] => v = w
                      /\ \A n \in DOMAIN Unserved : Unserved[n] # wfd[w]
    BY <1>1, <1>2, <1>3 DEF ThreadsServe
  <2> QED
    BY <1>1 DEF ResolversOK, ThreadsServe, OthersKept
<1>5. JobsServe'
  BY <1>1 DEF ResolversOK, JobsServe, OthersKept
<1>6. ResolutionsGoOn'
  BY <1>1, <1>2, <1>3 DEF ResolversOK, ResolutionsGoOn, OthersKept
<1> QED
  BY <1>4, <1>5, <1>6 DEF ResolversOK

(* A resolution starts.                                                    *)
LEMMA ResolvingStep ==
  ASSUME NEW c, Serving(c), StartsResolving(c), conn[c].st # "REQUEST_RESOLV",
         UNCHANGED <<jobs, walk, pc>>
  PROVE  ResolversOK'
<1>1. ResolversOK /\ Unserved' = Unserved /\ c \in Conns
      /\ wpc \in [Workers -> {"idle", "work", "notify", "kill"}]
      /\ wfd \in [Workers -> FD] /\ wconn \in [Workers -> Conns \cup {NoData}]
  BY DEF Serving, Socks5Inv, Unserved, NotifyOK
<1>2. OthersKept(c) /\ mem'[c] = "live" /\ conn'[c].client_fd = conn[c].client_fd
      /\ conn'[c].st = "REQUEST_RESOLV"
  BY EndsKeepsOthers DEF StartsResolving
<1>3. PICK w \in Workers :
        /\ wpc[w] = "idle"
        /\ wpc' = [wpc EXCEPT ![w] = "work"]
        /\ wfd' = [wfd EXCEPT ![w] = conn[c].client_fd]
        /\ wconn' = [wconn EXCEPT ![w] = c]
  BY DEF StartsResolving
<1>4. /\ wpc'[w] = "work" /\ wfd'[w] = conn[c].client_fd /\ wconn'[w] = c
      /\ \A v \in Workers : v # w => wpc'[v] = wpc[v] /\ wfd'[v] = wfd[v]
                                     /\ wconn'[v] = wconn[v]
  BY <1>1, <1>3
<1>5. \A n \in DOMAIN Unserved : Unserved[n] # conn[c].client_fd
  <2> SUFFICES ASSUME NEW n \in DOMAIN Unserved, Unserved[n] = conn[c].client_fd
               PROVE  FALSE
    OBVIOUS
  <2>1. PICK d \in Conns : mem[d] = "live" /\ conn[d].st = "REQUEST_RESOLV"
                           /\ conn[d].client_fd = conn[c].client_fd
    BY <1>1 DEF ResolversOK, JobsServe
  <2>2. TableOK /\ mem[c] = "live" /\ GoodConn(conn[c]) /\ GoodConn(conn[d])
    BY <2>1 DEF Serving, Socks5Inv, TableOK, ConnsMatch
  <2>3. conn[c].client_fd \in Fds(conn[d]) \cap Fds(conn[c])
    BY <2>1, <2>2, FdsAreDescriptors
  <2>4. d # c
    BY <2>1
  <2>5. Fds(conn[d]) \cap Fds(conn[c]) = {}
    BY <1>1, <2>1, <2>2, <2>4, FdsAreDisjoint
  <2> QED
    BY <2>3, <2>5
<1>6. \A v \in Workers : Asking(v) => v # w /\ wconn[v] # c
  BY <1>1, <1>3 DEF Asking, ResolversOK, ThreadsServe
<1>7. \A v \in Workers : Asking(v)' <=> v = w \/ Asking(v)
  BY <1>4 DEF Asking
<1>8. ThreadsServe'
  <2> SUFFICES ASSUME NEW v \in Workers, Asking(v)'
               PROVE  /\ wconn'[v] \in Conns /\ mem'[wconn'[v]] = "live"
                      /\ conn'[wconn'[v]].st = "REQUEST_RESOLV"
                      /\ conn'[wconn'[v]].client_fd = wfd'[v]
                      /\ wpc'[v] = "notify" => conn'[wconn'[v]].dns # "none"
                      /\ \A u \in Workers :
                           Asking(u)' /\ wconn'[u] = wconn'[v] => u = v
                      /\ \A n \in DOMAIN Unserved : Unserved[n] # wfd'[v]
    BY <1>1 DEF ThreadsServe, Asking
  <2>1. CASE v = w
    <3>1. \A u \in Workers : Asking(u)' /\ wconn'[u] = c => u = w
      BY <1>4, <1>6, <1>7
    <3> QED
      BY <1>1, <1>2, <1>4, <1>5, <2>1, <3>1
  <2>2. CASE v # w
    <3>1. Asking(v) /\ wconn'[v] = wconn[v] /\ wfd'[v] = wfd[v] /\ wpc'[v] = wpc[v]
          /\ wconn[v] # c
      BY <1>4, <1>6, <1>7, <2>2
    <3>2. \A u \in Workers : Asking(u)' /\ wconn'[u] = wconn[v] => u = v
      BY <1>1, <1>4, <1>6, <1>7, <3>1 DEF ResolversOK, ThreadsServe
    <3> QED
      BY <1>1, <1>2, <3>1, <3>2 DEF ResolversOK, ThreadsServe, OthersKept
  <2> QED
    BY <2>1, <2>2
<1>9. JobsServe'
  BY <1>1, <1>2 DEF ResolversOK, JobsServe, OthersKept
<1>10. ResolutionsGoOn'
  <2> SUFFICES ASSUME ~MallocMayFail, NEW d \in Conns, mem'[d] = "live",
                      conn'[d].st = "REQUEST_RESOLV"
               PROVE  \/ \E v \in Workers : Asking(v)' /\ wconn'[v] = d
                      \/ \E n \in DOMAIN Unserved : Unserved[n] = conn'[d].client_fd
    BY <1>1 DEF ResolutionsGoOn
  <2>1. CASE d = c
    BY <1>4, <1>7, <2>1
  <2>2. CASE d # c
    <3>1. conn'[d] = conn[d] /\ mem[d] = "live"
      BY <1>2, <2>2 DEF OthersKept
    <3> QED
      BY <1>1, <1>4, <1>6, <1>7, <3>1 DEF ResolversOK, ResolutionsGoOn
  <2> QED
    BY <2>1, <2>2
<1> QED
  BY <1>8, <1>9, <1>10 DEF ResolversOK

(* A job is served: it leaves the list, and its connection REQUEST_RESOLV. *)
LEMMA ServedStep ==
  ASSUME NEW c, Serving(c), OthersKept(c), pc = "jobs",
         walk # <<>>, conn[c].client_fd = Head(walk),
         conn'[c].st # "REQUEST_RESOLV",
         UNCHANGED <<wconn, workVars, jobs, pc>>, walk' = Tail(walk)
  PROVE  ResolversOK'
<1>1. ResolversOK /\ Unserved = walk /\ Unserved' = Tail(walk) /\ walk \in Seq(FD)
      /\ TableOK /\ c \in Conns /\ mem[c] = "live"
  BY DEF Serving, Socks5Inv, Unserved, NotifyOK
<1>2. \A w : Asking(w)' <=> Asking(w)
  BY DEF Asking, workVars
<1>3. wconn' = wconn /\ wpc' = wpc /\ wfd' = wfd
  BY DEF workVars
<1>4. /\ 1 \in DOMAIN walk /\ Head(walk) = walk[1]
      /\ \A n \in DOMAIN Tail(walk) : n + 1 \in DOMAIN walk /\ n + 1 # 1
                                      /\ Tail(walk)[n] = walk[n + 1]
      /\ \A n \in DOMAIN walk : n = 1 \/ (n - 1 \in DOMAIN Tail(walk)
                                          /\ Tail(walk)[n - 1] = walk[n])
  BY <1>1
<1>5. \A n \in DOMAIN Tail(walk) : Tail(walk)[n] # conn[c].client_fd
  BY <1>1, <1>4 DEF ResolversOK, JobsServe
\* No other connection has the descriptor of c.
<1>6. \A d \in Conns : mem[d] = "live" /\ conn[d].client_fd # conn[c].client_fd => d # c
  OBVIOUS
<1>7. \A w \in Workers : Asking(w) => wconn[w] # c
  BY <1>1, <1>4 DEF ResolversOK, ThreadsServe
<1>8. ThreadsServe'
  <2> SUFFICES ASSUME NEW w \in Workers, Asking(w)
               PROVE  /\ wconn[w] \in Conns /\ mem'[wconn[w]] = "live"
                      /\ conn'[wconn[w]].st = "REQUEST_RESOLV"
                      /\ conn'[wconn[w]].client_fd = wfd[w]
                      /\ wpc[w] = "notify" => conn'[wconn[w]].dns # "none"
                      /\ \A v \in Workers : Asking(v) /\ wconn[v] = wconn[w] => v = w
                      /\ \A n \in DOMAIN Tail(walk) : Tail(walk)[n] # wfd[w]
    BY <1>1, <1>2, <1>3 DEF ThreadsServe
  <2>1. \A n \in DOMAIN Tail(walk) : Tail(walk)[n] # wfd[w]
    BY <1>1, <1>4 DEF ResolversOK, ThreadsServe
  <2> QED
    BY <1>1, <1>7, <2>1 DEF ResolversOK, ThreadsServe, OthersKept
<1>9. JobsServe'
  <2>1. ASSUME NEW n \in DOMAIN Tail(walk)
        PROVE  \E d \in Conns : /\ mem'[d] = "live" /\ conn'[d].st = "REQUEST_RESOLV"
                                /\ conn'[d].client_fd = Tail(walk)[n]
                                /\ conn'[d].dns # "none"
    <3>1. PICK d \in Conns : /\ mem[d] = "live" /\ conn[d].st = "REQUEST_RESOLV"
                             /\ conn[d].client_fd = Tail(walk)[n]
                             /\ conn[d].dns # "none"
      BY <1>1, <1>4 DEF ResolversOK, JobsServe
    <3>2. d # c
      BY <1>5, <3>1
    <3> QED
      BY <3>1, <3>2 DEF OthersKept
  <2>2. ASSUME NEW m \in DOMAIN Tail(walk), NEW n \in DOMAIN Tail(walk),
               Tail(walk)[m] = Tail(walk)[n]
        PROVE  m = n
    <3>1. m + 1 \in DOMAIN walk /\ n + 1 \in DOMAIN walk /\ walk[m + 1] = walk[n + 1]
      BY <1>4, <2>2
    <3>2. m + 1 = n + 1
      BY <1>1, <3>1 DEF ResolversOK, JobsServe
    <3>3. m \in Int /\ n \in Int
      BY <1>1
    <3> QED
      BY <3>2, <3>3
  <2> QED
    BY <1>1, <2>1, <2>2 DEF JobsServe
<1>10. ResolutionsGoOn'
  <2> SUFFICES ASSUME ~MallocMayFail, NEW d \in Conns, mem'[d] = "live",
                      conn'[d].st = "REQUEST_RESOLV"
               PROVE  \/ \E w \in Workers : Asking(w) /\ wconn[w] = d
                      \/ \E n \in DOMAIN Tail(walk) : Tail(walk)[n] = conn'[d].client_fd
    BY <1>1, <1>2, <1>3 DEF ResolutionsGoOn
  <2>1. d # c /\ conn'[d] = conn[d] /\ mem[d] = "live"
    BY DEF OthersKept
  <2>2. \A n \in DOMAIN walk : walk[n] = conn[d].client_fd => n # 1
    <3>1. Fds(conn[d]) \cap Fds(conn[c]) = {}
      BY <1>1, <2>1, FdsAreDisjoint
    <3>2. conn[d].client_fd \in Fds(conn[d]) /\ conn[c].client_fd \in Fds(conn[c])
      BY <1>1, <2>1, FdsAreDescriptors DEF TableOK, ConnsMatch
    <3> QED
      BY <1>4, <3>1, <3>2
  <2>3. \/ \E w \in Workers : Asking(w) /\ wconn[w] = d
        \/ \E n \in DOMAIN walk : walk[n] = conn[d].client_fd
    BY <1>1, <2>1 DEF ResolversOK, ResolutionsGoOn
  <2>4. ASSUME NEW n \in DOMAIN walk, walk[n] = conn[d].client_fd
        PROVE  \E m \in DOMAIN Tail(walk) : Tail(walk)[m] = conn[d].client_fd
    <3>1. n - 1 \in DOMAIN Tail(walk) /\ Tail(walk)[n - 1] = conn[d].client_fd
      BY <1>4, <2>2, <2>4
    <3> QED
      BY <3>1
  <2> QED
    BY <2>1, <2>3, <2>4
<1> QED
  BY <1>8, <1>9, <1>10 DEF ResolversOK

-----------------------------------------------------------------------------
(* The steps of a connection.                                              *)

\* The entry under the cursor keeps its owner or is wiped.
LEMMA CursorKept ==
  ASSUME NEW c, Serving(c), Stays(c) \/ Gone(c), cursor \in FD,
         sel.item[cursor].data = c
  PROVE  sel'.item[cursor].data \in {c, NoData}
<1>1. cursor \in Fds(conn[c])
  BY FdsAreDisjoint DEF Serving, Socks5Inv
<1>2. FD_UNUSED.data = NoData
  BY DEF FD_UNUSED
<1> QED
  BY <1>1, <1>2, EntryData DEF Stays, Gone

LEMMA ReadStepInv ==
  ASSUME Socks5Inv, NEW c \in Conns, NEW st, Reading(c, st), Serving(c),
         Ends(c) \/ StartsResolving(c), conn[c].st # "REQUEST_RESOLV"
  PROVE  Socks5Inv'
<1>1. /\ pc = "iterate" /\ cursor \in FD /\ sel.item[cursor].data = c
      /\ GoodTable(sel) /\ LoopOK /\ NotifyOK
  BY ReadingServes DEF Socks5Inv
<1>2. /\ key' = c /\ cursor <= limit
      /\ UNCHANGED <<cursor, walk, slave_r, slave_w, limit, pc, jobs, mutex,
                     shutting_down, sigcount, io_buffer_size>>
  BY <1>1 DEF Reading, DispatchRead, HandlerFrame, ReadDue, AtItem, mainVars, config
<1>3. (Stays(c) \/ Gone(c)) /\ GoodTable(sel')
  BY DEF Ends, StartsResolving, Stays, Gone
<1>4. TableOK' /\ ObjectsOK'
  BY <1>2, <1>3, StaysTable, GoneTable
<1>5. ResolversOK'
  BY <1>2, EndsKeepsOthers, QuietStep, ResolvingStep DEF Ends, Serving
<1>6. LoopOK'
  <2>1. KeyMatches'
    BY <1>1, <1>2, <1>3, CursorKept DEF KeyMatches
  <2>2. c \in Data
    BY Socks5Assumption
  <2> QED
    BY <1>1, <1>2, <2>1, <2>2 DEF LoopOK
<1>7. NotifyOK'
  <2>1. CASE Ends(c)
    BY <1>1, <1>2, <2>1 DEF NotifyOK, Ends, workVars
  <2>2. CASE StartsResolving(c)
    <3>1. conn[c].client_fd \in FD
      BY CarriesStart, FdsAreDescriptors
    <3> QED
      BY <1>1, <1>2, <2>2, <3>1 DEF NotifyOK, StartsResolving
  <2> QED
    BY <2>1, <2>2
<1>8. Running'
  BY <1>1, <1>2 DEF Running
<1> QED
  BY <1>3, <1>4, <1>5, <1>6, <1>7, <1>8 DEF Socks5Inv, GoodTable, Table, HasHighestFd,
     Used, ITEM_USED

LEMMA WriteStepInv ==
  ASSUME Socks5Inv, NEW c \in Conns, NEW st, Writing(c, st), Serving(c),
         Ends(c), conn[c].st # "REQUEST_RESOLV"
  PROVE  Socks5Inv'
<1>1. /\ pc = "iterate" /\ cursor \in FD
      /\ GoodTable(sel) /\ LoopOK /\ NotifyOK
  BY WritingServes DEF Socks5Inv
<1>2. /\ key' = NoData /\ cursor' = cursor + 1
      /\ UNCHANGED <<walk, slave_r, slave_w, limit, pc, jobs, mutex,
                     shutting_down, sigcount, io_buffer_size>>
  BY DEF Writing, DispatchWrite, HandlerFrame, mainVars, config
<1>3. (Stays(c) \/ Gone(c)) /\ GoodTable(sel')
  BY DEF Ends, Stays, Gone
<1>4. TableOK' /\ ObjectsOK'
  BY <1>2, <1>3, StaysTable, GoneTable
<1>5. ResolversOK'
  BY <1>2, EndsKeepsOthers, QuietStep DEF Ends, Serving
<1>6. LoopOK'
  <2>1. cursor' \in 0 .. ITEMS_MAX_SIZE
    BY <1>1, <1>2, SelectorAssumption DEF FD
  <2> QED
    BY <1>1, <1>2, <2>1 DEF LoopOK, KeyMatches
<1>7. NotifyOK'
  BY <1>1, <1>2 DEF NotifyOK, Ends, workVars
<1>8. Running'
  BY <1>1, <1>2 DEF Running
<1> QED
  BY <1>3, <1>4, <1>5, <1>6, <1>7, <1>8 DEF Socks5Inv, GoodTable, Table, HasHighestFd,
     Used, ITEM_USED

LEMMA BlockStepInv ==
  ASSUME Socks5Inv, NEW c \in Conns, resolv_block(c)
  PROVE  Socks5Inv'
<1>1. /\ Serving(c) /\ Ends(c) /\ Stays(c) /\ pc = "jobs"
      /\ walk # <<>> /\ conn[c].client_fd = Head(walk)
      /\ GoodTable(sel) /\ LoopOK /\ NotifyOK
  BY ResolvBlockEnds DEF Socks5Inv
<1>2. /\ walk' = Tail(walk)
      /\ UNCHANGED <<key, cursor, slave_r, slave_w, limit, pc, jobs, mutex,
                     shutting_down, sigcount, io_buffer_size>>
  BY DEF resolv_block, Resolved, DispatchBlock, HandlerFrame, mainVars, config
<1>3. GoodTable(sel')
  BY <1>1 DEF Stays
<1>4. TableOK' /\ ObjectsOK'
  BY <1>1, <1>2, StaysTable
<1>5. ResolversOK'
  <2>1. OthersKept(c) /\ conn'[c].st # "REQUEST_RESOLV"
    BY <1>1, EndsKeepsOthers DEF Ends
  <2> QED
    BY <1>1, <1>2, <2>1, ServedStep DEF Ends
<1>6. LoopOK'
  BY <1>1, <1>2 DEF LoopOK, KeyMatches
<1>7. NotifyOK'
  BY <1>1, <1>2 DEF NotifyOK, Ends, workVars
<1>8. Running'
  BY <1>1, <1>2 DEF Running
<1> QED
  BY <1>3, <1>4, <1>5, <1>6, <1>7, <1>8 DEF Socks5Inv, GoodTable, Table, HasHighestFd,
     Used, ITEM_USED

LEMMA ConnStepInv ==
  ASSUME Socks5Inv, NEW c \in Conns, ConnStep(c)
  PROVE  Socks5Inv'
<1>1. CASE hello_read(c)
  BY <1>1, HelloReadEnds, ReadStepInv DEF hello_read
<1>2. CASE hello_write(c)
  BY <1>2, HelloWriteEnds, WriteStepInv DEF hello_write
<1>3. CASE auth_read(c)
  BY <1>3, AuthReadEnds, ReadStepInv DEF auth_read
<1>4. CASE auth_write(c)
  BY <1>4, AuthWriteEnds, WriteStepInv DEF auth_write
<1>5. CASE request_read(c)
  BY <1>5, RequestReadEnds, ReadStepInv DEF request_read
<1>6. CASE resolv_block(c)
  BY <1>6, BlockStepInv
<1>7. CASE connecting_write(c)
  BY <1>7, ConnectingWriteEnds, WriteStepInv DEF connecting_write
<1>8. CASE request_write(c)
  BY <1>8, RequestWriteEnds, WriteStepInv DEF request_write
<1>9. CASE copy_read(c)
  BY <1>9, CopyReadEnds, ReadStepInv DEF copy_read
<1>10. CASE copy_write(c)
  BY <1>10, CopyWriteEnds, WriteStepInv DEF copy_write
<1> QED
  BY <1>1, <1>2, <1>3, <1>4, <1>5, <1>6, <1>7, <1>8, <1>9, <1>10 DEF ConnStep

-----------------------------------------------------------------------------
(* A client is accepted.                                                   *)

\* The object for a new client is not in use, and the one it is taken from is
\* the head of the pool.
LEMMA NewObjectIsFree ==
  ASSUME ObjectsOK, NEW c \in NewObject
  PROVE  /\ c \in Conns /\ mem[c] \in {"free", "pool"}
         /\ pool # <<>> => c = pool[1] /\ 1 \in DOMAIN pool
         /\ pool = <<>> => mem[c] = "free"
BY DEF NewObject, ObjectsOK, PoolMatches, BuffersMatch

\* A list without its head, entry by entry.
LEMMA Beheaded ==
  ASSUME NEW S, NEW q \in Seq(S), q # <<>>
  PROVE  /\ Tail(q) \in Seq(S) /\ Len(Tail(q)) = Len(q) - 1
         /\ 1 \in DOMAIN q /\ Head(q) = q[1]
         /\ \A n \in DOMAIN Tail(q) : n + 1 \in DOMAIN q /\ n + 1 # 1
                                      /\ Tail(q)[n] = q[n + 1]
         /\ \A n \in DOMAIN q : n = 1 \/ (n - 1 \in DOMAIN Tail(q)
                                          /\ Tail(q)[n - 1] = q[n])
OBVIOUS

LEMMA PoolTaken ==
  ASSUME ObjectsOK, NEW c \in NewObject, NEW v \in {"live", "free"},
         mem' = [mem EXCEPT ![c] = v], pool' = PoolLeft, pool_size' = PoolSizeLeft
  PROVE  pool' \in Seq(Conns) /\ PoolMatches' /\ pool_size' = Len(pool')
<1>0. /\ pool' = IF pool # <<>> THEN Tail(pool) ELSE pool
      /\ pool_size' = IF pool # <<>> THEN Len(pool) - 1 ELSE Len(pool)
  BY DEF PoolLeft, PoolSizeLeft, ObjectsOK
<1>1. /\ c \in Conns /\ mem[c] # "live" /\ pool \in Seq(Conns) /\ PoolMatches
      /\ MAX_POOL \in Nat
      /\ mem \in [Conns -> {"free", "live", "pool", "leaked"}]
  BY NewObjectIsFree, Socks5Assumption DEF ObjectsOK
<1>2. mem'[c] # "pool" /\ \A d \in Conns : d # c => mem'[d] = mem[d]
  BY <1>1
<1>3. CASE pool = <<>>
  <2>1. pool' = <<>> /\ DOMAIN pool' = {} /\ pool_size' = Len(pool')
    BY <1>0, <1>3
  <2>2. \A d \in Conns : mem'[d] # "pool"
    BY <1>1, <1>2, <1>3 DEF PoolMatches
  <2> QED
    BY <1>1, <1>3, <2>1, <2>2 DEF PoolMatches
<1>4. CASE pool # <<>>
  <2>1. /\ c = pool[1] /\ pool' = Tail(pool) /\ 1 \in DOMAIN pool
        /\ pool_size' = Len(pool) - 1
    BY <1>0, <1>4, NewObjectIsFree
  <2>2. /\ Tail(pool) \in Seq(Conns) /\ Len(Tail(pool)) = Len(pool) - 1
        /\ \A n \in DOMAIN Tail(pool) : n + 1 \in DOMAIN pool /\ n + 1 # 1
                                        /\ Tail(pool)[n] = pool[n + 1]
        /\ \A n \in DOMAIN pool : n = 1 \/ (n - 1 \in DOMAIN Tail(pool)
                                            /\ Tail(pool)[n - 1] = pool[n])
    BY <1>1, <1>4, Beheaded
  <2>3. Len(Tail(pool)) <= MAX_POOL
    BY <1>1, <2>2 DEF PoolMatches
  <2>4. ASSUME NEW m \in DOMAIN Tail(pool), NEW n \in DOMAIN Tail(pool),
               Tail(pool)[m] = Tail(pool)[n]
        PROVE  m = n
    <3>1. m + 1 = n + 1
      BY <1>1, <2>2, <2>4 DEF PoolMatches
    <3>2. m \in Int /\ n \in Int
      BY <2>2
    <3> QED
      BY <3>1, <3>2
  <2>5. \A n \in DOMAIN Tail(pool) : mem'[Tail(pool)[n]] = "pool"
    <3> SUFFICES ASSUME NEW n \in DOMAIN Tail(pool)
                 PROVE  mem'[Tail(pool)[n]] = "pool"
      OBVIOUS
    <3>1. Tail(pool)[n] = pool[n + 1] /\ n + 1 \in DOMAIN pool /\ n + 1 # 1
      BY <2>2
    <3>2. pool[n + 1] # c /\ pool[n + 1] \in Conns /\ mem[pool[n + 1]] = "pool"
      BY <1>1, <2>1, <3>1 DEF PoolMatches
    <3> QED
      BY <1>2, <3>1, <3>2
  <2>6. ASSUME NEW d \in Conns, mem'[d] = "pool"
        PROVE  \E n \in DOMAIN Tail(pool) : Tail(pool)[n] = d
    <3>1. d # c /\ mem[d] = "pool"
      BY <1>2, <2>6
    <3>2. PICK n \in DOMAIN pool : pool[n] = d
      BY <1>1, <3>1 DEF PoolMatches
    <3>3. n # 1
      BY <2>1, <3>1, <3>2
    <3> QED
      BY <2>2, <3>2, <3>3
  <2> QED
    BY <2>1, <2>2, <2>3, <2>4, <2>5, <2>6 DEF PoolMatches
<1> QED
  BY <1>3, <1>4

\* The buffers of the object that changes hands.
LEMMA BuffersGiven ==
  ASSUME ObjectsOK, NEW c \in Conns, NEW v \in {"live", "pool"},
         mem' = [mem EXCEPT ![c] = v],
         buffer_size' = [buffer_size EXCEPT ![c] = io_buffer_size]
  PROVE  BuffersMatch'
<1>1. BuffersMatch /\ io_buffer_size \in BufferSizes
      /\ mem \in [Conns -> {"free", "live", "pool", "leaked"}]
  BY DEF ObjectsOK
<1> QED
  BY <1>1 DEF BuffersMatch

LEMMA BuffersFreed ==
  ASSUME ObjectsOK, NEW c \in Conns, mem' = [mem EXCEPT ![c] = "free"],
         buffer_size' = [buffer_size EXCEPT ![c] = NoSize]
  PROVE  BuffersMatch'
<1>1. BuffersMatch /\ mem \in [Conns -> {"free", "live", "pool", "leaked"}]
  BY DEF ObjectsOK
<1> QED
  BY <1>1, Socks5Assumption DEF BuffersMatch

LEMMA AcceptedGood ==
  ASSUME NEW c, NEW client \in FD
  PROVE  LET q == [socks5_new(c, client) EXCEPT !.references = 1]
         IN  /\ GoodConn(q) /\ q.st = "HELLO_READ" /\ Fds(q) = {client}
             /\ q.client_fd = client
             /\ Entry(c, q, client) = [interest |-> {"OP_READ"}, data |-> c]
<1> DEFINE q == [socks5_new(c, client) EXCEPT !.references = 1]
<1>1. NoFd \notin FD /\ 0 \in 0 .. MAX_ADDRS
  BY NoFdIsNone, Socks5Assumption
<1>2. q \in ConnOK
  <2> DEFINE z == ZeroedConn
  <2>1. "HELLO_READ" \in State /\ "SUCCESS" \in Reply /\ "empty" \in Buffer
    BY DEF State, Reply, Buffer
  <2>2. z \in ConnOK
    BY <1>1, <2>1 DEF ConnOK, ZeroedConn
  <2>3. q = [[z EXCEPT !.client_fd = client] EXCEPT !.references = 1]
    BY DEF socks5_new
  <2> HIDE DEF z, q
  <2> DEFINE y == [z EXCEPT !.client_fd = client]
  <2>4. y \in ConnOK
    BY <2>2 DEF ConnOK
  <2> HIDE DEF y
  <2>5. [y EXCEPT !.references = 1] \in ConnOK
    BY <2>4 DEF ConnOK
  <2> QED
    BY <2>3, <2>5 DEF y
<1>3. /\ q.st = "HELLO_READ" /\ q.client_fd = client /\ q.origin_fd = NoFd
      /\ q.references = 1 /\ ~q.resolving /\ ~q.client_eof /\ ~q.origin_eof
  BY DEF socks5_new, ZeroedConn
<1> HIDE DEF q
<1>4. Fds(q) = {client}
  BY <1>1, <1>3 DEF Fds
<1>5. ClientInterest(q) = {"OP_READ"}
  BY <1>3 DEF ClientInterest
<1>6. GoodConn(q)
  BY <1>1, <1>2, <1>3 DEF GoodConn, BothDone, WithoutOrigin
<1>7. Entry(c, q, client) = [interest |-> {"OP_READ"}, data |-> c]
  BY <1>3, <1>5 DEF Entry
<1> QED
  BY <1>3, <1>4, <1>6, <1>7 DEF q

LEMMA AcceptedTable ==
  ASSUME Socks5Inv, Running, NEW c \in Conns, mem[c] \in {"free", "pool"},
         NEW client \in FD, NEW q,
         ~ITEM_USED(sel, client), GoodConn(q), Fds(q) = {client},
         Entry(c, q, client) = [interest |-> {"OP_READ"}, data |-> c],
         Updates(c, q, selector_register(sel, client, {"OP_READ"}, c)),
         mem' = [mem EXCEPT ![c] = "live"],
         open' = open \cup {client}, current' = current + 1,
         UNCHANGED shutting_down
  PROVE  /\ GoodTable(sel') /\ TableOK' /\ current' \in 0 .. Cardinality(Conns)
         /\ \A fd \in FD : sel'.item[fd] =
              IF fd = client THEN Entry(c, q, client) ELSE sel.item[fd]
         /\ conn' \in [Conns -> ConnOK]
<1>1. /\ TableOK /\ ObjectsOK /\ GoodTable(sel)
      /\ conn \in [Conns -> ConnOK]
      /\ mem \in [Conns -> {"free", "live", "pool", "leaked"}]
  BY DEF Socks5Inv, ObjectsOK
<1>2. c # NoData /\ c # Listener /\ c \in Data /\ {"OP_READ"} \in Interest
      /\ Listener # NoData
  BY SelectorAssumption, Socks5Assumption DEF Interest
<1>3. /\ GoodTable(sel')
      /\ \A fd \in FD : sel'.item[fd] =
           IF fd = client THEN Entry(c, q, client) ELSE sel.item[fd]
  <2> DEFINE in == {"OP_READ"}
             t == selector_register(sel, client, in, c)
  <2>1. sel' = t /\ in \in Interest
    BY <1>2 DEF Updates
  <2> HIDE DEF in
  <2>2. /\ GoodTable(t)
        /\ \A g \in FD : t.item[g] = IF g = client THEN [interest |-> in, data |-> c]
                                                 ELSE sel.item[g]
    BY <1>1, <1>2, <2>1, RegisterItem
  <2> HIDE DEF t
  <2>3. Entry(c, q, client) = [interest |-> in, data |-> c]
    BY DEF in
  <2> QED
    BY <2>1, <2>2, <2>3
<1>4. /\ conn'[c] = q /\ mem'[c] = "live" /\ conn' \in [Conns -> ConnOK]
      /\ \A d \in Conns : d # c => conn'[d] = conn[d] /\ mem'[d] = mem[d]
  BY <1>1 DEF Updates, GoodConn
<1>5. Entry(c, q, client).data = c /\ sel.item[client].data = NoData
      /\ FD_UNUSED.data = NoData /\ ListenerEntry.data = Listener
  BY EntryData DEF ITEM_USED, FD_UNUSED, ListenerEntry
<1>6. ConnsMatch'
  <2> SUFFICES ASSUME NEW d \in Conns, mem'[d] = "live"
               PROVE  /\ GoodConn(conn'[d])
                      /\ \A fd \in Fds(conn'[d]) : sel'.item[fd].data = d
    BY DEF ConnsMatch, GoodConn, Fds, ConnOK, BothDone
  <2>1. CASE d = c
    BY <1>3, <1>4, <1>5, <2>1
  <2>2. CASE d # c
    <3>1. conn'[d] = conn[d] /\ mem[d] = "live" /\ GoodConn(conn[d])
      BY <1>1, <1>4, <2>2 DEF TableOK, ConnsMatch
    <3>2. \A fd \in Fds(conn[d]) : fd \in FD /\ sel.item[fd].data = d
      BY <1>1, <3>1, FdsAreDisjoint
    <3>3. d # NoData
      BY SelectorAssumption, Socks5Assumption
    <3> QED
      BY <1>3, <1>5, <3>1, <3>2, <3>3
  <2> QED
    BY <2>1, <2>2
<1>7. TableMatches'
  <2> SUFFICES ASSUME NEW fd \in FD
               PROVE  \/ sel'.item[fd] = FD_UNUSED
                      \/ sel'.item[fd] = ListenerEntry
                      \/ \E d \in Conns : /\ mem'[d] = "live" /\ fd \in Fds(conn'[d])
                                          /\ sel'.item[fd] = Entry(d, conn'[d], fd)
    BY DEF TableMatches, Fds, Entry, ListenerEntry, FD_UNUSED, ClientInterest,
           OriginInterest
  <2>1. CASE fd = client
    BY <1>3, <1>4, <2>1
  <2>2. CASE fd # client
    <3>1. sel'.item[fd] = sel.item[fd]
      BY <1>3, <2>2
    <3>2. CASE \E d \in Conns : /\ mem[d] = "live" /\ fd \in Fds(conn[d])
                                /\ sel.item[fd] = Entry(d, conn[d], fd)
      BY <1>4, <3>1, <3>2
    <3> QED
      BY <1>1, <3>1, <3>2 DEF TableOK, TableMatches
  <2> QED
    BY <2>1, <2>2
<1>8. open' = Used(sel')
  BY <1>1, <1>2, <1>3, <1>5 DEF TableOK, Used, ITEM_USED
<1>9. ListenerThere'
  BY <1>1, <1>2, <1>3, <1>5, NoFdIsNone DEF TableOK, ListenerThere, ListenerEntry
<1>10. Live' = Live \cup {c} /\ c \notin Live
  BY <1>4 DEF Live
<1>11. current' = Cardinality(Live')
  <2>1. Cardinality(Live \cup {c}) = Cardinality(Live) + 1
    BY <1>10, LiveIsFinite, FS_AddElement
  <2> QED
    BY <1>1, <1>10, <2>1 DEF TableOK
<1>12. current' \in 0 .. Cardinality(Conns)
  <2>1. Live' \subseteq Conns /\ IsFiniteSet(Conns)
    BY Socks5Assumption DEF Live
  <2>2. /\ IsFiniteSet(Live') /\ Cardinality(Live') <= Cardinality(Conns)
        /\ Cardinality(Conns) \in Nat
    BY <2>1, FS_Subset, FS_CardinalityType
  <2>3. Cardinality(Live') \in Nat
    BY <2>2, FS_CardinalityType
  <2> QED
    BY <1>11, <2>2, <2>3
<1>13. \A d \in Conns : mem'[d] # "leaked"
  BY <1>1, <1>4 DEF TableOK
<1>14. TableOK'
  BY <1>6, <1>7, <1>8, <1>9, <1>11, <1>13 DEF TableOK, Used, ITEM_USED
<1> QED
  BY <1>3, <1>4, <1>12, <1>14

LEMMA AcceptingServes ==
  ASSUME Socks5Inv, Accepting
  PROVE  /\ Running /\ pc = "iterate" /\ cursor \in FD /\ cursor <= limit
         /\ sel.item[cursor].data = Listener /\ Listener # NoData
         /\ key' = Listener
         /\ UNCHANGED <<cursor, walk, slave_r, slave_w, limit, pc, jobs, mutex,
                        shutting_down, sigcount, io_buffer_size>>
<1>1. ReadDue /\ key' = sel.item[cursor].data /\ sel.item[cursor].data = Listener
      /\ UNCHANGED <<cursor, walk, slave_r, slave_w, limit, pc, jobs, mutex,
                     shutting_down, sigcount, io_buffer_size>>
  BY DEF Accepting, DispatchRead, HandlerFrame, mainVars, config
<1>2. Listener # NoData
  BY SelectorAssumption, Socks5Assumption
<1> QED
  BY <1>1, <1>2, CursorInTable

LEMMA PassiveAcceptInv ==
  ASSUME Socks5Inv, socksv5_passive_accept
  PROVE  Socks5Inv'
<1>1. /\ Running /\ pc = "iterate" /\ cursor \in FD /\ cursor <= limit
      /\ sel.item[cursor].data = Listener /\ Listener # NoData
      /\ key' = Listener
      /\ UNCHANGED <<cursor, walk, slave_r, slave_w, limit, pc, jobs, mutex,
                     shutting_down, sigcount, io_buffer_size>>
  BY AcceptingServes DEF socksv5_passive_accept
<1>2. UNCHANGED <<link, wconn, workVars>>
  BY DEF socksv5_passive_accept
<1>3. PICK c \in NewObject, client \in LowestFree(open) :
       /\ CanRegister(sel, client)
       /\ Updates(c, [socks5_new(c, client) EXCEPT !.references = 1],
                  selector_register(sel, client, {"OP_READ"}, c))
       /\ mem' = [mem EXCEPT ![c] = "live"]
       /\ pool' = PoolLeft /\ pool_size' = PoolSizeLeft
       /\ buffer_size' = [buffer_size EXCEPT ![c] = io_buffer_size]
       /\ open' = open \cup {client}
       /\ current' = current + 1
  BY DEF socksv5_passive_accept, metrics_connection_opened
<1> DEFINE q == [socks5_new(c, client) EXCEPT !.references = 1]
<1>4. ObjectsOK /\ LoopOK /\ NotifyOK /\ client \in FD /\ ~ITEM_USED(sel, client)
  BY <1>3 DEF Socks5Inv, CanRegister
<1>5. c \in Conns /\ mem[c] \in {"free", "pool"}
  BY <1>4, NewObjectIsFree
<1>6. /\ GoodConn(q) /\ q.st = "HELLO_READ" /\ Fds(q) = {client}
      /\ Entry(c, q, client) = [interest |-> {"OP_READ"}, data |-> c]
  BY <1>4, AcceptedGood
<1>7. Updates(c, q, selector_register(sel, client, {"OP_READ"}, c))
  BY <1>3
<1> HIDE DEF q
<1>8. /\ GoodTable(sel') /\ TableOK' /\ current' \in 0 .. Cardinality(Conns)
      /\ \A fd \in FD : sel'.item[fd] =
           IF fd = client THEN Entry(c, q, client) ELSE sel.item[fd]
      /\ conn' \in [Conns -> ConnOK]
  BY <1>1, <1>3, <1>4, <1>5, <1>6, <1>7, AcceptedTable
<1>9. /\ pool' \in Seq(Conns) /\ PoolMatches' /\ pool_size' = Len(pool')
      /\ BuffersMatch'
  BY <1>3, <1>4, <1>5, PoolTaken, BuffersGiven
<1>10. ObjectsOK'
  <2>1. mem' \in [Conns -> {"free", "live", "pool", "leaked"}]
    BY <1>3, <1>4, <1>5 DEF ObjectsOK
  <2> QED
    BY <1>1, <1>2, <1>4, <1>8, <1>9, <2>1 DEF ObjectsOK
<1>11. ResolversOK'
  <2>1. conn' = [conn EXCEPT ![c] = q] /\ conn'[c] = q
    BY <1>4, <1>5, <1>7 DEF Updates, ObjectsOK
  <2>2. OthersKept(c)
    BY <1>3, <1>4, <1>5, <2>1 DEF OthersKept, ObjectsOK
  <2>3. conn'[c].st # "REQUEST_RESOLV" /\ mem[c] # "live"
    BY <1>5, <1>6, <2>1
  <2> QED
    BY <1>1, <1>2, <2>2, <2>3, QuietStep
<1>12. LoopOK'
  <2>1. client # cursor
    BY <1>1, <1>4 DEF ITEM_USED
  <2>2. sel'.item[cursor].data = Listener
    BY <1>1, <1>8, <2>1
  <2>3. Listener \in Data
    BY Socks5Assumption
  <2> QED
    BY <1>1, <1>4, <2>2, <2>3 DEF LoopOK, KeyMatches
<1>13. NotifyOK'
  BY <1>1, <1>2, <1>4 DEF NotifyOK, workVars
<1>14. Running'
  BY <1>1 DEF Running
<1> QED
  BY <1>8, <1>10, <1>11, <1>12, <1>13, <1>14 DEF Socks5Inv, GoodTable, Table,
     HasHighestFd, Used, ITEM_USED

-----------------------------------------------------------------------------
(* Steps that leave the connections alone.                                 *)

SameLive ==
  \A c \in Conns : (mem'[c] = "live" <=> mem[c] = "live") /\ mem'[c] # "leaked"

LEMMA TableKept ==
  ASSUME TableOK, SameLive, UNCHANGED <<sel, conn, open, current, shutting_down>>
  PROVE  TableOK'
<1>1. sel' = sel /\ conn' = conn /\ open' = open /\ current' = current
      /\ shutting_down' = shutting_down
  OBVIOUS
<1>2. TableMatches'
  BY <1>1 DEF TableOK, TableMatches, SameLive
<1>3. ConnsMatch'
  BY <1>1 DEF TableOK, ConnsMatch, SameLive
<1>4. ListenerThere'
  BY <1>1 DEF TableOK, ListenerThere
<1>5. Live' = Live
  BY DEF Live, SameLive
<1>6. open' = Used(sel') /\ current' = Cardinality(Live')
  BY <1>1, <1>5 DEF TableOK
<1> QED
  BY <1>2, <1>3, <1>4, <1>6 DEF TableOK, SameLive, Used, ITEM_USED

LEMMA ResolversKept ==
  ASSUME ResolversOK, SameLive, Unserved' = Unserved,
         UNCHANGED <<conn, wconn, workVars>>
  PROVE  ResolversOK'
<1>1. conn' = conn /\ wconn' = wconn /\ wpc' = wpc /\ wfd' = wfd
  BY DEF workVars
<1>2. \A w : Asking(w)' <=> Asking(w)
  BY <1>1 DEF Asking
<1>3. ThreadsServe'
  <2> SUFFICES ASSUME NEW w \in Workers, Asking(w)
               PROVE  /\ wconn[w] \in Conns /\ mem'[wconn[w]] = "live"
                      /\ conn[wconn[w]].st = "REQUEST_RESOLV"
                      /\ conn[wconn[w]].client_fd = wfd[w]
                      /\ wpc[w] = "notify" => conn[wconn[w]].dns # "none"
                      /\ \A v \in Workers : Asking(v) /\ wconn[v] = wconn[w] => v = w
                      /\ \A n \in DOMAIN Unserved : Unserved[n] # wfd[w]
    BY <1>1, <1>2 DEF ThreadsServe
  <2> QED
    BY DEF ResolversOK, ThreadsServe, SameLive
<1>4. JobsServe'
  BY <1>1 DEF ResolversOK, JobsServe, SameLive
<1>5. ResolutionsGoOn'
  BY <1>1, <1>2 DEF ResolversOK, ResolutionsGoOn, SameLive
<1> QED
  BY <1>3, <1>4, <1>5 DEF ResolversOK

LEMMA UnregistrableInv ==
  ASSUME Socks5Inv, socksv5_passive_accept_unregistrable
  PROVE  Socks5Inv'
<1>1. /\ Running /\ pc = "iterate" /\ cursor \in FD /\ cursor <= limit
      /\ sel.item[cursor].data = Listener /\ Listener # NoData
      /\ key' = Listener
      /\ UNCHANGED <<cursor, walk, slave_r, slave_w, limit, pc, jobs, mutex,
                     shutting_down, sigcount, io_buffer_size>>
  BY AcceptingServes DEF socksv5_passive_accept_unregistrable
<1>2. UNCHANGED <<conn, sel, current, link, wconn, workVars>> /\ open' = open
  BY DEF socksv5_passive_accept_unregistrable, RefusedClosed
<1>3. PICK c \in NewObject :
       \/ /\ PoolSizeLeft < MAX_POOL
          /\ mem' = [mem EXCEPT ![c] = "pool"]
          /\ pool' = <<c>> \o PoolLeft /\ pool_size' = PoolSizeLeft + 1
          /\ buffer_size' = [buffer_size EXCEPT ![c] = io_buffer_size]
       \/ /\ PoolSizeLeft >= MAX_POOL
          /\ mem' = [mem EXCEPT ![c] = "free"]
          /\ pool' = PoolLeft /\ pool_size' = PoolSizeLeft
          /\ buffer_size' = [buffer_size EXCEPT ![c] = NoSize]
  BY DEF socksv5_passive_accept_unregistrable
<1>4. /\ GoodTable(sel) /\ ObjectsOK /\ LoopOK /\ NotifyOK /\ TableOK /\ ResolversOK
      /\ mem \in [Conns -> {"free", "live", "pool", "leaked"}]
      /\ pool \in Seq(Conns) /\ PoolMatches /\ pool_size = Len(pool)
  BY <1>1 DEF Socks5Inv, ObjectsOK
<1>5. /\ c \in Conns /\ mem[c] \in {"free", "pool"} /\ MAX_POOL \in Nat
      /\ pool = <<>> => mem[c] = "free"
      /\ pool # <<>> => c = pool[1] /\ 1 \in DOMAIN pool
  BY <1>4, NewObjectIsFree, Socks5Assumption
<1>6. SameLive
  BY <1>3, <1>4, <1>5 DEF SameLive, TableOK
<1>7. TableOK' /\ ResolversOK'
  <2>1. Unserved' = Unserved
    BY <1>1 DEF Unserved
  <2> QED
    BY <1>1, <1>2, <1>4, <1>6, <2>1, TableKept, ResolversKept
<1>8. mem' \in [Conns -> {"free", "live", "pool", "leaked"}]
  BY <1>3, <1>4, <1>5
<1>9. pool' \in Seq(Conns) /\ PoolMatches' /\ pool_size' = Len(pool')
  <2>1. CASE pool = <<>> /\ MAX_POOL > 0
    <3>1. PoolLeft = <<>> /\ PoolSizeLeft = 0
      BY <1>4, <2>1 DEF PoolLeft, PoolSizeLeft
    <3>2. pool' = <<c>> \o <<>> /\ pool_size' = 1 /\ mem' = [mem EXCEPT ![c] = "pool"]
      BY <1>3, <1>5, <2>1, <3>1
    <3>3. pool' = <<c>> /\ Len(pool') = 1 /\ DOMAIN pool' = {1} /\ pool'[1] = c
      BY <3>2
    <3>4. mem'[c] = "pool" /\ \A d \in Conns : d # c => mem'[d] = mem[d]
      BY <1>4, <1>5, <3>2
    <3>5. \A d \in Conns : mem[d] # "pool"
      BY <1>4, <2>1 DEF PoolMatches
    <3>6. Len(pool') <= MAX_POOL /\ pool' \in Seq(Conns)
      BY <1>5, <2>1, <3>3
    <3> QED
      BY <3>2, <3>3, <3>4, <3>5, <3>6 DEF PoolMatches
  <2>2. CASE pool = <<>> /\ ~(MAX_POOL > 0)
    <3>1. PoolLeft = <<>> /\ PoolSizeLeft = 0
      BY <1>4, <2>2 DEF PoolLeft, PoolSizeLeft
    <3>2. mem' = [mem EXCEPT ![c] = "free"] /\ pool' = pool /\ pool_size' = pool_size
      BY <1>3, <1>4, <1>5, <2>2, <3>1
    <3>3. mem' = mem
      BY <1>4, <1>5, <2>2, <3>2
    <3> QED
      BY <1>4, <3>2, <3>3 DEF PoolMatches
  <2>3. CASE pool # <<>>
    <3>1. PoolLeft = Tail(pool) /\ PoolSizeLeft = Len(pool) - 1
      BY <1>4, <2>3 DEF PoolLeft, PoolSizeLeft
    <3>2. PoolSizeLeft < MAX_POOL /\ ~(PoolSizeLeft >= MAX_POOL) /\ mem[c] = "pool"
      BY <1>4, <1>5, <2>3, <3>1 DEF PoolMatches
    <3>3. /\ mem' = [mem EXCEPT ![c] = "pool"]
          /\ pool' = <<c>> \o Tail(pool) /\ pool_size' = (Len(pool) - 1) + 1
      BY <1>3, <3>1, <3>2
    <3>4. mem' = mem
      BY <1>4, <1>5, <3>2, <3>3
    <3>5. pool' = pool
      <4>1. <<pool[1]>> \o Tail(pool) = pool
        BY <1>4, <2>3
      <4> QED
        BY <1>5, <2>3, <3>3, <4>1
    <3>6. pool_size' = Len(pool)
      BY <1>4, <3>3
    <3> QED
      BY <1>4, <3>4, <3>5, <3>6 DEF PoolMatches
  <2> QED
    BY <2>1, <2>2, <2>3
<1>9a. BuffersMatch'
  BY <1>3, <1>4, <1>5, BuffersGiven, BuffersFreed
<1>10. ObjectsOK'
  BY <1>1, <1>2, <1>4, <1>8, <1>9, <1>9a DEF ObjectsOK
<1>11. LoopOK'
  <2>1. Listener \in Data
    BY Socks5Assumption
  <2> QED
    BY <1>1, <1>2, <1>4, <2>1 DEF LoopOK, KeyMatches
<1>12. NotifyOK'
  BY <1>1, <1>2, <1>4 DEF NotifyOK, workVars
<1>13. Running' /\ GoodTable(sel')
  BY <1>1, <1>2, <1>4 DEF Running
<1> QED
  BY <1>7, <1>10, <1>11, <1>12, <1>13 DEF Socks5Inv, GoodTable, Table,
     HasHighestFd, Used, ITEM_USED

LEMMA EnomemInv ==
  ASSUME Socks5Inv, socksv5_passive_accept_enomem
  PROVE  Socks5Inv'
<1>1. /\ Running /\ pc = "iterate" /\ cursor \in FD /\ cursor <= limit
      /\ sel.item[cursor].data = Listener /\ Listener # NoData
      /\ key' = Listener
      /\ UNCHANGED <<cursor, walk, slave_r, slave_w, limit, pc, jobs, mutex,
                     shutting_down, sigcount, io_buffer_size>>
  BY AcceptingServes DEF socksv5_passive_accept_enomem
<1>2. UNCHANGED <<conn, sel, current, open, link, wconn, workVars>>
  BY DEF socksv5_passive_accept_enomem
<1> DEFINE c == Head(pool)
<1>3. /\ pool # <<>> /\ mem' = [mem EXCEPT ![c] = "free"]
      /\ pool' = PoolLeft /\ pool_size' = PoolSizeLeft
      /\ buffer_size' = [buffer_size EXCEPT ![c] = NoSize]
  BY DEF socksv5_passive_accept_enomem, PoolAfterEnomem
<1>4. /\ GoodTable(sel) /\ ObjectsOK /\ LoopOK /\ NotifyOK /\ TableOK /\ ResolversOK
      /\ mem \in [Conns -> {"free", "live", "pool", "leaked"}]
  BY <1>1 DEF Socks5Inv, ObjectsOK
<1>5. c \in NewObject /\ c \in Conns /\ mem[c] # "live"
  <2>1. c \in NewObject
    BY <1>3 DEF NewObject
  <2> HIDE DEF c
  <2> QED
    BY <1>4, <2>1, NewObjectIsFree
<1> HIDE DEF c
<1>6. SameLive
  BY <1>3, <1>4, <1>5 DEF SameLive, TableOK
<1>7. TableOK' /\ ResolversOK'
  <2>1. Unserved' = Unserved
    BY <1>1 DEF Unserved
  <2> QED
    BY <1>1, <1>2, <1>4, <1>6, <2>1, TableKept, ResolversKept
<1>8. mem' \in [Conns -> {"free", "live", "pool", "leaked"}]
  BY <1>3, <1>4, <1>5
<1>9. /\ pool' \in Seq(Conns) /\ PoolMatches' /\ pool_size' = Len(pool')
      /\ BuffersMatch'
  BY <1>3, <1>4, <1>5, PoolTaken, BuffersFreed
<1>10. ObjectsOK'
  BY <1>1, <1>2, <1>4, <1>8, <1>9 DEF ObjectsOK
<1>11. LoopOK'
  <2>1. Listener \in Data
    BY Socks5Assumption
  <2> QED
    BY <1>1, <1>2, <1>4, <2>1 DEF LoopOK, KeyMatches
<1>12. NotifyOK'
  BY <1>1, <1>2, <1>4 DEF NotifyOK, workVars
<1>13. Running' /\ GoodTable(sel')
  BY <1>1, <1>2, <1>4 DEF Running
<1> QED
  BY <1>7, <1>10, <1>11, <1>12, <1>13 DEF Socks5Inv, GoodTable, Table,
     HasHighestFd, Used, ITEM_USED

LEMMA AcceptNothingInv ==
  ASSUME Socks5Inv, socksv5_passive_accept_nothing
  PROVE  Socks5Inv'
<1>1. /\ Running /\ pc = "iterate" /\ cursor \in FD /\ cursor <= limit
      /\ sel.item[cursor].data = Listener /\ Listener # NoData
      /\ key' = Listener
      /\ UNCHANGED <<cursor, walk, slave_r, slave_w, limit, pc, jobs, mutex,
                     shutting_down, sigcount, io_buffer_size>>
  BY AcceptingServes DEF socksv5_passive_accept_nothing
<1>2. UNCHANGED <<conn, sel, mem, pool, pool_size, buffer_size, current, open,
                  link, wconn, workVars>>
  BY DEF socksv5_passive_accept_nothing, objVars, poolVars
<1>3. GoodTable(sel) /\ ObjectsOK /\ LoopOK /\ NotifyOK /\ TableOK /\ ResolversOK
  BY <1>1 DEF Socks5Inv
<1>4. SameLive /\ Unserved' = Unserved
  BY <1>1, <1>2, <1>3 DEF SameLive, TableOK, Unserved
<1>5. TableOK' /\ ResolversOK'
  BY <1>1, <1>2, <1>3, <1>4, TableKept, ResolversKept
<1>6. ObjectsOK'
  BY <1>1, <1>2, <1>3 DEF ObjectsOK, PoolMatches, BuffersMatch
<1>7. LoopOK'
  <2>1. Listener \in Data
    BY Socks5Assumption
  <2> QED
    BY <1>1, <1>2, <1>3, <2>1 DEF LoopOK, KeyMatches
<1>8. NotifyOK'
  BY <1>1, <1>2, <1>3 DEF NotifyOK, workVars
<1>9. Running' /\ GoodTable(sel')
  BY <1>1, <1>2, <1>3 DEF Running
<1> QED
  BY <1>5, <1>6, <1>7, <1>8, <1>9 DEF Socks5Inv, GoodTable, Table,
     HasHighestFd, Used, ITEM_USED

(* The objects and the table are left alone and the selector is not        *)
(* destroyed: what is left to see is the loop and its notifications.       *)
LEMMA LoopStep ==
  ASSUME Socks5Inv, Running, Running', LoopOK', NotifyOK', ResolversOK',
         UNCHANGED <<sel, conn, mem, pool, pool_size,
                     buffer_size, current, open, shutting_down>>,
         link' \in [Conns -> {"none", "connecting", "up", "failed"}],
         sigcount' \in 0 .. MaxSignals, io_buffer_size' \in BufferSizes
  PROVE  Socks5Inv'
<1>1. GoodTable(sel) /\ ObjectsOK /\ TableOK
  BY DEF Socks5Inv
<1>2. SameLive
  BY <1>1 DEF SameLive, TableOK
<1>3. TableOK'
  BY <1>1, <1>2, TableKept
<1>4. ObjectsOK'
  BY <1>1 DEF ObjectsOK, PoolMatches, BuffersMatch
<1> QED
  BY <1>1, <1>3, <1>4 DEF Socks5Inv, GoodTable, Table, HasHighestFd, Used, ITEM_USED

\* A job in the list finds an entry in use: selector_select drops none.
LEMMA NoJobIsDropped ==
  ASSUME Socks5Inv
  PROVE  ~DropJob
<1> SUFFICES ASSUME DropJob PROVE FALSE
  OBVIOUS
<1>1. /\ Running /\ pc = "jobs" /\ walk # <<>> /\ ~ITEM_USED(sel, Head(walk))
      /\ walk \in Seq(FD) /\ TableOK /\ ResolversOK
  BY DEF DropJob, JobDue, Running, Socks5Inv, NotifyOK
<1>2. Unserved = walk /\ 1 \in DOMAIN walk /\ Head(walk) = walk[1]
  BY <1>1 DEF Unserved
<1>3. PICK c \in Conns : mem[c] = "live" /\ conn[c].client_fd = Head(walk)
  BY <1>1, <1>2 DEF ResolversOK, JobsServe
<1>4. conn[c].client_fd \in Fds(conn[c])
  BY <1>1, <1>3, FdsAreDescriptors DEF TableOK, ConnsMatch
<1>5. sel.item[Head(walk)].data = c
  BY <1>1, <1>3, <1>4, FdsAreDisjoint
<1>6. c # NoData
  BY SelectorAssumption, Socks5Assumption
<1> QED
  BY <1>1, <1>5, <1>6 DEF ITEM_USED

LEMMA SelectorLoopInv ==
  ASSUME Socks5Inv, SelectorLoop
  PROVE  Socks5Inv'
<1>1. /\ UNCHANGED <<conn, mem, pool, pool_size,
                     buffer_size, current, open, link, wconn, shutting_down,
                     sigcount, io_buffer_size>>
  BY DEF SelectorLoop, proxyVars, objVars, poolVars, mainVars, config
<1>2. /\ GoodTable(sel) /\ LoopOK /\ NotifyOK /\ ObjectsOK
  BY DEF Socks5Inv
<1>3. link' \in [Conns -> {"none", "connecting", "up", "failed"}]
      /\ sigcount' \in 0 .. MaxSignals /\ io_buffer_size' \in BufferSizes
  BY <1>1, <1>2 DEF ObjectsOK
<1>4. ASSUME Running, UNCHANGED <<sel, workVars>>, Unserved' = Unserved
      PROVE  ResolversOK'
  <2>1. ResolversOK /\ SameLive
    BY <1>1, <1>4 DEF Socks5Inv, TableOK, SameLive
  <2> QED
    BY <1>1, <1>4, <2>1, ResolversKept
<1>5. ASSUME NEW r \in SUBSET master_r(sel), NEW w \in SUBSET master_w(sel),
             PselectReturns(r, w)
      PROVE  Socks5Inv'
  <2>1. /\ pc = "pselect" /\ pc' = "iterate" /\ slave_r' = r /\ slave_w' = w
        /\ cursor' = 0 /\ limit' = sel.max_fd
        /\ UNCHANGED <<sel, key, jobs, walk, mutex, workVars>>
    BY <1>5 DEF PselectReturns
  <2>2. r \subseteq FD /\ w \subseteq FD /\ sel.max_fd \in FD
    BY <1>2 DEF master_r, master_w, GoodTable, Table
  <2>3. key = NoData /\ 0 \in 0 .. ITEMS_MAX_SIZE
    BY <1>2, <2>1, SelectorAssumption DEF LoopOK, KeyMatches
  <2>4. LoopOK'
    BY <1>2, <2>1, <2>2, <2>3 DEF LoopOK, KeyMatches
  <2>5. NotifyOK'
    BY <1>1, <1>2, <2>1 DEF NotifyOK, workVars
  <2>6. Running /\ Running' /\ Unserved' = Unserved
    BY <2>1 DEF Running, Unserved
  <2> QED
    BY <1>1, <1>3, <1>4, <2>1, <2>4, <2>5, <2>6, LoopStep
<1>6. CASE PselectInterrupted
  <2>1. /\ pc = "pselect" /\ pc' = "notify"
        /\ UNCHANGED <<sel, slave_r, slave_w, cursor, limit, key, jobs, walk, mutex,
                       workVars>>
    BY <1>6 DEF PselectInterrupted, loopVars
  <2>2. LoopOK'
    BY <1>2, <2>1 DEF LoopOK, KeyMatches
  <2>3. NotifyOK'
    BY <1>1, <1>2, <2>1 DEF NotifyOK, workVars
  <2>4. Running /\ Running' /\ Unserved' = Unserved
    BY <2>1 DEF Running, Unserved
  <2> QED
    BY <1>1, <1>3, <1>4, <2>1, <2>2, <2>3, <2>4, LoopStep
<1>7. CASE NextItem
  <2>1. /\ pc = "iterate" /\ cursor <= limit /\ key' = NoData
        /\ UNCHANGED <<sel, limit, pc, jobs, walk, mutex, workVars>>
    BY <1>7 DEF NextItem, AtItem, notifyVars
  <2>2. /\ cursor' \in slave_r \cup slave_w \cup {limit + 1}
        /\ slave_r' \subseteq slave_r /\ slave_w' \subseteq slave_w
    BY <1>7 DEF NextItem
  <2>3. cursor' \in 0 .. ITEMS_MAX_SIZE
    BY <1>2, <2>2, SelectorAssumption DEF LoopOK, FD
  <2>4. LoopOK'
    BY <1>2, <2>1, <2>2, <2>3 DEF LoopOK, KeyMatches
  <2>5. NotifyOK'
    BY <1>1, <1>2, <2>1 DEF NotifyOK, workVars
  <2>6. Running /\ Running' /\ Unserved' = Unserved
    BY <2>1 DEF Running, Unserved
  <2> QED
    BY <1>1, <1>3, <1>4, <2>1, <2>4, <2>5, <2>6, LoopStep
<1>8. CASE IterationEnds
  <2>1. /\ pc = "iterate" /\ cursor > limit /\ pc' = "notify"
        /\ slave_r' = {} /\ slave_w' = {} /\ cursor' = 0 /\ limit' = 0
        /\ UNCHANGED <<sel, key, jobs, walk, mutex, workVars>>
    BY <1>8 DEF IterationEnds, notifyVars
  <2>2. key = NoData /\ 0 \in FD /\ 0 \in 0 .. ITEMS_MAX_SIZE
    BY <1>2, <2>1, SelectorAssumption DEF LoopOK, KeyMatches, FD
  <2>3. LoopOK'
    BY <1>2, <2>1, <2>2 DEF LoopOK, KeyMatches
  <2>4. NotifyOK'
    BY <1>1, <1>2, <2>1 DEF NotifyOK, workVars
  <2>5. Running /\ Running' /\ Unserved' = Unserved
    BY <2>1 DEF Running, Unserved
  <2> QED
    BY <1>1, <1>3, <1>4, <2>1, <2>3, <2>4, <2>5, LoopStep
<1>9. CASE LockJobs
  <2>1. /\ pc = "notify" /\ pc' = "jobs" /\ mutex' = TRUE /\ walk' = jobs
        /\ UNCHANGED <<sel, slave_r, slave_w, cursor, limit, key, jobs, workVars>>
    BY <1>9 DEF LockJobs, loopVars
  <2>2. LoopOK'
    BY <1>2, <2>1 DEF LoopOK, KeyMatches
  <2>3. NotifyOK'
    BY <1>1, <1>2, <2>1 DEF NotifyOK, workVars
  <2>4. Running /\ Running' /\ Unserved' = Unserved
    BY <2>1 DEF Running, Unserved
  <2> QED
    BY <1>1, <1>3, <1>4, <2>1, <2>2, <2>3, <2>4, LoopStep
<1>10. CASE DropJob
  BY <1>10, NoJobIsDropped
<1>11. CASE UnlockJobs
  <2>1. /\ pc = "jobs" /\ walk = <<>> /\ pc' = "loop" /\ mutex' = FALSE /\ jobs' = <<>>
        /\ UNCHANGED <<sel, slave_r, slave_w, cursor, limit, key, walk, workVars>>
    BY <1>11 DEF UnlockJobs, loopVars
  <2>2. LoopOK'
    BY <1>2, <2>1 DEF LoopOK, KeyMatches
  <2>3. NotifyOK'
    BY <1>1, <1>2, <2>1 DEF NotifyOK, workVars
  <2>4. Running /\ Running' /\ Unserved' = Unserved
    BY <2>1 DEF Running, Unserved
  <2> QED
    BY <1>1, <1>3, <1>4, <2>1, <2>2, <2>3, <2>4, LoopStep
<1> QED
  BY <1>5, <1>6, <1>7, <1>8, <1>9, <1>10, <1>11 DEF SelectorLoop

-----------------------------------------------------------------------------
(* The main loop and the shutdown.                                         *)

LEMMA StopAcceptingInv ==
  ASSUME Socks5Inv, StopAccepting
  PROVE  Socks5Inv'
<1>1. /\ pc = "loop" /\ ~shutting_down /\ shutting_down' = TRUE
      /\ sel' = selector_unregister_fd(sel, ListenFd) /\ open' = open \ {ListenFd}
      /\ pc' \in {"teardown", "pselect"}
      /\ UNCHANGED <<slave_r, slave_w, cursor, limit, key, jobs, walk, mutex, workVars,
                     conn, mem, pool, pool_size,
                     buffer_size, current, link, wconn, sigcount, io_buffer_size>>
  BY DEF StopAccepting, loopVars, notifyVars, objVars, poolVars, config
<1>2. Running /\ Running'
  BY <1>1 DEF Running
<1>3. GoodTable(sel) /\ LoopOK /\ NotifyOK /\ ObjectsOK /\ TableOK /\ ResolversOK
  BY <1>2 DEF Socks5Inv
<1>4. /\ ListenFd \in FD /\ sel.item[ListenFd].data = Listener /\ Listener # NoData
      /\ \A d \in Conns : d # Listener /\ d # NoData
  BY <1>1, <1>3, NoFdIsNone, SelectorAssumption, Socks5Assumption
  DEF TableOK, ListenerThere, ListenerEntry
<1>5. /\ GoodTable(sel')
      /\ \A fd \in FD : sel'.item[fd] = IF fd = ListenFd THEN FD_UNUSED ELSE sel.item[fd]
  BY <1>1, <1>3, <1>4, UnregisterItem DEF ITEM_USED
<1>6. ConnsMatch'
  <2> SUFFICES ASSUME NEW d \in Conns, mem[d] = "live"
               PROVE  /\ GoodConn(conn[d])
                      /\ \A fd \in Fds(conn[d]) : sel'.item[fd].data = d
    BY <1>1 DEF ConnsMatch
  <2> QED
    BY <1>3, <1>4, <1>5, FdsAreDisjoint DEF TableOK, ConnsMatch
<1>7. TableMatches'
  BY <1>1, <1>3, <1>5 DEF TableOK, TableMatches
<1>8. open' = Used(sel')
  BY <1>1, <1>3, <1>5 DEF TableOK, Used, ITEM_USED, FD_UNUSED
<1>9. Live' = Live
  BY <1>1 DEF Live
<1>10. TableOK'
  BY <1>1, <1>3, <1>6, <1>7, <1>8, <1>9 DEF TableOK, ListenerThere, Used, ITEM_USED
<1>11. ResolversOK'
  <2>1. SameLive /\ Unserved' = Unserved
    BY <1>1, <1>3 DEF SameLive, TableOK, Unserved
  <2> QED
    BY <1>1, <1>3, <2>1, ResolversKept
<1>12. LoopOK'
  BY <1>1, <1>3 DEF LoopOK, KeyMatches
<1>13. NotifyOK'
  BY <1>1, <1>3 DEF NotifyOK, workVars
<1>14. ObjectsOK'
  BY <1>1, <1>3 DEF ObjectsOK, PoolMatches, BuffersMatch
<1> QED
  BY <1>2, <1>5, <1>10, <1>11, <1>12, <1>13, <1>14 DEF Socks5Inv, GoodTable, Table,
     HasHighestFd, Used, ITEM_USED

(* The forced shutdown leaves the objects resolver threads write into.     *)
LEMMA TeardownInv ==
  ASSUME Socks5Inv, Teardown
  PROVE  Socks5Inv'
<1>1. /\ pc = "teardown" /\ pc' = "destroyed" /\ sel' = EmptyTable /\ open' = {}
      /\ jobs' = <<>> /\ link' = [c \in Conns |-> "none"]
      /\ mem' = [c \in Conns |-> TornDownAs(c)] /\ current' = 0
      /\ pool' = <<>> /\ pool_size' = 0
      /\ buffer_size' = [c \in Conns |-> IF TornDownAs(c) = "free"
                                         THEN NoSize ELSE buffer_size[c]]
      /\ UNCHANGED <<slave_r, slave_w, cursor, limit, key, walk, mutex, workVars,
                     conn, wconn, sigcount, io_buffer_size>>
  BY DEF Teardown, loopVars, mainVars, config
<1>2. Running /\ ~Running'
  BY <1>1 DEF Running
<1>3. LoopOK /\ NotifyOK /\ ObjectsOK /\ TableOK /\ ResolversOK
  BY <1>2 DEF Socks5Inv
<1>4. GoodTable(sel')
  BY <1>1, EmptyTableGood
<1>5. LoopOK'
  BY <1>1, <1>3 DEF LoopOK, KeyMatches
<1>6. NotifyOK'
  BY <1>1, <1>3 DEF NotifyOK, workVars
<1>7. ObjectsOK'
  <2>1. 0 \in 0 .. Cardinality(Conns) /\ 0 <= MAX_POOL
    BY Socks5Assumption, FS_CardinalityType
  <2>2. \A c \in Conns : mem'[c] \in {"free", "leaked"}
    BY <1>1 DEF TornDownAs
  <2>3. mem' \in [Conns -> {"free", "live", "pool", "leaked"}]
    BY <1>1, <2>2
  <2>4. PoolMatches'
    BY <1>1, <2>1, <2>2 DEF PoolMatches
  <2>5. BuffersMatch'
    <3>1. BuffersMatch /\ NoSize \notin BufferSizes
      BY <1>3, Socks5Assumption DEF ObjectsOK
    <3>2. ASSUME NEW c \in Conns, TornDownAs(c) # "free"
          PROVE  buffer_size[c] \in BufferSizes
      BY <3>1, <3>2 DEF TornDownAs, BuffersMatch
    <3> QED
      BY <1>1, <3>1, <3>2 DEF BuffersMatch
  <2> QED
    BY <1>1, <1>3, <2>1, <2>3, <2>4, <2>5 DEF ObjectsOK
<1>8. OrphansLeaked'
  <2> SUFFICES ASSUME NEW w \in Workers, wpc[w] = "work"
               PROVE  /\ wconn[w] \in Conns /\ mem'[wconn[w]] = "leaked"
                      /\ conn[wconn[w]].resolving
                      /\ \A v \in Workers : wpc[v] = "work" /\ wconn[v] = wconn[w] => v = w
    BY <1>1 DEF OrphansLeaked, workVars
  <2>1. /\ wconn[w] \in Conns /\ mem[wconn[w]] = "live"
        /\ conn[wconn[w]].st = "REQUEST_RESOLV"
        /\ \A v \in Workers : wpc[v] = "work" /\ wconn[v] = wconn[w] => v = w
    BY <1>3 DEF ResolversOK, ThreadsServe, Asking
  <2>2. conn[wconn[w]].resolving
    BY <1>3, <2>1 DEF TableOK, ConnsMatch, GoodConn
  <2> QED
    BY <1>1, <2>1, <2>2 DEF TornDownAs
<1> QED
  BY <1>1, <1>2, <1>4, <1>5, <1>6, <1>7, <1>8 DEF Socks5Inv, GoodTable, Table,
     HasHighestFd, Used, ITEM_USED, EmptyTable, FD_UNUSED

(* After Teardown: a step that touches neither table nor objects.          *)
LEMMA DeadStep ==
  ASSUME Socks5Inv, ~Running, ~Running', LoopOK', NotifyOK', OrphansLeaked',
         UNCHANGED <<sel, mem, pool, pool_size, buffer_size, current, open>>,
         conn' \in [Conns -> ConnOK],
         link' \in [Conns -> {"none", "connecting", "up", "failed"}],
         sigcount' \in 0 .. MaxSignals, io_buffer_size' \in BufferSizes
  PROVE  Socks5Inv'
<1>1. GoodTable(sel) /\ ObjectsOK /\ sel = EmptyTable /\ open = {}
  BY DEF Socks5Inv
<1>2. ObjectsOK'
  BY <1>1 DEF ObjectsOK, PoolMatches, BuffersMatch
<1> QED
  BY <1>1, <1>2 DEF Socks5Inv, GoodTable, Table, HasHighestFd, Used, ITEM_USED,
     EmptyTable, FD_UNUSED

(* A step that moves only the selector thread, outside its iterations, or  *)
(* counts a signal.                                                        *)
LEMMA PlainStep ==
  ASSUME Socks5Inv,
         pc # "jobs" \/ pc' = pc, pc = "iterate" => pc' = pc, pc' # "jobs" \/ pc' = pc,
         pc' \in {"loop", "pselect", "iterate", "notify", "jobs", "teardown",
                  "destroyed", "exited"},
         Running' <=> Running,
         link' \in [Conns -> {"none", "connecting", "up", "failed"}],
         sigcount' \in 0 .. MaxSignals, io_buffer_size' \in BufferSizes,
         UNCHANGED <<sel, slave_r, slave_w, cursor, limit, key, jobs, walk, mutex,
                     workVars, conn, mem, pool, pool_size,
                     buffer_size, current, open, wconn, shutting_down>>
  PROVE  Socks5Inv'
<1>1. GoodTable(sel) /\ LoopOK /\ NotifyOK /\ ObjectsOK
  BY DEF Socks5Inv
<1>2. LoopOK'
  BY <1>1 DEF LoopOK, KeyMatches
<1>3. NotifyOK'
  BY <1>1 DEF NotifyOK, workVars
<1>4. CASE Running
  <2>1. SameLive /\ Unserved' = Unserved /\ ResolversOK
    BY <1>4 DEF SameLive, Socks5Inv, TableOK, Unserved
  <2>2. ResolversOK'
    BY <2>1, ResolversKept
  <2> QED
    BY <1>2, <1>3, <1>4, <2>2, LoopStep
<1>5. CASE ~Running
  <2>1. OrphansLeaked
    BY <1>5 DEF Socks5Inv
  <2>2. OrphansLeaked'
    BY <2>1 DEF OrphansLeaked, workVars
  <2>3. conn' \in [Conns -> ConnOK]
    BY <1>1 DEF ObjectsOK
  <2> QED
    BY <1>2, <1>3, <1>5, <2>2, <2>3, DeadStep
<1> QED
  BY <1>4, <1>5

LEMMA MainInv ==
  ASSUME Socks5Inv, Main
  PROVE  Socks5Inv'
<1>1. ObjectsOK
  BY DEF Socks5Inv
<1>2. CASE MainIterates
  <2>1. /\ pc = "loop" /\ pc' = "pselect"
        /\ UNCHANGED <<sel, slave_r, slave_w, cursor, limit, key, jobs, walk, mutex,
                       workVars, conn, mem, pool, pool_size,
                       buffer_size, current, open, wconn, link,
                       shutting_down, sigcount, io_buffer_size>>
    BY <1>2 DEF MainIterates, EnterPselect, notifyVars, proxyVars, objVars, poolVars,
       mainVars, config
  <2>2. Running /\ Running'
    BY <2>1 DEF Running
  <2> QED
    BY <1>1, <2>1, <2>2, PlainStep DEF ObjectsOK
<1>3. CASE StopAccepting
  BY <1>3, StopAcceptingInv
<1>4. CASE LeaveLoop
  <2>1. /\ pc = "loop" /\ pc' = "teardown"
        /\ UNCHANGED <<sel, slave_r, slave_w, cursor, limit, key, jobs, walk, mutex,
                       workVars, conn, mem, pool, pool_size,
                       buffer_size, current, open, wconn, link,
                       shutting_down, sigcount, io_buffer_size>>
    BY <1>4 DEF LeaveLoop, loopVars, notifyVars, proxyVars, objVars, poolVars,
       mainVars, config
  <2>2. Running /\ Running'
    BY <2>1 DEF Running
  <2> QED
    BY <1>1, <2>1, <2>2, PlainStep DEF ObjectsOK
<1>5. CASE Teardown
  BY <1>5, TeardownInv
<1>6. CASE Exit
  <2>1. /\ pc = "destroyed" /\ pc' = "exited"
        /\ UNCHANGED <<sel, slave_r, slave_w, cursor, limit, key, jobs, walk, mutex,
                       workVars, conn, mem, pool, pool_size,
                       buffer_size, current, open, wconn, link,
                       shutting_down, sigcount, io_buffer_size>>
    BY <1>6 DEF Exit, loopVars, notifyVars, proxyVars, objVars, poolVars, mainVars,
       config
  <2>2. ~Running /\ ~Running'
    BY <2>1 DEF Running
  <2> QED
    BY <1>1, <2>1, <2>2, PlainStep DEF ObjectsOK
<1> QED
  BY <1>2, <1>3, <1>4, <1>5, <1>6 DEF Main

LEMMA SignalInv ==
  ASSUME Socks5Inv, on_signal
  PROVE  Socks5Inv'
<1>1. /\ pc' = pc \/ (pc = "pselect" /\ pc' = "notify")
      /\ sigcount < MaxSignals /\ sigcount' = sigcount + 1
      /\ UNCHANGED <<sel, slave_r, slave_w, cursor, limit, key, jobs, walk, mutex,
                     workVars, conn, mem, pool, pool_size,
                     buffer_size, current, open, wconn, link,
                     shutting_down, io_buffer_size>>
  BY DEF on_signal, loopVars, notifyVars, objVars, poolVars, config
<1>2. ObjectsOK /\ LoopOK
  BY DEF Socks5Inv
<1>3. sigcount' \in 0 .. MaxSignals
  BY <1>1, <1>2, Socks5Assumption DEF ObjectsOK
<1>4. Running' <=> Running
  BY <1>1 DEF Running
<1> QED
  BY <1>1, <1>2, <1>3, <1>4, PlainStep DEF ObjectsOK, LoopOK

LEMMA SetConfigInv ==
  ASSUME Socks5Inv, SetConfig
  PROVE  Socks5Inv'
<1>1. UNCHANGED <<pc, sel, slave_r, slave_w, cursor, limit, key, jobs, walk, mutex,
                  workVars, conn, mem, pool, pool_size,
                  buffer_size, current, open, wconn, link, shutting_down, sigcount>>
  BY DEF SetConfig, vars, workVars, objVars, poolVars
<1>2. ObjectsOK /\ LoopOK
  BY DEF Socks5Inv
<1>3. io_buffer_size' \in BufferSizes
  BY <1>2 DEF SetConfig, ObjectsOK
<1>4. Running' <=> Running
  BY <1>1 DEF Running
<1> QED
  BY <1>1, <1>2, <1>3, <1>4, PlainStep DEF ObjectsOK, LoopOK

LEMMA ConnectCompletesInv ==
  ASSUME Socks5Inv, NEW c \in Conns, ConnectCompletes(c)
  PROVE  Socks5Inv'
<1>1. /\ \/ link' = [link EXCEPT ![c] = "up"]
         \/ link' = [link EXCEPT ![c] = "failed"]
      /\ UNCHANGED <<pc, sel, slave_r, slave_w, cursor, limit, key, jobs, walk, mutex,
                     workVars, conn, mem, pool, pool_size,
                     buffer_size, current, open, wconn, sigcount,
                     shutting_down, io_buffer_size>>
  BY DEF ConnectCompletes, vars, workVars, objVars, poolVars, mainVars, config
<1>2. ObjectsOK /\ LoopOK
  BY DEF Socks5Inv
<1>3. link' \in [Conns -> {"none", "connecting", "up", "failed"}]
  BY <1>1, <1>2 DEF ObjectsOK
<1>4. Running' <=> Running
  BY <1>1 DEF Running
<1> QED
  BY <1>1, <1>2, <1>3, <1>4, PlainStep DEF ObjectsOK, LoopOK

-----------------------------------------------------------------------------
(* The resolver threads.                                                   *)

\* A result stored in a connection: nothing but the result changes.
LEMMA ResultStored ==
  ASSUME NEW r \in ConnOK, NEW outcome \in {"found", "failed"}
  PROVE  LET q == [r EXCEPT !.dns = outcome]
         IN  /\ q \in ConnOK /\ q.st = r.st /\ q.client_fd = r.client_fd
             /\ q.resolving = r.resolving /\ q.dns = outcome
             /\ Fds(q) = Fds(r)
             /\ \A c, fd : Entry(c, q, fd) = Entry(c, r, fd)
             /\ GoodConn(r) => GoodConn(q)
<1> DEFINE q == [r EXCEPT !.dns = outcome]
<1>1. q \in ConnOK
  BY DEF ConnOK
<1>2. /\ q.st = r.st /\ q.client_fd = r.client_fd /\ q.origin_fd = r.origin_fd
      /\ q.references = r.references /\ q.reply = r.reply /\ q.left = r.left
      /\ q.resolving = r.resolving /\ q.dns = outcome
      /\ q.client_eof = r.client_eof /\ q.origin_eof = r.origin_eof
      /\ q.read_buffer = r.read_buffer /\ q.write_buffer = r.write_buffer
  BY DEF ConnOK
<1> HIDE DEF q
<1>3. Fds(q) = Fds(r)
  BY <1>2 DEF Fds
<1>4. ClientInterest(q) = ClientInterest(r) /\ OriginInterest(q) = OriginInterest(r)
  BY <1>2 DEF ClientInterest, OriginInterest
<1>5. \A c, fd : Entry(c, q, fd) = Entry(c, r, fd)
  BY <1>2, <1>4 DEF Entry
<1>6. GoodConn(r) => GoodConn(q)
  BY <1>1, <1>2 DEF GoodConn, BothDone
<1> QED
  BY <1>1, <1>2, <1>3, <1>5, <1>6 DEF q

LEMMA ThreadResolvesInv ==
  ASSUME Socks5Inv, NEW w \in Workers, dns_thread_resolves(w)
  PROVE  Socks5Inv'
<1>1. /\ wpc[w] = "work" /\ wpc' = [wpc EXCEPT ![w] = "notify"]
      /\ UNCHANGED <<sel, slave_r, slave_w, cursor, limit, key, pc, jobs, walk, mutex,
                     wfd, mem, pool, pool_size,
                     buffer_size, current, open, wconn, link, sigcount,
                     shutting_down, io_buffer_size>>
  BY DEF dns_thread_resolves, JobFinishes, loopVars, notifyVars, objVars, poolVars,
     mainVars, config
<1>2. PICK outcome \in {"found", "failed"} :
        conn' = [conn EXCEPT ![wconn[w]].dns = outcome]
  BY DEF dns_thread_resolves
<1>3. /\ GoodTable(sel) /\ LoopOK /\ NotifyOK /\ ObjectsOK
      /\ conn \in [Conns -> ConnOK]
      /\ wpc \in [Workers -> {"idle", "work", "notify", "kill"}]
  BY DEF Socks5Inv, ObjectsOK, NotifyOK
<1>4. wconn[w] \in Conns
  BY <1>1 DEF Socks5Inv, ResolversOK, ThreadsServe, Asking, OrphansLeaked
<1> DEFINE c == wconn[w]
           q == [conn[c] EXCEPT !.dns = outcome]
<1>5. conn'[c] = q /\ \A d \in Conns : d # c => conn'[d] = conn[d]
  BY <1>2, <1>3, <1>4
<1>6. /\ q \in ConnOK /\ q.st = conn[c].st /\ q.client_fd = conn[c].client_fd
      /\ q.resolving = conn[c].resolving /\ q.dns # "none"
      /\ Fds(q) = Fds(conn[c])
      /\ \A d, fd : Entry(d, q, fd) = Entry(d, conn[c], fd)
      /\ GoodConn(conn[c]) => GoodConn(q)
  <2> DEFINE r == conn[c]
  <2>1. r \in ConnOK
    BY <1>3, <1>4
  <2> HIDE DEF r
  <2> QED
    BY <2>1, ResultStored DEF r
<1>7. conn' = [conn EXCEPT ![c] = q]
  BY <1>2, <1>3, <1>4
<1> HIDE DEF q, c
<1>8. conn' \in [Conns -> ConnOK]
  BY <1>3, <1>4, <1>6, <1>7 DEF c
<1>9. LoopOK'
  BY <1>1, <1>3 DEF LoopOK, KeyMatches
<1>10. NotifyOK'
  BY <1>1, <1>3 DEF NotifyOK
<1>11. /\ wpc'[w] = "notify" /\ \A v \in Workers : v # w => wpc'[v] = wpc[v]
       /\ \A v \in Workers : Asking(v)' <=> Asking(v)
  BY <1>1, <1>3 DEF Asking
<1>12. CASE ~Running
  <2>1. OrphansLeaked
    BY <1>12 DEF Socks5Inv
  <2>2. \A v \in Workers : wpc'[v] = "work" => wpc[v] = "work"
    BY <1>11
  <2>3. \A d \in Conns : conn'[d].resolving = conn[d].resolving
    BY <1>5, <1>6
  <2>4. OrphansLeaked'
    BY <1>1, <2>1, <2>2, <2>3 DEF OrphansLeaked
  <2>5. ~Running'
    BY <1>1, <1>12 DEF Running
  <2> QED
    BY <1>1, <1>3, <1>8, <1>9, <1>10, <1>12, <2>4, <2>5, DeadStep DEF ObjectsOK
<1>13. CASE Running
  <2>1. TableOK /\ ResolversOK /\ Running'
    BY <1>1, <1>13 DEF Socks5Inv, Running
  <2>2. /\ \A d \in Conns : /\ Fds(conn'[d]) = Fds(conn[d])
                            /\ conn'[d].st = conn[d].st
                            /\ conn'[d].client_fd = conn[d].client_fd
                            /\ conn[d].dns # "none" => conn'[d].dns # "none"
                            /\ GoodConn(conn[d]) => GoodConn(conn'[d])
                            /\ \A fd : Entry(d, conn'[d], fd) = Entry(d, conn[d], fd)
    BY <1>5, <1>6
  <2>3. ConnsMatch'
    <3> SUFFICES ASSUME NEW d \in Conns, mem[d] = "live"
                 PROVE  /\ GoodConn(conn'[d])
                        /\ \A fd \in Fds(conn'[d]) : sel.item[fd].data = d
      BY <1>1 DEF ConnsMatch, GoodConn, Fds, ConnOK, BothDone
    <3> QED
      BY <2>1, <2>2 DEF TableOK, ConnsMatch
  <2>4. TableMatches'
    <3> SUFFICES ASSUME NEW fd \in FD
                 PROVE  \/ sel.item[fd] = FD_UNUSED
                        \/ sel.item[fd] = ListenerEntry
                        \/ \E d \in Conns : /\ mem[d] = "live" /\ fd \in Fds(conn'[d])
                                            /\ sel.item[fd] = Entry(d, conn'[d], fd)
      BY <1>1 DEF TableMatches
    <3>1. ASSUME NEW d \in Conns, mem[d] = "live", fd \in Fds(conn[d]),
                 sel.item[fd] = Entry(d, conn[d], fd)
          PROVE  fd \in Fds(conn'[d]) /\ sel.item[fd] = Entry(d, conn'[d], fd)
      BY <2>2, <3>1
    <3> QED
      BY <2>1, <3>1 DEF TableOK, TableMatches
  <2>5. Live' = Live
    BY <1>1 DEF Live
  <2>6. TableOK'
    BY <1>1, <2>1, <2>3, <2>4, <2>5 DEF TableOK, ListenerThere, Used, ITEM_USED
  <2>7. Unserved' = Unserved
    BY <1>1 DEF Unserved
  <2>8. ThreadsServe'
    <3> SUFFICES ASSUME NEW v \in Workers, Asking(v)
                 PROVE  /\ wconn[v] \in Conns /\ mem[wconn[v]] = "live"
                        /\ conn'[wconn[v]].st = "REQUEST_RESOLV"
                        /\ conn'[wconn[v]].client_fd = wfd[v]
                        /\ wpc'[v] = "notify" => conn'[wconn[v]].dns # "none"
                        /\ \A u \in Workers : Asking(u) /\ wconn[u] = wconn[v] => u = v
                        /\ \A n \in DOMAIN Unserved : Unserved[n] # wfd[v]
      BY <1>1, <1>11, <2>7 DEF ThreadsServe
    <3>1. wpc'[v] = "notify" => conn'[wconn[v]].dns # "none"
      BY <1>5, <1>6, <1>11, <2>1, <2>2 DEF ResolversOK, ThreadsServe, c
    <3> QED
      BY <2>1, <2>2, <3>1 DEF ResolversOK, ThreadsServe
  <2>9. JobsServe'
    BY <1>1, <2>1, <2>2, <2>7 DEF ResolversOK, JobsServe
  <2>10. ResolutionsGoOn'
    BY <1>1, <1>11, <2>1, <2>2, <2>7 DEF ResolversOK, ResolutionsGoOn
  <2>11. ObjectsOK'
    BY <1>1, <1>3, <1>8 DEF ObjectsOK, PoolMatches, BuffersMatch
  <2> QED
    BY <1>1, <1>3, <1>9, <1>10, <2>1, <2>6, <2>8, <2>9, <2>10, <2>11
    DEF Socks5Inv, ResolversOK, GoodTable, Table, HasHighestFd, Used, ITEM_USED
<1> QED
  BY <1>12, <1>13

(* A thread ends that has queued its job, or could not for lack of memory. *)
LEMMA ThreadEndsInv ==
  ASSUME Socks5Inv, NEW w \in Workers, wpc[w] = "kill" \/ MallocMayFail,
         wpc[w] # "work", ThreadEnds(w), wconn' = [wconn EXCEPT ![w] = NoData],
         UNCHANGED <<sel, slave_r, slave_w, cursor, limit, key, pc, jobs, walk, mutex,
                     conn, mem, pool, pool_size,
                     buffer_size, current, open, link, sigcount, shutting_down, io_buffer_size>>
  PROVE  Socks5Inv'
<1>1. /\ LoopOK /\ NotifyOK /\ ObjectsOK /\ conn \in [Conns -> ConnOK]
      /\ wpc \in [Workers -> {"idle", "work", "notify", "kill"}]
      /\ wfd \in [Workers -> FD] /\ wconn \in [Workers -> Conns \cup {NoData}]
  BY DEF Socks5Inv, NotifyOK, ObjectsOK
<1>2. /\ wpc'[w] = "idle"
      /\ wpc' \in [Workers -> {"idle", "work", "notify", "kill"}]
      /\ wfd' \in [Workers -> FD] /\ wconn' \in [Workers -> Conns \cup {NoData}]
      /\ \A v \in Workers : v # w => wpc'[v] = wpc[v] /\ wfd'[v] = wfd[v]
                                     /\ wconn'[v] = wconn[v]
  <2>1. 0 \in FD
    BY SelectorAssumption DEF FD
  <2> QED
    BY <1>1, <2>1 DEF ThreadEnds
<1>3. \A v \in Workers : Asking(v)' <=> v # w /\ Asking(v)
  BY <1>2 DEF Asking
<1>4. LoopOK'
  BY <1>1 DEF LoopOK, KeyMatches
<1>5. NotifyOK'
  BY <1>1, <1>2 DEF NotifyOK
<1>6. Unserved' = Unserved /\ (Running' <=> Running)
  BY DEF Unserved, Running
<1>7. CASE Running
  <2>1. ResolversOK
    BY <1>7 DEF Socks5Inv
  <2>2. ThreadsServe'
    <3> SUFFICES ASSUME NEW v \in Workers, Asking(v), v # w
                 PROVE  /\ wconn[v] \in Conns /\ mem[wconn[v]] = "live"
                        /\ conn[wconn[v]].st = "REQUEST_RESOLV"
                        /\ conn[wconn[v]].client_fd = wfd[v]
                        /\ wpc[v] = "notify" => conn[wconn[v]].dns # "none"
                        /\ \A u \in Workers : Asking(u) /\ u # w
                                              /\ wconn[u] = wconn[v] => u = v
                        /\ \A n \in DOMAIN Unserved : Unserved[n] # wfd[v]
      BY <1>2, <1>3, <1>6 DEF ThreadsServe
    <3> QED
      BY <2>1 DEF ResolversOK, ThreadsServe
  <2>3. JobsServe'
    BY <1>6, <2>1 DEF ResolversOK, JobsServe
  <2>4. ResolutionsGoOn'
    <3> SUFFICES ASSUME ~MallocMayFail, NEW d \in Conns, mem[d] = "live",
                        conn[d].st = "REQUEST_RESOLV"
                 PROVE  \/ \E v \in Workers : Asking(v)' /\ wconn'[v] = d
                        \/ \E n \in DOMAIN Unserved : Unserved[n] = conn[d].client_fd
      BY <1>6 DEF ResolutionsGoOn
    <3>1. ~Asking(w)
      BY DEF Asking
    <3> QED
      BY <1>2, <1>3, <2>1, <3>1 DEF ResolversOK, ResolutionsGoOn
  <2>5. ResolversOK'
    BY <2>2, <2>3, <2>4 DEF ResolversOK
  <2> QED
    BY <1>1, <1>4, <1>5, <1>6, <1>7, <2>5, LoopStep DEF ObjectsOK
<1>8. CASE ~Running
  <2>1. OrphansLeaked
    BY <1>8 DEF Socks5Inv
  <2>2. OrphansLeaked'
    <3> SUFFICES ASSUME NEW v \in Workers, wpc'[v] = "work"
                 PROVE  /\ wconn'[v] \in Conns /\ mem[wconn'[v]] = "leaked"
                        /\ conn[wconn'[v]].resolving
                        /\ \A u \in Workers :
                             wpc'[u] = "work" /\ wconn'[u] = wconn'[v] => u = v
      BY DEF OrphansLeaked
    <3>1. v # w /\ wpc[v] = "work" /\ wconn'[v] = wconn[v]
      BY <1>2
    <3> QED
      BY <1>2, <2>1, <3>1 DEF OrphansLeaked
  <2> QED
    BY <1>1, <1>4, <1>5, <1>6, <1>8, <2>2, DeadStep DEF ObjectsOK
<1> QED
  BY <1>7, <1>8

(* A job is queued: it is the only one of its connection.                  *)
LEMMA QueueInv ==
  ASSUME Socks5Inv, NEW w \in Workers, selector_notify_block_queue(w),
         UNCHANGED <<wconn, conn, mem, pool, pool_size,
                     buffer_size, current, open, link, sigcount,
                     shutting_down, io_buffer_size>>
  PROVE  Socks5Inv'
<1>1. /\ wpc[w] = "notify" /\ ~mutex /\ jobs' = <<wfd[w]>> \o jobs
      /\ wpc' = [wpc EXCEPT ![w] = "kill"]
      /\ UNCHANGED <<sel, slave_r, slave_w, cursor, limit, key, pc, walk, mutex, wfd>>
  BY DEF selector_notify_block_queue, loopVars
<1>2. /\ LoopOK /\ NotifyOK /\ ObjectsOK /\ conn \in [Conns -> ConnOK]
      /\ wpc \in [Workers -> {"idle", "work", "notify", "kill"}]
      /\ wfd \in [Workers -> FD] /\ jobs \in Seq(FD) /\ pc # "jobs"
  BY <1>1 DEF Socks5Inv, NotifyOK, ObjectsOK
<1>3. /\ wpc'[w] = "kill" /\ \A v \in Workers : v # w => wpc'[v] = wpc[v]
      /\ wpc' \in [Workers -> {"idle", "work", "notify", "kill"}]
  BY <1>1, <1>2
<1>4. \A v \in Workers : Asking(v)' <=> v # w /\ Asking(v)
  BY <1>3 DEF Asking
<1>5. /\ jobs' \in Seq(FD) /\ 1 \in DOMAIN jobs' /\ jobs'[1] = wfd[w]
      /\ \A n \in DOMAIN jobs : n + 1 \in DOMAIN jobs' /\ jobs'[n + 1] = jobs[n]
      /\ \A n \in DOMAIN jobs' : n = 1 \/ (n - 1 \in DOMAIN jobs
                                           /\ jobs'[n] = jobs[n - 1])
  <2>1. wfd[w] \in FD
    BY <1>2
  <2>2. /\ jobs' \in Seq(FD) /\ Len(jobs') = Len(jobs) + 1 /\ jobs'[1] = wfd[w]
        /\ \A n \in DOMAIN jobs : n + 1 \in DOMAIN jobs' /\ jobs'[n + 1] = jobs[n]
        /\ \A n \in DOMAIN jobs' : n = 1 \/ (n - 1 \in DOMAIN jobs
                                             /\ jobs'[n] = jobs[n - 1])
    BY <1>1, <1>2, <2>1, Prepended
  <2> QED
    BY <1>2, <2>2
<1>6. LoopOK'
  BY <1>1, <1>2 DEF LoopOK, KeyMatches
<1>7. NotifyOK'
  BY <1>1, <1>2, <1>3, <1>5 DEF NotifyOK
<1>8. Unserved = jobs /\ Unserved' = jobs' /\ (Running' <=> Running)
  BY <1>1, <1>2 DEF Unserved, Running
<1>9. CASE Running
  <2>1. ResolversOK /\ TableOK /\ Asking(w)
    BY <1>1, <1>9 DEF Socks5Inv, Asking
  <2> DEFINE c == wconn[w]
  <2>2. /\ c \in Conns /\ mem[c] = "live" /\ conn[c].st = "REQUEST_RESOLV"
        /\ conn[c].client_fd = wfd[w] /\ conn[c].dns # "none"
        /\ \A v \in Workers : Asking(v) /\ wconn[v] = c => v = w
        /\ \A n \in DOMAIN jobs : jobs[n] # wfd[w]
    BY <1>1, <1>8, <2>1 DEF ResolversOK, ThreadsServe
  <2>3. ASSUME NEW d \in Conns, mem[d] = "live", d # c
        PROVE  conn[d].client_fd # wfd[w]
    <3>1. Fds(conn[d]) \cap Fds(conn[c]) = {}
      BY <2>1, <2>2, <2>3, FdsAreDisjoint
    <3>2. conn[d].client_fd \in Fds(conn[d]) /\ conn[c].client_fd \in Fds(conn[c])
      BY <2>1, <2>2, <2>3, FdsAreDescriptors DEF TableOK, ConnsMatch
    <3> QED
      BY <2>2, <3>1, <3>2
  <2> HIDE DEF c
  <2>4. ThreadsServe'
    <3> SUFFICES ASSUME NEW v \in Workers, Asking(v), v # w
                 PROVE  /\ wconn[v] \in Conns /\ mem[wconn[v]] = "live"
                        /\ conn[wconn[v]].st = "REQUEST_RESOLV"
                        /\ conn[wconn[v]].client_fd = wfd[v]
                        /\ wpc[v] = "notify" => conn[wconn[v]].dns # "none"
                        /\ \A u \in Workers : Asking(u) /\ u # w
                                              /\ wconn[u] = wconn[v] => u = v
                        /\ \A n \in DOMAIN jobs' : jobs'[n] # wfd[v]
      BY <1>1, <1>3, <1>4, <1>8 DEF ThreadsServe
    <3>1. /\ wconn[v] \in Conns /\ mem[wconn[v]] = "live"
          /\ conn[wconn[v]].client_fd = wfd[v]
          /\ \A n \in DOMAIN jobs : jobs[n] # wfd[v]
      BY <1>8, <2>1 DEF ResolversOK, ThreadsServe
    <3>2. wfd[v] # wfd[w]
      BY <2>2, <2>3, <3>1
    <3>3. \A n \in DOMAIN jobs' : jobs'[n] # wfd[v]
      BY <1>5, <3>1, <3>2
    <3> QED
      BY <2>1, <3>1, <3>3 DEF ResolversOK, ThreadsServe
  <2>5. JobsServe'
    <3>1. ASSUME NEW n \in DOMAIN jobs'
          PROVE  \E d \in Conns : /\ mem[d] = "live" /\ conn[d].st = "REQUEST_RESOLV"
                                  /\ conn[d].client_fd = jobs'[n] /\ conn[d].dns # "none"
      <4>1. CASE n = 1
        BY <1>5, <2>2, <4>1
      <4>2. CASE n # 1
        BY <1>5, <1>8, <2>1, <4>2 DEF ResolversOK, JobsServe
      <4> QED
        BY <4>1, <4>2
    <3>2. ASSUME NEW m \in DOMAIN jobs', NEW n \in DOMAIN jobs', jobs'[m] = jobs'[n]
          PROVE  m = n
      <4>1. m \in Int /\ n \in Int
        BY <1>5
      <4>2. CASE m = 1 \/ n = 1
        BY <1>5, <2>2, <3>2, <4>2
      <4>3. CASE m # 1 /\ n # 1
        <5>1. m - 1 = n - 1
          BY <1>5, <1>8, <2>1, <3>2, <4>3 DEF ResolversOK, JobsServe
        <5> QED
          BY <4>1, <5>1
      <4> QED
        BY <4>2, <4>3
    <3> QED
      BY <1>8, <3>1, <3>2 DEF JobsServe
  <2>6. ResolutionsGoOn'
    <3> SUFFICES ASSUME ~MallocMayFail, NEW d \in Conns, mem[d] = "live",
                        conn[d].st = "REQUEST_RESOLV"
                 PROVE  \/ \E v \in Workers : Asking(v)' /\ wconn[v] = d
                        \/ \E n \in DOMAIN jobs' : jobs'[n] = conn[d].client_fd
      BY <1>8 DEF ResolutionsGoOn
    <3>1. CASE d = c
      BY <1>5, <2>2, <3>1
    <3>2. CASE d # c
      <4>1. \/ \E v \in Workers : Asking(v) /\ wconn[v] = d
            \/ \E n \in DOMAIN jobs : jobs[n] = conn[d].client_fd
        BY <1>8, <2>1 DEF ResolversOK, ResolutionsGoOn
      <4>2. ASSUME NEW n \in DOMAIN jobs, jobs[n] = conn[d].client_fd
            PROVE  \E m \in DOMAIN jobs' : jobs'[m] = conn[d].client_fd
        BY <1>5, <4>2
      <4> QED
        BY <1>4, <3>2, <4>1, <4>2 DEF c
    <3> QED
      BY <3>1, <3>2
  <2>7. ResolversOK'
    BY <2>4, <2>5, <2>6 DEF ResolversOK
  <2> QED
    BY <1>1, <1>2, <1>6, <1>7, <1>8, <1>9, <2>7, LoopStep DEF ObjectsOK
<1>10. CASE ~Running
  <2>1. OrphansLeaked
    BY <1>10 DEF Socks5Inv
  <2>2. \A v \in Workers : wpc'[v] = "work" <=> wpc[v] = "work"
    BY <1>1, <1>3
  <2>3. OrphansLeaked'
    BY <2>1, <2>2 DEF OrphansLeaked
  <2> QED
    BY <1>1, <1>2, <1>6, <1>7, <1>8, <1>10, <2>3, DeadStep DEF ObjectsOK
<1> QED
  BY <1>9, <1>10

LEMMA ThreadInv ==
  ASSUME Socks5Inv, NEW w \in Workers, DnsThread(w) \/ dns_thread_enomem(w)
  PROVE  Socks5Inv'
<1>1. CASE dns_thread_resolves(w)
  BY <1>1, ThreadResolvesInv
<1>2. CASE dns_thread_notifies(w)
  <2>1. UNCHANGED <<conn, mem, pool, pool_size,
                    buffer_size, current, open, link, sigcount, shutting_down, io_buffer_size>>
    BY <1>2 DEF dns_thread_notifies, objVars, poolVars, mainVars, config
  <2>2. CASE selector_notify_block_queue(w) /\ UNCHANGED wconn
    BY <2>1, <2>2, QueueInv
  <2>3. CASE selector_notify_block_kill(w) /\ wconn' = [wconn EXCEPT ![w] = NoData]
    <3>1. /\ wpc[w] = "kill" /\ ThreadEnds(w)
          /\ UNCHANGED <<sel, slave_r, slave_w, cursor, limit, key, pc, jobs, walk, mutex>>
      BY <2>3 DEF selector_notify_block_kill, loopVars
    <3> QED
      BY <2>1, <2>3, <3>1, ThreadEndsInv
  <2> QED
    BY <1>2, <2>2, <2>3 DEF dns_thread_notifies
<1>3. CASE dns_thread_enomem(w)
  <2>1. /\ wpc[w] = "notify" /\ ThreadEnds(w) /\ MallocMayFail
        /\ wconn' = [wconn EXCEPT ![w] = NoData]
        /\ UNCHANGED <<sel, slave_r, slave_w, cursor, limit, key, pc, jobs, walk, mutex,
                       conn, mem, pool, pool_size,
                       buffer_size, current, open, link, sigcount, shutting_down, io_buffer_size>>
    BY <1>3 DEF dns_thread_enomem, selector_notify_block_enomem, loopVars, notifyVars,
                objVars, poolVars, mainVars, config
  <2> QED
    BY <2>1, ThreadEndsInv
<1> QED
  BY <1>1, <1>2, <1>3 DEF DnsThread

-----------------------------------------------------------------------------
(* The invariant holds initially and is preserved.                         *)

LEMMA InitialTable ==
  ASSUME sel = selector_register(EmptyTable, ListenFd, {"OP_READ"}, Listener)
  PROVE  /\ GoodTable(sel)
         /\ \A fd \in FD : sel.item[fd] = IF fd = ListenFd THEN ListenerEntry ELSE FD_UNUSED
<1> DEFINE in == {"OP_READ"}
<1>1. in \in Interest /\ Listener \in Data /\ ListenFd \in FD
  BY Socks5Assumption, NoFdIsNone DEF Interest
<1>2. sel = selector_register(EmptyTable, ListenFd, in, Listener)
      /\ ListenerEntry = [interest |-> in, data |-> Listener]
  BY DEF ListenerEntry
<1> HIDE DEF in
<1>3. /\ GoodTable(sel)
      /\ \A g \in FD : sel.item[g] = IF g = ListenFd THEN ListenerEntry
                                                     ELSE EmptyTable.item[g]
  BY <1>1, <1>2, EmptyTableGood, RegisterItem
<1>4. \A g \in FD : EmptyTable.item[g] = FD_UNUSED
  BY DEF EmptyTable
<1> QED
  BY <1>3, <1>4

LEMMA InitSocks5Inv == Socks5Init => Socks5Inv
<1> SUFFICES ASSUME Socks5Init PROVE Socks5Inv
  OBVIOUS
<1>1. /\ sel = selector_register(EmptyTable, ListenFd, {"OP_READ"}, Listener)
      /\ slave_r = {} /\ slave_w = {} /\ pc = "pselect"
      /\ cursor = 0 /\ limit = 0 /\ key = NoData /\ jobs = <<>> /\ walk = <<>>
      /\ mutex = FALSE /\ wpc = [w \in Workers |-> "idle"] /\ wfd = [w \in Workers |-> 0]
      /\ conn = [c \in Conns |-> ZeroedConn] /\ mem = [c \in Conns |-> "free"]
      /\ pool = <<>> /\ pool_size = 0 /\ buffer_size = [c \in Conns |-> NoSize]
      /\ io_buffer_size \in BufferSizes
      /\ open = {ListenFd} /\ link = [c \in Conns |-> "none"]
      /\ wconn = [w \in Workers |-> NoData] /\ current = 0 /\ sigcount = 0
      /\ shutting_down = FALSE
  BY DEF Socks5Init, selector_new
<1>2. /\ GoodTable(sel)
      /\ \A fd \in FD : sel.item[fd] = IF fd = ListenFd THEN ListenerEntry ELSE FD_UNUSED
  BY <1>1, InitialTable
<1>3. 0 \in FD /\ 0 \in 0 .. ITEMS_MAX_SIZE /\ ListenFd \in FD
  BY SelectorAssumption, NoFdIsNone DEF FD
<1>4. LoopOK
  BY <1>1, <1>3 DEF LoopOK, KeyMatches
<1>5. NotifyOK
  BY <1>1, <1>3 DEF NotifyOK
<1>6. \A c \in Conns : mem[c] = "free"
  BY <1>1
<1>7. ObjectsOK
  <2>1. ZeroedConn \in ConnOK
    <3>1. "HELLO_READ" \in State /\ "SUCCESS" \in Reply /\ "empty" \in Buffer
      BY DEF State, Reply, Buffer
    <3>2. 0 \in 0 .. MAX_ADDRS
      BY Socks5Assumption
    <3> QED
      BY <3>1, <3>2 DEF ConnOK, ZeroedConn
  <2>2. 0 \in 0 .. Cardinality(Conns) /\ 0 <= MAX_POOL /\ 0 \in 0 .. MaxSignals
    BY Socks5Assumption, FS_CardinalityType
  <2>3. PoolMatches
    BY <1>1, <1>6, <2>2 DEF PoolMatches
  <2>4. BuffersMatch
    BY <1>1, <1>6, Socks5Assumption DEF BuffersMatch
  <2> QED
    BY <1>1, <2>1, <2>2, <2>3, <2>4 DEF ObjectsOK
<1>8. TableOK
  <2>1. Listener # NoData
    BY SelectorAssumption, Socks5Assumption
  <2>2. open = Used(sel)
    BY <1>1, <1>2, <1>3, <2>1 DEF Used, ITEM_USED, ListenerEntry, FD_UNUSED
  <2>3. current = Cardinality(Live)
    <3>1. Live = {}
      BY <1>6 DEF Live
    <3> QED
      BY <1>1, <3>1, FS_EmptySet
  <2>4. TableMatches /\ ConnsMatch /\ ListenerThere
    BY <1>2, <1>3, <1>6 DEF TableMatches, ConnsMatch, ListenerThere
  <2> QED
    BY <1>6, <2>2, <2>3, <2>4 DEF TableOK
<1>9. ResolversOK
  <2>1. Unserved = <<>> /\ \A w \in Workers : ~Asking(w)
    BY <1>1 DEF Unserved, Asking
  <2> QED
    BY <1>6, <2>1 DEF ResolversOK, ThreadsServe, JobsServe, ResolutionsGoOn
<1> QED
  BY <1>1, <1>2, <1>4, <1>5, <1>7, <1>8, <1>9 DEF Socks5Inv, Running

LEMMA StutterInv ==
  ASSUME Socks5Inv, UNCHANGED allVars
  PROVE  Socks5Inv'
<1>1. LoopOK
  BY DEF Socks5Inv
<1>2. ObjectsOK
  BY DEF Socks5Inv
<1>3. UNCHANGED <<sel, slave_r, slave_w, cursor, limit, key, pc, jobs, walk, mutex,
                  workVars, conn, mem, pool, pool_size,
                  buffer_size, current, open, wconn, link,
                  shutting_down, sigcount, io_buffer_size>>
  BY DEF allVars, vars, workVars
<1>4. Running' <=> Running
  BY <1>3 DEF Running
<1> QED
  BY <1>1, <1>2, <1>3, <1>4, PlainStep DEF ObjectsOK, LoopOK

LEMMA NextSocks5Inv == Socks5Inv /\ [Socks5Next]_allVars => Socks5Inv'
<1> SUFFICES ASSUME Socks5Inv, [Socks5Next]_allVars PROVE Socks5Inv'
  OBVIOUS
<1>1. CASE SelectorLoop
  BY <1>1, SelectorLoopInv
<1>2. CASE Accept
  BY <1>2, PassiveAcceptInv, UnregistrableInv, EnomemInv, AcceptNothingInv DEF Accept
<1>3. CASE \E c \in Conns : ConnStep(c)
  BY <1>3, ConnStepInv
<1>4. CASE Main
  BY <1>4, MainInv
<1>5. CASE \E c \in Conns : ConnectCompletes(c)
  BY <1>5, ConnectCompletesInv
<1>6. CASE \E w \in Workers : DnsThread(w) \/ (pc # "exited" /\ dns_thread_enomem(w))
  BY <1>6, ThreadInv
<1>7. CASE on_signal
  BY <1>7, SignalInv
<1>8. CASE SetConfig
  BY <1>8, SetConfigInv
<1>9. CASE Terminated \/ UNCHANGED allVars
  BY <1>9, StutterInv DEF Terminated
<1> QED
  BY <1>1, <1>2, <1>3, <1>4, <1>5, <1>6, <1>7, <1>8, <1>9
  DEF Socks5Next, SelectorThread

LEMMA Socks5Invariance == Socks5Spec => []Socks5Inv
BY InitSocks5Inv, NextSocks5Inv, PTL DEF Socks5Spec

-----------------------------------------------------------------------------
(* What the invariant gives.                                               *)

LEMMA InvTypeOK == Socks5Inv => Socks5TypeOK
<1> SUFFICES ASSUME Socks5Inv PROVE Socks5TypeOK
  OBVIOUS
<1>1. open \subseteq FD
  BY DEF Socks5Inv, TableOK, Used
<1>2. pool_size \in Nat /\ buffer_size \in [Conns -> BufferSizes \cup {NoSize}]
  BY DEF Socks5Inv, ObjectsOK, BuffersMatch
<1> QED
  BY <1>1, <1>2 DEF Socks5Inv, Socks5TypeOK, GoodTable, ObjectsOK, NotifyOK

LEMMA InvReferences == Socks5Inv => ReferencesAreRegistrations
<1> SUFFICES ASSUME Socks5Inv, Running, NEW c \in Conns
             PROVE  IF mem[c] = "live"
                    THEN /\ Registrations(c) = {conn[c].client_fd, conn[c].origin_fd} \ {NoFd}
                         /\ conn[c].references = Cardinality(Registrations(c))
                         /\ conn[c].client_fd # NoFd
                         /\ conn[c].client_fd # conn[c].origin_fd
                    ELSE Registrations(c) = {}
  BY DEF ReferencesAreRegistrations
<1>1. CASE mem[c] = "live"
  <2>1. TableOK /\ GoodConn(conn[c])
    BY <1>1 DEF Socks5Inv, TableOK, ConnsMatch
  <2>2. Registrations(c) = Fds(conn[c])
    BY <1>1, <2>1, FdsAreDisjoint DEF Registrations
  <2>3. Cardinality(Fds(conn[c])) = conn[c].references
    <3> DEFINE cf == conn[c].client_fd
               of == conn[c].origin_fd
    <3>1. /\ cf # NoFd /\ cf # of
          /\ conn[c].references = IF of = NoFd THEN 1 ELSE 2
      BY <2>1 DEF GoodConn
    <3>2. Fds(conn[c]) = IF of = NoFd THEN {cf} ELSE {cf, of}
      BY <3>1 DEF Fds
    <3> HIDE DEF cf, of
    <3>3. Cardinality({cf}) = 1 /\ Cardinality({cf, of}) = 2
      BY <3>1, FS_Singleton, PairCardinality
    <3> QED
      BY <3>1, <3>2, <3>3
  <2> QED
    BY <1>1, <2>1, <2>2, <2>3 DEF GoodConn, Fds
<1>2. CASE mem[c] # "live"
  <2>1. \A fd \in FD : sel.item[fd].data # c
    BY <1>2, EntriesOwned DEF Serving
  <2> QED
    BY <1>2, <2>1 DEF Registrations
<1> QED
  BY <1>1, <1>2

LEMMA InvOpen == Socks5Inv => OpenIsRegistered
BY DEF Socks5Inv, TableOK, OpenIsRegistered

LEMMA InvHandlers == Socks5Inv => EventsHaveHandlers
<1> SUFFICES ASSUME Socks5Inv, NEW fd \in Used(sel), sel.item[fd].data \in Conns
             PROVE  LET r == conn[sel.item[fd].data]
                    IN  /\ fd \in master_r(sel) => r.st \in on_read_ready
                        /\ fd \in master_w(sel) => r.st \in on_write_ready
  BY DEF EventsHaveHandlers
<1>1. fd \in FD /\ sel.item[fd].data # NoData
  BY DEF Used, ITEM_USED
<1>2. Running
  BY <1>1 DEF Socks5Inv, EmptyTable, FD_UNUSED
<1> DEFINE c == sel.item[fd].data
           r == conn[c]
<1>3. sel.item[fd] = Entry(c, r, fd) /\ r \in ConnOK
  BY <1>1, <1>2, EntriesOwned, CarriesStart
<1>4. sel.item[fd].interest \in {ClientInterest(r), OriginInterest(r)}
  BY <1>3, EntryData
<1>5. r.st \in State
  BY <1>3 DEF ConnOK
<1> HIDE DEF c, r
<1>6. /\ "OP_READ" \in ClientInterest(r) \/ "OP_READ" \in OriginInterest(r) =>
           r.st \in on_read_ready
      /\ "OP_WRITE" \in ClientInterest(r) \/ "OP_WRITE" \in OriginInterest(r) =>
           r.st \in on_write_ready
  <2> USE DEF on_read_ready, on_write_ready
  <2>1. CASE r.st \in {"HELLO_READ", "AUTH_READ", "REQUEST_READ"}
    BY <2>1 DEF ClientInterest, OriginInterest
  <2>2. CASE r.st \in {"HELLO_WRITE", "AUTH_WRITE", "REQUEST_WRITE"}
    BY <2>2 DEF ClientInterest, OriginInterest
  <2>3. CASE r.st \in {"REQUEST_RESOLV", "REQUEST_CONNECTING"}
    BY <2>3 DEF ClientInterest, OriginInterest
  <2>4. CASE r.st = "COPY"
    BY <2>4
  <2> QED
    BY <1>5, <2>1, <2>2, <2>3, <2>4 DEF State
<1> QED
  BY <1>4, <1>6 DEF master_r, master_w, c, r

LEMMA InvJobs == Socks5Inv => JobsFindTheirConnection
<1> SUFFICES ASSUME Socks5Inv, Running PROVE JobsFindTheirConnection
  BY DEF JobsFindTheirConnection
<1>1. TableOK /\ ResolversOK
  BY DEF Socks5Inv
<1>2. ASSUME NEW d \in Conns, mem[d] = "live"
      PROVE  conn[d].client_fd \in FD /\ sel.item[conn[d].client_fd].data = d
  BY <1>1, <1>2, FdsAreDescriptors, FdsAreDisjoint DEF TableOK, ConnsMatch
<1>3. ASSUME NEW n \in DOMAIN Unserved
      PROVE  LET c == sel.item[Unserved[n]].data
             IN  /\ c \in Conns /\ conn[c].client_fd = Unserved[n]
                 /\ conn[c].st \in on_block_ready /\ conn[c].dns # "none"
                 /\ \A m \in DOMAIN Unserved : Unserved[m] = Unserved[n] => m = n
  BY <1>1, <1>2, <1>3 DEF ResolversOK, JobsServe, on_block_ready
<1>4. ASSUME NEW w \in Workers, wpc[w] \in {"work", "notify"}
      PROVE  /\ sel.item[wfd[w]].data = wconn[w]
             /\ conn[wconn[w]].st = "REQUEST_RESOLV"
             /\ conn[wconn[w]].client_fd = wfd[w]
  BY <1>1, <1>2, <1>4 DEF ResolversOK, ThreadsServe, Asking
<1> QED
  BY <1>3, <1>4 DEF JobsFindTheirConnection

LEMMA InvResolvers == Socks5Inv => ResolverOwnsItsMemory
<1> SUFFICES ASSUME Socks5Inv, NEW w \in Workers, wpc[w] = "work"
             PROVE  /\ mem[wconn[w]] \in {"live", "leaked"}
                    /\ conn[wconn[w]].resolving
                    /\ \A v \in Workers : wpc[v] = "work" /\ wconn[v] = wconn[w] => v = w
  BY DEF ResolverOwnsItsMemory
<1>1. CASE Running
  <2>1. /\ wconn[w] \in Conns /\ mem[wconn[w]] = "live"
        /\ conn[wconn[w]].st = "REQUEST_RESOLV"
        /\ \A v \in Workers : wpc[v] = "work" /\ wconn[v] = wconn[w] => v = w
    BY <1>1 DEF Socks5Inv, ResolversOK, ThreadsServe, Asking
  <2>2. GoodConn(conn[wconn[w]])
    BY <1>1, <2>1 DEF Socks5Inv, TableOK, ConnsMatch
  <2> QED
    BY <2>1, <2>2 DEF GoodConn
<1>2. CASE ~Running
  BY <1>2 DEF Socks5Inv, OrphansLeaked
<1> QED
  BY <1>1, <1>2

LEMMA InvNotStranded ==
  ASSUME ~MallocMayFail
  PROVE  Socks5Inv => NoConnectionStranded
<1> SUFFICES ASSUME Socks5Inv, Running, NEW c \in Live
             PROVE  \/ \E fd \in Registrations(c) : sel.item[fd].interest # {}
                    \/ \E w \in Workers : wpc[w] \in {"work", "notify"} /\ wconn[w] = c
                    \/ \E n \in DOMAIN Unserved : Unserved[n] = conn[c].client_fd
  BY DEF NoConnectionStranded
<1>1. c \in Conns /\ mem[c] = "live" /\ TableOK /\ ResolversOK
  BY DEF Live, Socks5Inv
<1> DEFINE r == conn[c]
<1>2. GoodConn(r) /\ r \in ConnOK
  BY <1>1 DEF TableOK, ConnsMatch, GoodConn
<1>3. /\ \A fd \in Fds(r) : fd \in Registrations(c)
      /\ \A fd \in Fds(r) : sel.item[fd].interest =
           IF fd = r.client_fd THEN ClientInterest(r) ELSE OriginInterest(r)
  BY <1>1, FdsAreDisjoint, EntryData DEF Registrations
<1>4. CASE r.st = "REQUEST_RESOLV"
  BY <1>1, <1>4 DEF ResolversOK, ResolutionsGoOn, Asking
<1>5. CASE r.st # "REQUEST_RESOLV"
  <2> HIDE DEF r
  <2>1. ClientInterest(r) # {} \/ (r.origin_fd # NoFd /\ OriginInterest(r) # {})
    <3>1. CASE r.st = "REQUEST_CONNECTING"
      BY <1>2, <3>1 DEF GoodConn, OriginInterest
    <3>2. CASE r.st = "COPY"
      <4>1. r.origin_fd # NoFd /\ ~BothDone(r)
        BY <1>2, <3>2 DEF GoodConn
      <4>2. ClientInterest(r) = {op \in {"OP_READ"} : ~r.client_eof /\ can_write(r.read_buffer)}
                                \cup {op \in {"OP_WRITE"} : can_read(r.write_buffer)}
        BY <3>2 DEF ClientInterest
      <4>3. OriginInterest(r) = {op \in {"OP_READ"} : ~r.origin_eof /\ can_write(r.write_buffer)}
                                \cup {op \in {"OP_WRITE"} : can_read(r.read_buffer)}
        BY <3>2 DEF OriginInterest
      <4>4. CASE can_read(r.write_buffer)
        BY <4>2, <4>4
      <4>5. CASE can_read(r.read_buffer)
        BY <4>1, <4>3, <4>5
      <4>6. CASE ~can_read(r.write_buffer) /\ ~can_read(r.read_buffer)
        <5>1. can_write(r.write_buffer) /\ can_write(r.read_buffer)
          BY <4>6 DEF can_read, can_write
        <5>2. ~r.client_eof \/ ~r.origin_eof
          BY <4>1, <4>6 DEF BothDone
        <5>3. CASE ~r.client_eof
          BY <4>2, <5>1, <5>3
        <5>4. CASE ~r.origin_eof
          BY <4>1, <4>3, <5>1, <5>4
        <5> QED
          BY <5>2, <5>3, <5>4
      <4> QED
        BY <4>4, <4>5, <4>6
    <3>3. CASE r.st \notin {"REQUEST_CONNECTING", "COPY"}
      <4>1. r.st \in {"HELLO_READ", "AUTH_READ", "REQUEST_READ"}
            \/ r.st \in {"HELLO_WRITE", "AUTH_WRITE", "REQUEST_WRITE"}
        BY <1>2, <1>5, <3>3 DEF ConnOK, State
      <4> QED
        BY <4>1 DEF ClientInterest
    <3> QED
      BY <3>1, <3>2, <3>3
  <2>2. /\ r.client_fd \in Fds(r) /\ r.client_fd # r.origin_fd
        /\ r.origin_fd # NoFd => r.origin_fd \in Fds(r)
    BY <1>2 DEF GoodConn, Fds
  <2> QED
    BY <1>3, <2>1, <2>2
<1> QED
  BY <1>4, <1>5

LEMMA InvPool == Socks5Inv => PoolIsSound
<1> SUFFICES ASSUME Socks5Inv PROVE PoolIsSound
  OBVIOUS
<1>1. /\ pool \in Seq(Conns) /\ PoolMatches /\ pool_size = Len(pool)
      /\ BuffersMatch
  BY DEF Socks5Inv, ObjectsOK
<1> DEFINE S == {pool[n] : n \in DOMAIN pool}
<1>2. S = {c \in Conns : mem[c] = "pool"}
  BY <1>1 DEF PoolMatches
<1>3. Cardinality(S) = Len(pool)
  <2>1. DOMAIN pool = 1 .. Len(pool) /\ Len(pool) \in Nat
    BY <1>1
  <2>2. pool \in [1 .. Len(pool) -> S]
    BY <1>1, <2>1
  <2>3. pool \in Bijection(1 .. Len(pool), S)
    <3>1. \A m, n \in DOMAIN pool : pool[m] = pool[n] => m = n
      BY <1>1 DEF PoolMatches
    <3>2. pool \in Injection(1 .. Len(pool), S)
      BY <2>2, <3>1 DEF Injection, IsInjective
    <3>3. pool \in Surjection(1 .. Len(pool), S)
      BY <2>1, <2>2 DEF Surjection
    <3> QED
      BY <3>2, <3>3 DEF Bijection
  <2> HIDE DEF S
  <2> QED
    BY <2>1, <2>3, FS_CountingElements DEF ExistsBijection
<1> QED
  BY <1>1, <1>2, <1>3 DEF PoolIsSound, PoolMatches, BuffersMatch

LEMMA InvReply == Socks5Inv => ReplyMatchesOrigin
BY DEF Socks5Inv, ReplyMatchesOrigin, Live, TableOK, ConnsMatch, GoodConn

LEMMA InvCount == Socks5Inv => CurrentCountsLive
BY DEF Socks5Inv, CurrentCountsLive, TableOK

LEMMA InvKey == Socks5Inv => KeyIsFresh
BY WriteOwned DEF KeyIsFresh

-----------------------------------------------------------------------------
(* Theorems.                                                               *)

(* The state of the proxy has the types struct socks5, the pool and the    *)
(* counters give it; with a reply errno_to_reply can produce, at most      *)
(* MAX_ADDRS candidates and two references.                                *)
THEOREM ProxyTypeCorrect == Socks5Spec => []Socks5TypeOK
BY Socks5Invariance, InvTypeOK, PTL

(* socksv5_close frees a connection with its last reference: references is *)
(* the number of table entries that point to the connection, and a dead    *)
(* object is pointed to by none, whatever the handlers and threads did.    *)
THEOREM ReferencesCount == Socks5Spec => []ReferencesAreRegistrations
BY Socks5Invariance, InvReferences, PTL

(* No path through socksv5_passive_accept, start_connection, socksv5_done  *)
(* or the shutdown of main leaks a descriptor or leaves a closed one in    *)
(* the table pselect watches.                                              *)
THEOREM NoDescriptorLeaks == Socks5Spec => []OpenIsRegistered
BY Socks5Invariance, InvOpen, PTL

(* stm_handler_read and stm_handler_write never abort: what a connection   *)
(* waits for always has a handler in its state.                            *)
THEOREM HandlersExist == Socks5Spec => []EventsHaveHandlers
BY Socks5Invariance, InvHandlers, PTL

(* When handle_block_notifications serves a descriptor, it still belongs   *)
(* to the connection that asked for the resolution, which waits for it.    *)
THEOREM JobsArrive == Socks5Spec => []JobsFindTheirConnection
BY Socks5Invariance, InvJobs, PTL

(* dns_thread writes its result into memory nobody else was given, also    *)
(* while a forced shutdown destroys every connection.                      *)
THEOREM ResolverMemorySafe == Socks5Spec => []ResolverOwnsItsMemory
BY Socks5Invariance, InvResolvers, PTL

(* The data handle_iteration keeps in its key between the read and the     *)
(* write handler of an entry is never that of a freed connection.          *)
THEOREM KeyStaysFresh == Socks5Spec => []KeyIsFresh
BY Socks5Invariance, InvKey, PTL

(* socks5_new, also when it fails with an object of the pool in its hands, *)
(* socks5_destroy and socksv5_pool_destroy keep the pool a list without    *)
(* repetitions of the objects not in use, pool_size its length and within  *)
(* its limit, and leave no freed object with buffers, whatever SET_CONFIG  *)
(* does to io_buffer_size meanwhile.                                       *)
THEOREM PoolSound == Socks5Spec => []PoolIsSound
BY Socks5Invariance, InvPool, PTL

(* metrics.current_connections, on which main's graceful shutdown waits,   *)
(* is the number of live connections.                                      *)
THEOREM CountIsExact == Socks5Spec => []CurrentCountsLive
BY Socks5Invariance, InvCount, PTL

(* A connection answers SUCCESS, and relays, exactly when it holds the     *)
(* descriptor of an origin.                                                *)
THEOREM ReplyTellsOfOrigin == Socks5Spec => []ReplyMatchesOrigin
BY Socks5Invariance, InvReply, PTL

(* Unless the malloc of selector_notify_block fails, whose result          *)
(* dns_thread ignores, some event can still move every connection.         *)
THEOREM NobodyIsStranded ==
  ASSUME ~MallocMayFail
  PROVE  Socks5Spec => []NoConnectionStranded
BY Socks5Invariance, InvNotStranded, PTL

(* Every job of handle_block_notifications finds its descriptor in use:    *)
(* the branch that passes over a freed entry is never taken by the proxy.  *)
THEOREM NoJobIsLost == Socks5Spec => [][~DropJob]_allVars
BY Socks5Invariance, NoJobIsDropped, PTL
=============================================================================
