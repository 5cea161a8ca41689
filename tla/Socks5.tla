------------------------------- MODULE Socks5 -------------------------------
(***************************************************************************)
(* The proxy: the connections of src/socks5.c and their state machine      *)
(* (src/stm.c), the resolver threads of src/dns.c, the pool of connection  *)
(* objects, and the main loop of src/main.c with its two-signal shutdown,  *)
(* all driven by the selector thread of Selector.                          *)
(*                                                                         *)
(* A handler runs to its end on the selector thread, so it is one step;    *)
(* resolver threads, signals and the network interleave between handlers.  *)
(* Bytes are abstracted to what the control looks at: a buffer is empty,   *)
(* holds something, or has no room left at its end ("full": partial reads  *)
(* do not make room, buffer_read_adv compacts only a drained buffer).      *)
(***************************************************************************)
EXTENDS Selector

\* The size of the buffers of an object that has none.
NoSize == "none"

CONSTANTS
  Conns,          \* addresses a struct socks5 can be allocated at
  Listener,       \* stands for the registration of the SOCKS listener
  RLIMIT_NOFILE,  \* how many descriptors the process may have open
  MAX_POOL,       \* how many free connection objects are kept
  MAX_ADDRS,      \* how many candidate addresses are kept
  Errnos,         \* the ways connecting may fail
  Offers,         \* the sets of methods clients offer
  Requests,       \* the kinds of requests clients make
  Leftovers,      \* what may follow a complete handshake message
  Fills,          \* how far a recv of the relay may fill a buffer
  AuthModes,      \* the settings of auth_required
  BufferSizes,    \* the settings of io_buffer_size, only ever compared
  MaxSignals,     \* bound: how many SIGINT/SIGTERM arrive
  MallocMayFail   \* whether the malloc of selector_notify_block may fail

ASSUME Socks5Assumption ==
  /\ Data = Conns \cup {Listener} /\ Listener \notin Conns
  /\ IsFiniteSet(Conns)
  /\ RLIMIT_NOFILE \in Nat /\ MAX_POOL \in Nat
  /\ MAX_ADDRS \in Nat \ {0} /\ MaxSignals \in Nat
  /\ Offers \subseteq SUBSET {"NO_AUTH", "USERPASS"}
  /\ Requests \subseteq {"malformed", "bind", "literal", "name"}
  /\ Leftovers \subseteq {"empty", "part", "full"} /\ Leftovers # {}
  /\ Fills \subseteq {"part", "full"}
  /\ AuthModes \subseteq BOOLEAN /\ MallocMayFail \in BOOLEAN
  /\ NoSize \notin BufferSizes

VARIABLES
  conn,           \* the contents of each struct socks5
  mem,            \* what its memory is used as: free, live, pool or leaked
  pool,           \* the free list, its head first
  pool_size,      \* the counter that bounds it
  buffer_size,    \* per connection object, the size of its two raw buffers
  open,           \* the descriptors the process has open
  link,           \* per connection, how its TCP connection to the origin is doing
  wconn,          \* per resolver thread, the connection that holds its request
  current,        \* metrics.current_connections
  auth_required,  \* the configuration read by choose_method
  io_buffer_size, \* the configuration read by socks5_new
  sigcount,       \* g_sigcount
  shutting_down

poolVars == <<pool, pool_size>>
objVars  == <<mem, poolVars, buffer_size, current>>
config   == <<auth_required, io_buffer_size>>
mainVars == <<config, sigcount, shutting_down>>
proxyVars == <<conn, objVars, open, link, wconn, mainVars>>
allVars == <<vars, conn, mem, pool, pool_size, buffer_size, open, link, wconn,
             current, auth_required, io_buffer_size, sigcount, shutting_down>>

NoFd == -1
ListenFd == 0

Buffer == {"empty", "part", "full"}

\* enum socks5_state, without the two states no connection rests in.
State == {"HELLO_READ", "HELLO_WRITE", "AUTH_READ", "AUTH_WRITE",
          "REQUEST_READ", "REQUEST_RESOLV", "REQUEST_CONNECTING",
          "REQUEST_WRITE", "COPY"}

\* The columns of the states table: the states with a handler of each kind.
on_read_ready  == {"HELLO_READ", "AUTH_READ", "REQUEST_READ", "COPY"}
on_write_ready == {"HELLO_WRITE", "AUTH_WRITE", "REQUEST_CONNECTING",
                   "REQUEST_WRITE", "COPY"}
on_block_ready == {"REQUEST_RESOLV"}

\* ENETDOWN and EHOSTDOWN share a case with an errno that is listed.
errno_to_reply(e) ==
  CASE e = "ECONNREFUSED" -> "CONNECTION_REFUSED"
    [] e = "ENETUNREACH"  -> "NETWORK_UNREACHABLE"
    [] e = "EHOSTUNREACH" -> "HOST_UNREACHABLE"
    [] e = "ETIMEDOUT"    -> "TTL_EXPIRED"
    [] OTHER              -> "GENERAL_FAILURE"

Reply == {"SUCCESS", "GENERAL_FAILURE", "COMMAND_NOT_SUPPORTED",
          "HOST_UNREACHABLE"} \cup {errno_to_reply(e) : e \in Errnos}

\* A zeroed object with an empty buffer on each side.
ZeroedConn ==
  [st |-> "HELLO_READ", client_fd |-> NoFd, origin_fd |-> NoFd,
   references |-> 0, method |-> "NO_AUTH", auth_ok |-> FALSE,
   reply |-> "SUCCESS", left |-> 0, resolving |-> FALSE, dns |-> "none",
   client_eof |-> FALSE, origin_eof |-> FALSE,
   client_wr_shut |-> FALSE, origin_wr_shut |-> FALSE,
   read_buffer |-> "empty", write_buffer |-> "empty"]

Live == {c \in Conns : mem[c] = "live"}

\* The kernel hands out the lowest descriptor that is free, if there is one.
LowestFree(o) ==
  {fd \in 0 .. RLIMIT_NOFILE - 1 :
     fd \notin o /\ \A g \in 0 .. fd - 1 : g \in o}

-----------------------------------------------------------------------------
(* Calling a handler of connection c and the common endings of handlers.   *)

\* What no handler touches.
HandlerFrame ==
  UNCHANGED <<slave_r, slave_w, limit, pc, inHandler, jobs, mutex, sigpending,
              mainVars>>

Reading(c, st) ==
  DispatchRead /\ sel.item[cursor].data = c /\ conn[c].st = st /\ HandlerFrame

Writing(c, st) ==
  DispatchWrite /\ KeyData = c /\ conn[c].st = st /\ HandlerFrame

Resolved(c) ==
  /\ DispatchBlock /\ sel.item[Head(walk)].data = c
  /\ conn[c].st \in on_block_ready
  /\ HandlerFrame

Updates(c, r, s) ==
  /\ conn' = [conn EXCEPT ![c] = r]
  /\ sel' = s

\* The handler returns a state other than DONE and ERROR_STATE.
Continues(c, r, s) ==
  Updates(c, r, s) /\ UNCHANGED <<objVars, open, link, wconn, workVars>>

\* Mutant: the client's interest is not restored.
WriteOnly_LeavesClientMuted(s, r) == selector_set_interest(s, r.origin_fd, {})

\* Jumping to REQUEST_WRITE runs request_write_arrival: the reply is built in
\* the write buffer, the origin is muted, the client is waited on to write.
WithRequestWrite(r) ==
  [r EXCEPT !.st = "REQUEST_WRITE", !.write_buffer = "part"]

WriteOnly(s, r) ==
  selector_set_interest(selector_set_interest(s, r.origin_fd, {}),
                        r.client_fd, {"OP_WRITE"})

AnswersRequest(c, r, s) ==
  /\ Updates(c, WithRequestWrite(r), WriteOnly(s, r))
  /\ UNCHANGED <<objVars, wconn, workVars>>

\* An object whose resolution is under way is never freed; any other goes to
\* the pool while there is room.  It is zeroed here, in the code on reuse.
DestroyedAs(c) ==
  CASE conn[c].resolving -> "leaked"
    [] ~conn[c].resolving /\ pool_size < MAX_POOL -> "pool"
    [] OTHER -> "free"

socks5_destroy(c) ==
  /\ conn' = [conn EXCEPT ![c] = ZeroedConn]
  /\ mem' = [mem EXCEPT ![c] = DestroyedAs(c)]
  /\ pool' = IF DestroyedAs(c) = "pool" THEN <<c>> \o pool ELSE pool
  /\ pool_size' = IF DestroyedAs(c) = "pool" THEN pool_size + 1 ELSE pool_size
  /\ buffer_size' = IF DestroyedAs(c) = "free"
                    THEN [buffer_size EXCEPT ![c] = NoSize] ELSE buffer_size

metrics_connection_opened == current' = current + 1

\* Mutant: a connection that ends is not counted out.
metrics_connection_closed_Forgets == current' = current

metrics_connection_closed ==
  current' = IF current > 0 THEN current - 1 ELSE current

\* The handler returned DONE or ERROR_STATE: both descriptors are
\* unregistered, each time closing it and dropping a reference; the object
\* goes when the last reference does.
socksv5_done(c) ==
  LET cf == conn[c].client_fd
      of == conn[c].origin_fd
      refs == conn[c].references - Cardinality({cf, of} \ {NoFd})
  IN  /\ sel' = selector_unregister_fd(selector_unregister_fd(sel, cf), of)
      /\ open' = open \ {cf, of}
      /\ link' = [link EXCEPT ![c] = "none"]
      /\ IF refs <= 0
         THEN socks5_destroy(c) /\ metrics_connection_closed
         ELSE /\ conn' = [conn EXCEPT ![c].references = refs]
              /\ UNCHANGED objVars
      /\ UNCHANGED <<wconn, workVars>>

-----------------------------------------------------------------------------
(* The listener: a client is accepted into a pooled or a new object, whose *)
(* raw buffers get the size configured now.  With no descriptor, no memory *)
(* for a new object or no client left the handler does nothing.            *)
Accepting ==
  /\ DispatchRead /\ sel.item[cursor].data = Listener
  /\ HandlerFrame

NewObject == IF pool # <<>> THEN {Head(pool)}
                            ELSE {c \in Conns : mem[c] = "free"}

\* The list and its counter once that object has been taken.
PoolLeft     == IF pool # <<>> THEN Tail(pool) ELSE pool
PoolSizeLeft == IF pool # <<>> THEN pool_size - 1 ELSE pool_size

socks5_new(c, client) == [ZeroedConn EXCEPT !.client_fd = client]

socksv5_passive_accept ==
  /\ Accepting
  /\ \E c \in NewObject, client \in LowestFree(open) :
       /\ CanRegister(sel, client)
       /\ Updates(c, [socks5_new(c, client) EXCEPT !.references = 1],
                  selector_register(sel, client, {"OP_READ"}, c))
       /\ mem' = [mem EXCEPT ![c] = "live"]
       /\ pool' = PoolLeft /\ pool_size' = PoolSizeLeft
       /\ buffer_size' = [buffer_size EXCEPT ![c] = io_buffer_size]
       /\ open' = open \cup {client}
       /\ metrics_connection_opened
  /\ UNCHANGED <<link, wconn, workVars>>

\* An accepted client that cannot be registered is closed.  Mutant: it is not.
RefusedClosed_Not(client) == open \cup {client}

RefusedClosed(client) == open

\* The descriptor is beyond FD_SETSIZE: socks5_new has succeeded, so its
\* object is destroyed again.
socksv5_passive_accept_unregistrable ==
  /\ Accepting
  /\ \E c \in NewObject, client \in LowestFree(open) :
       /\ ~CanRegister(sel, client)
       /\ \/ /\ PoolSizeLeft < MAX_POOL
             /\ mem' = [mem EXCEPT ![c] = "pool"]
             /\ pool' = <<c>> \o PoolLeft /\ pool_size' = PoolSizeLeft + 1
             /\ buffer_size' = [buffer_size EXCEPT ![c] = io_buffer_size]
          \/ /\ PoolSizeLeft >= MAX_POOL
             /\ mem' = [mem EXCEPT ![c] = "free"]
             /\ pool' = PoolLeft /\ pool_size' = PoolSizeLeft
             /\ buffer_size' = [buffer_size EXCEPT ![c] = NoSize]
       /\ open' = RefusedClosed(client)
  /\ UNCHANGED <<conn, sel, current, link, wconn, workVars>>

\* Mutant: the object is taken out of the list only once it has its buffers.
PoolAfterEnomem_Kept == pool

PoolAfterEnomem == PoolLeft

\* io_buffer_size has changed since the pooled object got its buffers and the
\* new ones cannot be allocated: the object, out of the pool by now, is freed
\* and the client closed.
socksv5_passive_accept_enomem ==
  /\ Accepting
  /\ LowestFree(open) # {} /\ pool # <<>>
  /\ LET c == Head(pool)
     IN  /\ buffer_size[c] # io_buffer_size
         /\ mem' = [mem EXCEPT ![c] = "free"]
         /\ buffer_size' = [buffer_size EXCEPT ![c] = NoSize]
  /\ pool' = PoolAfterEnomem /\ pool_size' = PoolSizeLeft
  /\ UNCHANGED <<conn, sel, current, open, link, wconn, workVars>>

socksv5_passive_accept_nothing ==
  /\ Accepting
  /\ UNCHANGED <<conn, sel, objVars, open, link, wconn, workVars>>

-----------------------------------------------------------------------------
(* The handshake.  A recv into a buffer without room returns 0, which the  *)
(* handlers take for the end of the stream.                                *)

choose_method(offered) ==
  CASE auth_required /\ "USERPASS" \in offered -> "USERPASS"
    [] auth_required /\ "USERPASS" \notin offered -> "NONE"
    [] ~auth_required /\ "NO_AUTH" \in offered -> "NO_AUTH"
    [] ~auth_required /\ offered = {"USERPASS"} -> "USERPASS"
    [] ~auth_required /\ offered = {} -> "NONE"

HasRoom(c) == conn[c].read_buffer # "full"

\* Nothing arrived, or an incomplete message all of which the parser has eaten.
ReadsOn(c) ==
  /\ HasRoom(c)
  /\ \E left \in {conn[c].read_buffer, "empty"} :
       Continues(c, [conn[c] EXCEPT !.read_buffer = left], sel)

hello_read(c) ==
  /\ Reading(c, "HELLO_READ")
  /\ \/ ReadsOn(c)
     \/ socksv5_done(c)
     \/ /\ HasRoom(c)
        /\ \E offered \in Offers, rest \in Leftovers :
             Continues(c, [conn[c] EXCEPT !.st = "HELLO_WRITE",
                                          !.method = choose_method(offered),
                                          !.read_buffer = rest,
                                          !.write_buffer = "part"],
                       selector_set_interest(sel, conn[c].client_fd, {"OP_WRITE"}))

\* The pending answer is not sent, or only in part.
WritesOn(c) == Continues(c, conn[c], sel)

AfterHello(method) ==
  IF method = "USERPASS" THEN "AUTH_READ" ELSE "REQUEST_READ"

hello_write(c) ==
  /\ Writing(c, "HELLO_WRITE")
  /\ \/ WritesOn(c)
     \/ socksv5_done(c)
     \/ /\ conn[c].method # "NONE"
        /\ Continues(c, [conn[c] EXCEPT !.st = AfterHello(conn[c].method),
                                        !.write_buffer = "empty"],
                     selector_set_interest(sel, conn[c].client_fd, {"OP_READ"}))

auth_read(c) ==
  /\ Reading(c, "AUTH_READ")
  /\ \/ ReadsOn(c)
     \/ socksv5_done(c)
     \/ /\ HasRoom(c)
        /\ \E ok \in BOOLEAN, rest \in Leftovers :
             Continues(c, [conn[c] EXCEPT !.st = "AUTH_WRITE",
                                          !.auth_ok = ok,
                                          !.read_buffer = rest,
                                          !.write_buffer = "part"],
                       selector_set_interest(sel, conn[c].client_fd, {"OP_WRITE"}))

auth_write(c) ==
  /\ Writing(c, "AUTH_WRITE")
  /\ \/ WritesOn(c)
     \/ socksv5_done(c)
     \/ /\ conn[c].auth_ok
        /\ Continues(c, [conn[c] EXCEPT !.st = "REQUEST_READ",
                                        !.write_buffer = "empty"],
                     selector_set_interest(sel, conn[c].client_fd, {"OP_READ"}))

-----------------------------------------------------------------------------
(* start_connection(c, r, s, o): from connection contents r, table s and   *)
(* open descriptors o, the candidates are tried in order.  Those that fail *)
(* on the spot are skipped and may leave their reply; the first that does  *)
(* not is kept, connected or under way; with none left the request fails.  *)
AfterSkipping(r, n) ==
  IF n = 0 THEN {r.reply} ELSE {r.reply} \cup {errno_to_reply(e) : e \in Errnos}

\* Mutant: the initial reply is taken for a failure.
ExhaustedReply_Initial(reply) == reply

ExhaustedReply(reply) == IF reply = "SUCCESS" THEN "HOST_UNREACHABLE" ELSE reply

CandidatesExhausted(c, r, s, o) ==
  /\ \E reply \in AfterSkipping(r, r.left) :
       AnswersRequest(c, [r EXCEPT !.left = 0, !.reply = ExhaustedReply(reply)], s)
  /\ open' = o
  /\ link' = [link EXCEPT ![c] = "none"]

\* Mutant: the reference of the origin's registration is not counted.
WithOrigin_Uncounted(r, fd) == [r EXCEPT !.origin_fd = fd]

WithOrigin(r, fd) == [r EXCEPT !.origin_fd = fd, !.references = @ + 1]

ConnectedAtOnce(c, r, s, o) ==
  \E n \in 0 .. r.left - 1, fd \in LowestFree(o) :
    /\ CanRegister(s, fd)
    /\ AnswersRequest(c, [WithOrigin(r, fd) EXCEPT !.left = @ - n,
                                                   !.reply = "SUCCESS"],
                      selector_register(s, fd, {}, c))
    /\ open' = o \cup {fd}
    /\ link' = [link EXCEPT ![c] = "up"]

ConnectionUnderWay(c, r, s, o) ==
  /\ \E n \in 0 .. r.left - 1, fd \in LowestFree(o) :
       /\ CanRegister(s, fd)
       /\ \E reply \in AfterSkipping(r, n) :
            Updates(c, [WithOrigin(r, fd) EXCEPT !.st = "REQUEST_CONNECTING",
                                                 !.left = @ - n,
                                                 !.reply = reply],
                    selector_register(s, fd, {"OP_WRITE"}, c))
       /\ open' = o \cup {fd}
  /\ link' = [link EXCEPT ![c] = "connecting"]
  /\ UNCHANGED <<objVars, wconn, workVars>>

start_connection(c, r, s, o) ==
  \/ CandidatesExhausted(c, r, s, o)
  \/ ConnectedAtOnce(c, r, s, o)
  \/ ConnectionUnderWay(c, r, s, o)

-----------------------------------------------------------------------------
(* The request.  The client is muted before the request is acted on.       *)
Refuses(c, r, s, reply) ==
  AnswersRequest(c, [r EXCEPT !.reply = reply], s) /\ UNCHANGED <<open, link>>

dns_resolve_async(c, r, s) ==
  /\ \E w \in Workers :
       /\ wpc[w] = "idle"
       /\ wpc' = [wpc EXCEPT ![w] = "work"]
       /\ wfd' = [wfd EXCEPT ![w] = r.client_fd]
       /\ wconn' = [wconn EXCEPT ![w] = c]
  /\ Updates(c, [r EXCEPT !.st = "REQUEST_RESOLV", !.resolving = TRUE,
                          !.dns = "none"], s)
  /\ UNCHANGED <<objVars, open, link>>

\* A malformed request, a command other than CONNECT, a literal address, or a
\* name to resolve, for which creating the thread may fail.
process_request(c, r, s) ==
  \/ "malformed" \in Requests /\ Refuses(c, r, s, "GENERAL_FAILURE")
  \/ "bind" \in Requests /\ Refuses(c, r, s, "COMMAND_NOT_SUPPORTED")
  \/ /\ "literal" \in Requests
     /\ start_connection(c, [r EXCEPT !.left = 1], s, open)
  \/ /\ "name" \in Requests
     /\ dns_resolve_async(c, r, s) \/ Refuses(c, r, s, "GENERAL_FAILURE")

\* Mutant: the client is not muted.
ClientMuted_Not(c) == sel

ClientMuted(c) == selector_set_interest(sel, conn[c].client_fd, {})

request_read(c) ==
  /\ Reading(c, "REQUEST_READ")
  /\ \/ ReadsOn(c)
     \/ socksv5_done(c)
     \/ /\ HasRoom(c)
        /\ \E rest \in Leftovers :
             process_request(c, [conn[c] EXCEPT !.read_buffer = rest],
                             ClientMuted(c))

\* How many addresses of the answer are kept.  Mutant: one too many.
Kept_OffByOne == 0 .. MAX_ADDRS + 1

Kept == 0 .. MAX_ADDRS

resolv_block(c) ==
  /\ Resolved(c)
  /\ LET r == [conn[c] EXCEPT !.resolving = FALSE, !.dns = "none"]
     IN  \/ /\ conn[c].dns # "found"
            /\ Refuses(c, r, sel, "HOST_UNREACHABLE")
         \/ /\ conn[c].dns = "found"
            /\ \E naddrs \in Kept :
                 IF naddrs = 0
                 THEN Refuses(c, r, sel, "HOST_UNREACHABLE")
                 ELSE start_connection(c, [r EXCEPT !.left = naddrs], sel, open)

\* SO_ERROR is 0 for as long as the connection has not failed.
connecting_write(c) ==
  /\ Writing(c, "REQUEST_CONNECTING")
  /\ \/ /\ link[c] # "failed"
        /\ AnswersRequest(c, [conn[c] EXCEPT !.reply = "SUCCESS"], sel)
        /\ UNCHANGED <<open, link>>
     \/ /\ link[c] = "failed"
        /\ \E e \in Errnos :
             start_connection(c, [conn[c] EXCEPT !.reply = errno_to_reply(e),
                                                 !.origin_fd = NoFd,
                                                 !.references = @ - 1,
                                                 !.left = @ - 1],
                              selector_unregister_fd(sel, conn[c].origin_fd),
                              open \ {conn[c].origin_fd})

-----------------------------------------------------------------------------
(* The relay.                                                              *)
can_read(b)  == b # "empty"
can_write(b) == b # "full"

copy_compute_interests(s, r) ==
  LET cif == {op \in {"OP_READ"} : ~r.client_eof /\ can_write(r.read_buffer)}
             \cup {op \in {"OP_WRITE"} : can_read(r.write_buffer)}
      oif == {op \in {"OP_READ"} : ~r.origin_eof /\ can_write(r.write_buffer)}
             \cup {op \in {"OP_WRITE"} : can_read(r.read_buffer)}
  IN  selector_set_interest(selector_set_interest(s, r.client_fd, cif),
                            r.origin_fd, oif)

request_write(c) ==
  /\ Writing(c, "REQUEST_WRITE")
  /\ \/ WritesOn(c)
     \/ socksv5_done(c)
     \/ /\ conn[c].reply = "SUCCESS"
        /\ LET r == [conn[c] EXCEPT !.st = "COPY", !.write_buffer = "empty"]
           IN  Continues(c, r, copy_compute_interests(sel, r))

\* copy_update(c, r): a side that has ended and been drained is shut down on
\* the other; when both have, the connection is done.
copy_update(c, r) ==
  LET c2o_done == r.client_eof /\ ~can_read(r.read_buffer)
      o2c_done == r.origin_eof /\ ~can_read(r.write_buffer)
      shut == [r EXCEPT !.origin_wr_shut = @ \/ c2o_done,
                        !.client_wr_shut = @ \/ o2c_done]
  IN  IF c2o_done /\ o2c_done
      THEN socksv5_done(c)
      ELSE Continues(c, shut, copy_compute_interests(sel, shut))

\* What copy_pump leaves of a buffer when no hard error ends the connection.
copy_pump(b) == {b, "empty"}

\* Hard error, nothing to receive, some bytes or the end of the stream.
copy_read(c) ==
  /\ Reading(c, "COPY")
  /\ \/ socksv5_done(c)
     \/ copy_update(c, conn[c])
     \/ /\ cursor = conn[c].client_fd /\ can_write(conn[c].read_buffer)
        /\ \/ \E b \in Fills : \E left \in copy_pump(b) :
                copy_update(c, [conn[c] EXCEPT !.read_buffer = left])
           \/ copy_update(c, [conn[c] EXCEPT !.client_eof = TRUE])
     \/ /\ cursor # conn[c].client_fd /\ can_write(conn[c].write_buffer)
        /\ \/ \E b \in Fills : \E left \in copy_pump(b) :
                copy_update(c, [conn[c] EXCEPT !.write_buffer = left])
           \/ copy_update(c, [conn[c] EXCEPT !.origin_eof = TRUE])

copy_write(c) ==
  /\ Writing(c, "COPY")
  /\ \/ socksv5_done(c)
     \/ /\ cursor = conn[c].client_fd
        /\ \E left \in copy_pump(conn[c].write_buffer) :
             copy_update(c, [conn[c] EXCEPT !.write_buffer = left])
     \/ /\ cursor # conn[c].client_fd
        /\ \E left \in copy_pump(conn[c].read_buffer) :
             copy_update(c, [conn[c] EXCEPT !.read_buffer = left])

-----------------------------------------------------------------------------
(* The network: a connection under way is established or fails.            *)
ConnectCompletes(c) ==
  /\ link[c] = "connecting"
  /\ link' = [link EXCEPT ![c] = "up"] \/ link' = [link EXCEPT ![c] = "failed"]
  /\ UNCHANGED <<vars, conn, objVars, open, wconn, mainVars>>

(* dns_thread: getaddrinfo stores its result in the connection, then the   *)
(* selector is notified.                                                   *)
dns_thread_resolves(w) ==
  /\ JobFinishes(w)
  /\ \E outcome \in {"found", "failed"} :
       conn' = [conn EXCEPT ![wconn[w]].dns = outcome]
  /\ UNCHANGED <<objVars, open, link, wconn, mainVars>>

dns_thread_notifies(w) ==
  /\ \/ selector_notify_block_queue(w) /\ UNCHANGED wconn
     \/ selector_notify_block_kill(w) /\ wconn' = [wconn EXCEPT ![w] = NoData]
  /\ UNCHANGED <<conn, objVars, open, link, mainVars>>

dns_thread_enomem(w) ==
  /\ MallocMayFail
  /\ selector_notify_block_enomem(w)
  /\ wconn' = [wconn EXCEPT ![w] = NoData]
  /\ UNCHANGED <<conn, objVars, open, link, mainVars>>

-----------------------------------------------------------------------------
(* SET_CONFIG of the management protocol: the handler of a descriptor of   *)
(* the management server runs between those of the connections.            *)
SetConfig ==
  /\ pc = "iterate" /\ ~WriteDue
  /\ \/ io_buffer_size' \in BufferSizes /\ UNCHANGED auth_required
     \/ auth_required' \in AuthModes /\ UNCHANGED io_buffer_size
  /\ UNCHANGED <<vars, conn, objVars, open, link, wconn, sigcount, shutting_down>>

-----------------------------------------------------------------------------
(* main: between two calls of selector_select the signals are looked at.   *)

\* Mutant: the second signal is not looked at.
GoesOn_IgnoresSecond == sigcount = 0 \/ (shutting_down /\ current # 0)

GoesOn == sigcount = 0 \/ (sigcount < 2 /\ shutting_down /\ current # 0)

MainIterates ==
  /\ pc = "loop" /\ GoesOn
  /\ EnterPselect
  /\ UNCHANGED proxyVars

\* First signal: the listener is closed; with no connection left, that is all.
StopAccepting ==
  /\ pc = "loop" /\ sigcount = 1 /\ ~shutting_down
  /\ shutting_down' = TRUE
  /\ sel' = selector_unregister_fd(sel, ListenFd)
  /\ open' = open \ {ListenFd}
  /\ pc' = IF current = 0 THEN "teardown" ELSE "pselect"
  /\ UNCHANGED <<loopVars, inHandler, notifyVars, workVars, conn, objVars, link,
                 wconn, config, sigcount>>

LeaveLoop ==
  /\ pc = "loop"
  /\ sigcount >= 2 \/ (shutting_down /\ current = 0)
  /\ pc' = "teardown"
  /\ UNCHANGED <<sel, loopVars, inHandler, notifyVars, workVars, proxyVars>>

\* Mutant: a connection whose resolution is under way is freed.
TornDownAs_Freed(c) == "free"

TornDownAs(c) ==
  IF mem[c] = "leaked" \/ (mem[c] = "live" /\ conn[c].resolving)
  THEN "leaked" ELSE "free"

\* The listeners left, every connection and the job list go; then the pool.
Teardown ==
  /\ pc = "teardown"
  /\ sel' = EmptyTable
  /\ open' = {}
  /\ jobs' = <<>>
  /\ link' = [c \in Conns |-> "none"]
  /\ mem' = [c \in Conns |-> TornDownAs(c)]
  /\ pool' = <<>> /\ pool_size' = 0
  /\ buffer_size' = [c \in Conns |-> IF TornDownAs(c) = "free"
                                     THEN NoSize ELSE buffer_size[c]]
  /\ current' = 0
  /\ pc' = "destroyed"
  /\ UNCHANGED <<loopVars, inHandler, walk, mutex, sigpending, workVars, conn,
                 wconn, mainVars>>

\* main returns, which ends every thread.
Exit ==
  /\ pc = "destroyed"
  /\ pc' = "exited"
  /\ UNCHANGED <<sel, loopVars, inHandler, notifyVars, workVars, proxyVars>>

Terminated == pc = "exited" /\ UNCHANGED allVars

\* A signal that arrives in pselect interrupts it; at any other moment, or in
\* another thread, it is only counted.
on_signal ==
  /\ pc # "exited" /\ sigcount < MaxSignals
  /\ sigcount' = sigcount + 1
  /\ pc' = pc \/ (pc = "pselect" /\ pc' = "notify")
  /\ UNCHANGED <<sel, loopVars, inHandler, notifyVars, workVars, conn, objVars,
                 open, link, wconn, config, shutting_down>>

-----------------------------------------------------------------------------
Socks5Init ==
  /\ selector_new(selector_register(EmptyTable, ListenFd, {"OP_READ"}, Listener))
  /\ pc = "pselect"
  /\ conn = [c \in Conns |-> ZeroedConn]
  /\ mem = [c \in Conns |-> "free"]
  /\ pool = <<>> /\ pool_size = 0
  /\ buffer_size = [c \in Conns |-> NoSize]
  /\ open = {ListenFd}
  /\ link = [c \in Conns |-> "none"]
  /\ wconn = [w \in Workers |-> NoData]
  /\ current = 0
  /\ auth_required \in AuthModes /\ io_buffer_size \in BufferSizes
  /\ sigcount = 0 /\ shutting_down = FALSE

\* An origin is writable once its connection has been decided.
Writable(fd) ==
  LET c == sel.item[fd].data
  IN  c \in Conns /\ fd = conn[c].origin_fd => link[c] # "connecting"

SelectorLoop ==
  /\ \/ \E r \in SUBSET master_r(sel),
           w \in SUBSET {fd \in master_w(sel) : Writable(fd)} :
          PselectReturns(r, w)
     \/ PselectInterrupted
     \/ NextItem \/ IterationEnds \/ LockJobs \/ DropJob \/ UnlockJobs
  /\ UNCHANGED proxyVars

Accept ==
  \/ socksv5_passive_accept
  \/ socksv5_passive_accept_unregistrable
  \/ socksv5_passive_accept_enomem
  \/ socksv5_passive_accept_nothing

ConnStep(c) ==
  \/ hello_read(c) \/ hello_write(c) \/ auth_read(c) \/ auth_write(c)
  \/ request_read(c) \/ resolv_block(c) \/ connecting_write(c)
  \/ request_write(c) \/ copy_read(c) \/ copy_write(c)

DnsThread(w) == pc # "exited" /\ (dns_thread_resolves(w) \/ dns_thread_notifies(w))

Main == MainIterates \/ StopAccepting \/ LeaveLoop \/ Teardown \/ Exit

SelectorThread ==
  SelectorLoop \/ Accept \/ (\E c \in Conns : ConnStep(c)) \/ Main

Socks5Next ==
  \/ SelectorThread
  \/ \E c \in Conns : ConnectCompletes(c)
  \/ \E w \in Workers : DnsThread(w) \/ (pc # "exited" /\ dns_thread_enomem(w))
  \/ SetConfig \/ on_signal \/ Terminated

Socks5Spec == Socks5Init /\ [][Socks5Next]_allVars

(* Handlers and threads run to their end, pselect gives up after its       *)
(* timeout, and a thread that finds the mutex free time and again gets it  *)
(* (strong fairness); the network and the clients promise nothing.         *)
Socks5Fairness ==
  /\ WF_allVars(SelectorThread)
  /\ \A w \in Workers : SF_allVars(DnsThread(w))

Socks5FairSpec == Socks5Spec /\ Socks5Fairness

-----------------------------------------------------------------------------
ConnOK ==
  [st : State, client_fd : FD \cup {NoFd}, origin_fd : FD \cup {NoFd},
   references : 0 .. 2, method : {"NO_AUTH", "USERPASS", "NONE"},
   auth_ok : BOOLEAN, reply : Reply, left : 0 .. MAX_ADDRS,
   resolving : BOOLEAN, dns : {"none", "found", "failed"},
   client_eof : BOOLEAN, origin_eof : BOOLEAN,
   client_wr_shut : BOOLEAN, origin_wr_shut : BOOLEAN,
   read_buffer : Buffer, write_buffer : Buffer]

(* Type correctness of the proxy's own state (struct socks5, the pool, the *)
(* counters of main and metrics).                                          *)
Socks5TypeOK ==
  /\ sel \in Table
  /\ conn \in [Conns -> ConnOK]
  /\ mem \in [Conns -> {"free", "live", "pool", "leaked"}]
  /\ pool \in Seq(Conns) /\ pool_size \in Nat
  /\ buffer_size \in [Conns -> BufferSizes \cup {NoSize}]
  /\ io_buffer_size \in BufferSizes
  /\ open \subseteq FD
  /\ link \in [Conns -> {"none", "connecting", "up", "failed"}]
  /\ wconn \in [Workers -> Conns \cup {NoData}]
  /\ current \in 0 .. Cardinality(Conns)
  /\ sigcount \in 0 .. MaxSignals

\* The selector exists: selector_destroy has not been called.
Running == pc \notin {"destroyed", "exited"}

Registrations(c) == {fd \in FD : sel.item[fd].data = c}

(* socksv5_close frees the connection when references drops to 0: that is  *)
(* right because references counts the table entries that point to it, and *)
(* these are its two descriptors.  A dead object is pointed to by none.    *)
ReferencesAreRegistrations ==
  Running => \A c \in Conns :
    IF mem[c] = "live"
    THEN /\ Registrations(c) = {conn[c].client_fd, conn[c].origin_fd} \ {NoFd}
         /\ conn[c].references = Cardinality(Registrations(c))
         /\ conn[c].client_fd # NoFd /\ conn[c].client_fd # conn[c].origin_fd
    ELSE Registrations(c) = {}

(* Every open descriptor is registered and every registered one is open:   *)
(* no early return of accept or start_connection leaks a descriptor, and   *)
(* pselect never sees a closed one (the EBADF case of selector_select).    *)
OpenIsRegistered == Running => open = Used(sel)

(* stm_handler_* abort when the current state has no handler for the       *)
(* event, so the interest of a connection's descriptors must always match  *)
(* its state, however stale the event set of this iteration is.            *)
EventsHaveHandlers ==
  \A fd \in Used(sel) : sel.item[fd].data \in Conns =>
    LET r == conn[sel.item[fd].data]
    IN  /\ fd \in master_r(sel) => r.st \in on_read_ready
        /\ fd \in master_w(sel) => r.st \in on_write_ready

\* The jobs the selector has still to serve.
Unserved == IF pc = "jobs" THEN walk ELSE jobs

(* A notification carries only a descriptor number.  By the time it is     *)
(* served the number must still belong to the connection that asked for    *)
(* the resolution, in the only state with a block handler, with the result *)
(* in place: nothing may close a connection that resolves.                 *)
JobsFindTheirConnection ==
  Running =>
    /\ \A n \in DOMAIN Unserved :
         LET c == sel.item[Unserved[n]].data
         IN  /\ c \in Conns /\ conn[c].client_fd = Unserved[n]
             /\ conn[c].st \in on_block_ready /\ conn[c].dns # "none"
             /\ \A m \in DOMAIN Unserved : Unserved[m] = Unserved[n] => m = n
    /\ \A w \in Workers : wpc[w] \in {"work", "notify"} =>
         /\ sel.item[wfd[w]].data = wconn[w]
         /\ conn[wconn[w]].st = "REQUEST_RESOLV"
         /\ conn[wconn[w]].client_fd = wfd[w]

(* A resolver thread writes its result into the connection: until it is    *)
(* done the object is neither pooled nor handed to a new client, not even  *)
(* by the forced shutdown that closes everything.                          *)
ResolverOwnsItsMemory ==
  \A w \in Workers : wpc[w] = "work" =>
    /\ mem[wconn[w]] \in {"live", "leaked"}
    /\ conn[wconn[w]].resolving
    /\ \A v \in Workers : wpc[v] = "work" /\ wconn[v] = wconn[w] => v = w

(* Some event can still move every connection: one of its descriptors is   *)
(* watched, or its resolution is under way or waits to be served.  The     *)
(* client is muted while the proxy resolves and connects, the origin while *)
(* it answers; a missed arrival action would leave both muted for ever.    *)
NoConnectionStranded ==
  Running => \A c \in Live :
    \/ \E fd \in Registrations(c) : sel.item[fd].interest # {}
    \/ \E w \in Workers : wpc[w] \in {"work", "notify"} /\ wconn[w] = c
    \/ \E n \in DOMAIN Unserved : Unserved[n] = conn[c].client_fd

(* The pool is a list without repetitions of exactly the objects put there *)
(* by socks5_destroy and not taken since: no object is freed twice, none   *)
(* is in use or was freed by a socks5_new that failed half-way.  pool_size *)
(* is its length, and an object owns buffers while it is not freed.        *)
PoolIsSound ==
  /\ pool_size = Len(pool) /\ pool_size <= MAX_POOL
  /\ {pool[n] : n \in DOMAIN pool} = {c \in Conns : mem[c] = "pool"}
  /\ Cardinality({pool[n] : n \in DOMAIN pool}) = Len(pool)
  /\ \A c \in Conns : mem[c] # "free" <=> buffer_size[c] \in BufferSizes

(* The counter the graceful shutdown waits on is the number of live        *)
(* connections, whichever way they end.                                    *)
CurrentCountsLive == Running => current = Cardinality(Live)

(* The reply says SUCCESS exactly when there is an origin to relay to: a   *)
(* failed candidate does not leave its descriptor behind, a later success  *)
(* does not keep an earlier candidate's error.                             *)
ReplyMatchesOrigin ==
  Running => \A c \in Live : conn[c].st \in {"REQUEST_WRITE", "COPY"} =>
    (conn[c].reply = "SUCCESS" <=> conn[c].origin_fd # NoFd)

(* handle_iteration fills its key before the read handler and reuses it    *)
(* for the write handler: it still names the connection of the descriptor, *)
(* which has not been freed and reused in between.                         *)
KeyIsFresh ==
  WriteDue => KeyData = sel.item[cursor].data /\ mem[KeyData] = "live"

(* A name resolution ends: the connection leaves REQUEST_RESOLV (or the    *)
(* process does), though nobody watches its descriptors meanwhile.         *)
ResolutionEnds ==
  \A c \in Conns : conn[c].st = "REQUEST_RESOLV" ~>
    conn[c].st # "REQUEST_RESOLV" \/ pc = "exited"

(* The process exits on a second signal, whatever the connections are      *)
(* doing, and on the first one when the last connection has gone, also if  *)
(* there was none to wait for; wherever the signals find the loop (README: *)
(* "Una segunda senal fuerza el apagado inmediato").                       *)
ShutdownExits ==
  sigcount >= 2 \/ (shutting_down /\ current = 0) ~> pc = "exited"

(* A client that is told SUCCESS has a connected origin: the origin is     *)
(* watched for writing and SO_ERROR is looked at only once it is writable. *)
SuccessMeansConnected ==
  Running => \A c \in Live :
    conn[c].st \in {"REQUEST_WRITE", "COPY"} /\ conn[c].reply = "SUCCESS" =>
      link[c] # "connecting"

(* No resolver thread locks the mutex, queues a job or reads the thread to *)
(* signal in a selector that selector_destroy has freed.                   *)
DestroyedSelectorIsNotUsed ==
  [][pc = "destroyed" => \A w \in Workers :
       wpc[w] \in {"notify", "kill"} => wpc'[w] = wpc[w]]_allVars
=============================================================================
