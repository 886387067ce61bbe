---- MODULE Memcached ----
(***************************************************************************)
(* The Memcached client of server/src/memcached.rs: calls that share a     *)
(* pool of connections and a skip window, against a server that answers    *)
(* each connection in order, may be slow, and may restart.                 *)
(*                                                                         *)
(* A command and its reply are records; a value is known by its key.  A    *)
(* reply is read as a whole: one that is cut off by the timeout counts as  *)
(* unread.                                                                 *)
(***************************************************************************)
EXTENDS Naturals, Sequences, FiniteSets

CONSTANTS
    Calls,       \* callers of `call`, each with one call at a time
    Conns,       \* connections, reused once both sides have closed them
    Keys,
    NoConn,
    NoKey,
    POOL_SIZE,   \* memcached.rs:14
    SKIP_FOR     \* memcached.rs:12, in ticks

ASSUME MemcachedAssumption ==
    /\ NoConn \notin Conns
    /\ NoKey \notin Keys
    /\ POOL_SIZE \in Nat
    /\ SKIP_FOR \in Nat

VARIABLES
    pc,     \* where each call is
    want,   \* its command: [op, key]
    conn,   \* the connection it holds
    result, \* the key whose value it returned, or NoKey
    idle,   \* Memcached.idle, used as a stack
    skip,   \* ticks left of Memcached.skip_until
    link,   \* each connection: "none", "up", "down" (reset), "closed" (by us)
    asked,  \* commands written to it and not yet read by the server
    told,   \* replies of the server not yet read by us
    held    \* the keys the server holds a value for

vars == <<pc, want, conn, result, idle, skip, link, asked, told, held>>

client == <<pc, want, conn, result, idle, skip>>
server == <<link, asked, told, held>>

Ops      == {"get", "set"}
Commands == [op : Ops, key : Keys]
Replies  == [kind : {"VALUE", "END", "STORED"}, key : Keys]
Points   == {"idle", "skipping", "pop", "connect", "send", "read", "push", "fail"}

TypeOK ==
    /\ pc \in [Calls -> Points]
    /\ want \in [Calls -> Commands]
    /\ conn \in [Calls -> Conns \cup {NoConn}]
    /\ result \in [Calls -> Keys \cup {NoKey}]
    /\ idle \in Seq(Conns)
    /\ skip \in 0 .. SKIP_FOR
    /\ link \in [Conns -> {"none", "up", "down", "closed"}]
    /\ asked \in [Conns -> Seq(Commands)]
    /\ told \in [Conns -> Seq(Replies)]
    /\ held \subseteq Keys

Init ==
    /\ pc = [t \in Calls |-> "idle"]
    /\ want \in [Calls -> Commands]
    /\ conn = [t \in Calls |-> NoConn]
    /\ result = [t \in Calls |-> NoKey]
    /\ idle = <<>>
    /\ skip = 0
    /\ link = [c \in Conns |-> "none"]
    /\ asked = [c \in Conns |-> <<>>]
    /\ told = [c \in Conns |-> <<>>]
    /\ held = {}

Goto(t, point) == pc' = [pc EXCEPT ![t] = point]

\* Dropping a connection closes our side; what is already written stays
\* readable for the server, what is unread is gone.
Drop(c) ==
    /\ link' = IF c = NoConn THEN link
               ELSE [link EXCEPT ![c] = IF @ = "up" /\ asked[c] # <<>> THEN "closed" ELSE "none"]
    /\ asked' = IF c = NoConn \/ link[c] = "up" THEN asked ELSE [asked EXCEPT ![c] = <<>>]
    /\ told' = IF c = NoConn THEN told ELSE [told EXCEPT ![c] = <<>>]
----
(* `get` and `set` with a valid key and a TTL above zero; the others return*)
(* without a call.                                                         *)

Begin(t) ==
    /\ pc[t] = "idle"
    /\ Goto(t, "skipping")
    /\ \E w \in Commands : want' = [want EXCEPT ![t] = w]
    /\ result' = [result EXCEPT ![t] = NoKey]
    /\ UNCHANGED <<conn, idle, skip, server>>

\* `skipping`: nothing is tried inside the window.
Skipping(t) ==
    /\ pc[t] = "skipping"
    /\ Goto(t, IF skip > 0 THEN "idle" ELSE "pop")
    /\ UNCHANGED <<want, conn, result, idle, skip, server>>

\* Deviation: the connection stays in the pool while it is used.
Pop_leaves_it(t) ==
    /\ pc[t] = "pop"
    /\ IF idle = <<>>
       THEN Goto(t, "connect") /\ UNCHANGED conn
       ELSE Goto(t, "send") /\ conn' = [conn EXCEPT ![t] = idle[Len(idle)]]
    /\ UNCHANGED <<want, result, idle, skip, server>>

Pop(t) ==
    /\ pc[t] = "pop"
    /\ IF idle = <<>>
       THEN Goto(t, "connect") /\ UNCHANGED <<conn, idle>>
       ELSE /\ Goto(t, "send")
            /\ conn' = [conn EXCEPT ![t] = idle[Len(idle)]]
            /\ idle' = SubSeq(idle, 1, Len(idle) - 1)
    /\ UNCHANGED <<want, result, skip, server>>

Connect(t) ==
    /\ pc[t] = "connect"
    /\ Goto(t, "send")
    /\ \E c \in Conns :
        /\ link[c] = "none"
        /\ conn' = [conn EXCEPT ![t] = c]
        /\ link' = [link EXCEPT ![c] = "up"]
    /\ UNCHANGED <<want, result, idle, skip, asked, told, held>>

Refused(t) ==
    /\ pc[t] = "connect"
    /\ Goto(t, "fail")
    /\ UNCHANGED <<want, conn, result, idle, skip, server>>

Send(t) ==
    /\ pc[t] = "send"
    /\ link[conn[t]] = "up"
    /\ Goto(t, "read")
    /\ asked' = [asked EXCEPT ![conn[t]] = Append(@, want[t])]
    /\ UNCHANGED <<want, conn, result, idle, skip, link, told, held>>

\* A reply that does not belong to the command is a protocol error.
Fits(op, kind) == kind \in IF op = "get" THEN {"VALUE", "END"} ELSE {"STORED"}

Reply(t) == Head(told[conn[t]])

\* `get_on` and `set_on` take the next reply of the connection; the key that
\* a VALUE line names is not compared with the one that was asked for.
Read(t) ==
    /\ pc[t] = "read"
    /\ told[conn[t]] # <<>>
    /\ told' = [told EXCEPT ![conn[t]] = Tail(@)]
    /\ IF Fits(want[t].op, Reply(t).kind)
       THEN /\ Goto(t, "push")
            /\ result' = IF Reply(t).kind = "VALUE"
                         THEN [result EXCEPT ![t] = Reply(t).key] ELSE result
       ELSE Goto(t, "fail") /\ UNCHANGED result
    /\ UNCHANGED <<want, conn, idle, skip, link, asked, held>>

\* The connection was reset: the write or the read fails.
Broken(t) ==
    /\ pc[t] \in {"send", "read"}
    /\ link[conn[t]] = "down" /\ told[conn[t]] = <<>>
    /\ Goto(t, "fail")
    /\ UNCHANGED <<want, conn, result, idle, skip, server>>

\* Deviation: a call that succeeds ends the skip window.
Push_ends_skip(t) ==
    /\ pc[t] = "push"
    /\ Goto(t, "idle")
    /\ conn' = [conn EXCEPT ![t] = NoConn]
    /\ skip' = 0
    /\ IF Len(idle) < POOL_SIZE
       THEN idle' = Append(idle, conn[t]) /\ UNCHANGED server
       ELSE UNCHANGED <<idle, held>> /\ Drop(conn[t])
    /\ UNCHANGED <<want, result>>

\* Back to the pool, unless it is full.
Push(t) ==
    /\ pc[t] = "push"
    /\ Goto(t, "idle")
    /\ conn' = [conn EXCEPT ![t] = NoConn]
    /\ IF Len(idle) < POOL_SIZE
       THEN idle' = Append(idle, conn[t]) /\ UNCHANGED server
       ELSE UNCHANGED <<idle, held>> /\ Drop(conn[t])
    /\ UNCHANGED <<want, result, skip>>

InAttempt == {"connect", "send", "read"}

\* Deviation: only the exchange is timed, not the connection.
Timeout_after_connect(t) ==
    /\ pc[t] \in InAttempt \ {"connect"}
    /\ Goto(t, "fail")
    /\ UNCHANGED <<want, conn, result, idle, skip, server>>

\* Any wait of the attempt can use up OP_TIMEOUT.
Timeout(t) ==
    /\ pc[t] \in InAttempt
    /\ Goto(t, "fail")
    /\ UNCHANGED <<want, conn, result, idle, skip, server>>

\* Deviation: a failed call gives its connection back to the pool.
Fail_keeps_connection(t) ==
    /\ pc[t] = "fail"
    /\ Goto(t, "idle")
    /\ conn' = [conn EXCEPT ![t] = NoConn]
    /\ idle' = IF conn[t] # NoConn /\ Len(idle) < POOL_SIZE THEN Append(idle, conn[t]) ELSE idle
    /\ skip' = SKIP_FOR
    /\ UNCHANGED <<want, result, server>>

\* Deviation: a failure inside the window makes the window longer.
Fail_extends_window(t) ==
    /\ pc[t] = "fail"
    /\ Goto(t, "idle")
    /\ conn' = [conn EXCEPT ![t] = NoConn]
    /\ skip' = skip + SKIP_FOR
    /\ Drop(conn[t])
    /\ UNCHANGED <<want, result, idle, held>>

\* `mark_failed`; the attempt is dropped with its connection.
Fail(t) ==
    /\ pc[t] = "fail"
    /\ Goto(t, "idle")
    /\ conn' = [conn EXCEPT ![t] = NoConn]
    /\ skip' = SKIP_FOR
    /\ Drop(conn[t])
    /\ UNCHANGED <<want, result, idle, held>>

\* The handler that called is dropped at an await, and the attempt with it.
Abandon(t) ==
    /\ pc[t] \in InAttempt
    /\ Goto(t, "idle")
    /\ conn' = [conn EXCEPT ![t] = NoConn]
    /\ Drop(conn[t])
    /\ UNCHANGED <<want, result, idle, skip, held>>
----
(* The server and the clock.                                               *)

ReplyTo(w) ==
    [kind |-> IF w.op = "set" THEN "STORED" ELSE IF w.key \in held THEN "VALUE" ELSE "END",
     key  |-> w.key]

\* The server takes the next command of a connection.
Serve(c) ==
    /\ asked[c] # <<>> /\ link[c] \in {"up", "closed"}
    /\ LET w == Head(asked[c]) IN
       /\ held' = IF w.op = "set" THEN held \cup {w.key} ELSE held
       /\ told' = IF link[c] = "up" THEN [told EXCEPT ![c] = Append(@, ReplyTo(w))] ELSE told
    /\ asked' = [asked EXCEPT ![c] = Tail(@)]
    /\ link' = IF link[c] = "closed" /\ Len(asked[c]) = 1
               THEN [link EXCEPT ![c] = "none"] ELSE link
    /\ UNCHANGED client

\* A connection we closed goes before the server read what was on it.
Teardown(c) ==
    /\ link[c] = "closed"
    /\ link' = [link EXCEPT ![c] = "none"]
    /\ asked' = [asked EXCEPT ![c] = <<>>]
    /\ UNCHANGED <<client, told, held>>

\* Every connection is reset, every value gone.  Replies that have arrived
\* can still be read.
Restart ==
    /\ held' = {}
    /\ link' = [c \in Conns |-> CASE link[c] = "up" -> "down"
                                  [] link[c] = "closed" -> "none"
                                  [] OTHER -> link[c]]
    /\ asked' = [c \in Conns |-> <<>>]
    /\ \E lost \in SUBSET Conns :
        told' = [c \in Conns |-> IF c \in lost THEN <<>> ELSE told[c]]
    /\ UNCHANGED client

\* An entry expires or is evicted.
Evict(k) ==
    /\ k \in held
    /\ held' = held \ {k}
    /\ UNCHANGED <<client, link, asked, told>>

Tick ==
    /\ skip > 0
    /\ skip' = skip - 1
    /\ UNCHANGED <<pc, want, conn, result, idle, server>>
----
Attempt(t) == Connect(t) \/ Refused(t) \/ Send(t) \/ Read(t) \/ Broken(t)

\* The steps a call takes by itself, the timer's included.
Proceed(t) == Skipping(t) \/ Pop(t) \/ Push(t) \/ Timeout(t) \/ Fail(t)

Next ==
    \/ \E t \in Calls : Begin(t) \/ Attempt(t) \/ Proceed(t) \/ Abandon(t)
    \/ \E c \in Conns : Serve(c) \/ Teardown(c)
    \/ Restart \/ Tick
    \/ \E k \in Keys : Evict(k)

Spec == Init /\ [][Next]_vars

\* The runtime runs handlers and timers; nothing is asked of the network or
\* of the server.
FairSpec == Spec /\ \A t \in Calls : WF_vars(Proceed(t))
----
Pooled == {idle[i] : i \in 1 .. Len(idle)}

\* A connection is in one place: used by one call or waiting in the pool once.
OneUser ==
    /\ Cardinality(Pooled) = Len(idle)
    /\ \A t \in Calls : conn[t] # NoConn =>
        /\ conn[t] \notin Pooled
        /\ \A u \in Calls \ {t} : conn[u] # conn[t]

\* No call ever meets an earlier call's reply: a pooled connection has no
\* command unanswered and no reply unread, and a call that reads finds
\* the reply to its own command or none (memcached.rs:97-102).
InStep ==
    /\ \A c \in Pooled : asked[c] = <<>> /\ told[c] = <<>>
    /\ \A t \in Calls : pc[t] = "read" /\ told[conn[t]] # <<>> =>
        /\ Reply(t).key = want[t].key
        /\ Fits(want[t].op, Reply(t).kind)

\* A get gives the value of its own key or nothing: the code relies on the
\* order of replies alone, it never looks at the key a reply names.
RightAnswer == \A t \in Calls : result[t] \in {NoKey, want[t].key}

\* A skip window runs to its end or is started anew by a later failure
\* (memcached.rs:11): no success and no check cuts it short.
WindowRunsOut == [][skip' < skip => skip' = skip - 1 /\ UNCHANGED pc]_vars

\* "Every call is bounded by OP_TIMEOUT" (memcached.rs:20-21): whatever the
\* server and the network do, each call ends.
CallsEnd == \A t \in Calls : pc[t] # "idle" ~> pc[t] = "idle"

SC == INSTANCE SharedCache WITH
    busy <- {t \in Calls : pc[t] # "idle"},
    saw  <- {t \in Calls : \/ pc[t] = "read" /\ \E i \in 1 .. Len(told[conn[t]]) :
                                told[conn[t]][i].kind = "VALUE"
                           \/ pc[t] = "push" /\ result[t] # NoKey},
    result <- [t \in Calls |-> IF pc[t] = "idle" THEN result[t] ELSE NoKey]

\* "Nothing here returns an error: a miss is the worst case"
\* (memcached.rs:20-22): with its pool, its timeouts and its skip window the
\* client is the shared cache that the fetch path builds on.
SharedCacheSpec == SC!Spec

====
