---- MODULE Memcached_proofs ----
(***************************************************************************)
(* What holds of the Memcached client for every number of calls,           *)
(* connections and keys, every pool size and every skip window.            *)
(***************************************************************************)
EXTENDS Memcached, SequenceTheorems, FiniteSetTheorems, TLAPS

Empty(c) == asked[c] = <<>> /\ told[c] = <<>>

\* A call owns a connection for as long as it exchanges on it.
Owners ==
    \A t \in Calls :
        /\ pc[t] \in {"send", "read", "push"} => conn[t] \in Conns
        /\ pc[t] \in {"idle", "skipping", "pop", "connect"} => conn[t] = NoConn

\* A connection is open in one place at most.
OnePlace ==
    /\ \A i, j \in 1 .. Len(idle) : idle[i] = idle[j] => i = j
    /\ \A i \in 1 .. Len(idle) : link[idle[i]] \in {"up", "down"}
    /\ \A t \in Calls : conn[t] # NoConn =>
        /\ link[conn[t]] \in {"up", "down"}
        /\ \A i \in 1 .. Len(idle) : idle[i] # conn[t]
        /\ \A u \in Calls \ {t} : conn[u] # conn[t]

\* What is on the connection of a call that waits for its reply: the command,
\* the reply to it, or, after a reset, nothing.
Exchange(t) ==
    LET c == conn[t] IN
    \/ /\ asked[c] = <<want[t]>> /\ told[c] = <<>>
    \/ /\ asked[c] = <<>> /\ Len(told[c]) = 1
       /\ Reply(t).key = want[t].key /\ Fits(want[t].op, Reply(t).kind)
    \/ Empty(c)

\* What is on each connection.
Wire ==
    /\ \A i \in 1 .. Len(idle) : Empty(idle[i])
    /\ \A t \in Calls :
        /\ pc[t] \in {"send", "push"} => Empty(conn[t])
        /\ pc[t] = "read" => Exchange(t)
    /\ \A c \in Conns :
        /\ link[c] = "none" => Empty(c)
        /\ link[c] = "closed" => told[c] = <<>>

\* A call has no result but the value of its key, and none before the reply.
Results ==
    \A t \in Calls :
        /\ result[t] \in {NoKey, want[t].key}
        /\ pc[t] \notin {"idle", "push"} => result[t] = NoKey

\* What every step keeps: enough to show that replies and commands match.
IInv == TypeOK /\ Owners /\ OnePlace /\ Wire /\ Results

----
\* A pooled connection is one of Conns.
LEMMA PoolEntries == TypeOK => \A i \in 1 .. Len(idle) : idle[i] \in Conns
  BY ElementOfSeq DEF TypeOK

\* Nothing is open, held or written at the start.
LEMMA IInit == Init => IInv
  BY MemcachedAssumption, EmptySeq, SMTT(30)
     DEF Init, IInv, TypeOK, Owners, OnePlace, Wire, Results, Empty, Points

\* What closing a connection does: nothing is left to read on it, and nothing
\* at all once it can be opened again; the others are not touched.
LEMMA Dropped ==
    ASSUME TypeOK, NEW c \in Conns, Drop(c)
    PROVE  /\ link' \in [Conns -> {"none", "up", "down", "closed"}]
           /\ asked' \in [Conns -> Seq(Commands)]
           /\ told' \in [Conns -> Seq(Replies)]
           /\ link'[c] \in {"none", "closed"}
           /\ told'[c] = <<>>
           /\ link'[c] = "none" => asked'[c] = <<>>
           /\ \A d \in Conns \ {c} :
                link'[d] = link[d] /\ asked'[d] = asked[d] /\ told'[d] = told[d]
  <1>1. c # NoConn
    BY MemcachedAssumption
  <1>2. <<>> \in Seq(Commands) /\ <<>> \in Seq(Replies)
    BY EmptySeq
  <1> QED
    BY <1>1, <1>2 DEF Drop, TypeOK

\* A step that touches what is on one connection leaves the exchange of every
\* call alone that does not own it.
LEMMA OthersKeepWire ==
    ASSUME IInv, NEW c \in Conns,
           \A d \in Conns \ {c} : asked'[d] = asked[d] /\ told'[d] = told[d],
           UNCHANGED want,
           NEW u \in Calls, conn[u] # c, pc'[u] = pc[u], conn'[u] = conn[u]
    PROVE  /\ pc'[u] \in {"send", "push"} => Empty(conn[u])'
           /\ pc'[u] = "read" => Exchange(u)'
  <1>1. CASE pc[u] \in {"send", "push", "read"}
    <2>1. conn[u] \in Conns \ {c}
      BY <1>1 DEF IInv, Owners
    <2>2. asked'[conn'[u]] = asked[conn[u]] /\ told'[conn'[u]] = told[conn[u]]
      BY <2>1
    <2>3. pc[u] \in {"send", "push"} => Empty(conn[u])'
      BY <2>2 DEF IInv, Wire, Empty
    <2>4. pc[u] = "read" => Exchange(u)'
      BY <2>2 DEF IInv, Wire, Empty, Exchange, Reply
    <2> QED
      BY <2>3, <2>4
  <1> QED
    BY <1>1

\* Nor does it disturb a pool that the connection is not in.
LEMMA PoolKeepsWire ==
    ASSUME IInv, NEW c \in Conns,
           \A d \in Conns \ {c} : asked'[d] = asked[d] /\ told'[d] = told[d],
           \A i \in 1 .. Len(idle) : idle[i] # c
    PROVE  \A i \in 1 .. Len(idle) : asked'[idle[i]] = <<>> /\ told'[idle[i]] = <<>>
  BY PoolEntries DEF IInv, Wire, Empty

\* A call that ends without giving its connection back keeps the invariant,
\* whatever was still on the connection: this is why a failed call may drop
\* one with a command unanswered.
LEMMA Released ==
    ASSUME IInv, NEW t \in Calls,
           Goto(t, "idle"), conn' = [conn EXCEPT ![t] = NoConn], Drop(conn[t]),
           UNCHANGED <<want, result, idle, held>>, skip' \in 0 .. SKIP_FOR
    PROVE  IInv'
  <1> USE DEF IInv
  <1>0. conn[t] \in Conns \cup {NoConn}
    BY DEF TypeOK
  <1>1. CASE conn[t] = NoConn
    <2>1. UNCHANGED <<conn, link, asked, told>>
      BY <1>1 DEF Drop, TypeOK
    <2>2. TypeOK'
      BY <2>1 DEF TypeOK, Goto, Points
    <2>3. Owners'
      BY <2>1, <1>1 DEF Owners, Goto, TypeOK
    <2>4. OnePlace'
      BY <2>1 DEF OnePlace
    <2>5. Wire'
      BY <2>1 DEF Wire, Empty, Exchange, Reply, Goto, TypeOK
    <2>6. Results'
      BY DEF Results, Goto, TypeOK
    <2> QED
      BY <2>2, <2>3, <2>4, <2>5, <2>6
  <1>2. CASE conn[t] \in Conns
    <2> DEFINE c == conn[t]
    <2>1. /\ link' \in [Conns -> {"none", "up", "down", "closed"}]
          /\ asked' \in [Conns -> Seq(Commands)]
          /\ told' \in [Conns -> Seq(Replies)]
          /\ link'[c] \in {"none", "closed"}
          /\ told'[c] = <<>>
          /\ link'[c] = "none" => asked'[c] = <<>>
          /\ \A d \in Conns \ {c} :
               link'[d] = link[d] /\ asked'[d] = asked[d] /\ told'[d] = told[d]
      BY <1>2, Dropped
    <2>2. TypeOK'
      BY <2>1 DEF TypeOK, Goto, Points
    <2>3. Owners'
      BY DEF Owners, Goto, TypeOK
    <2>4. \A i \in 1 .. Len(idle) : idle[i] \in Conns \ {c}
      BY <1>2, PoolEntries, MemcachedAssumption DEF OnePlace
    <2>5. \A u \in Calls \ {t} : conn[u] # NoConn => conn[u] \in Conns \ {c}
      BY <1>2, MemcachedAssumption DEF OnePlace, TypeOK
    <2>6. OnePlace'
      <3>1. \A i \in 1 .. Len(idle) : link'[idle[i]] \in {"up", "down"}
        BY <2>1, <2>4 DEF OnePlace
      <3>2. ASSUME NEW u \in Calls, conn'[u] # NoConn
            PROVE  /\ link'[conn'[u]] \in {"up", "down"}
                   /\ \A i \in 1 .. Len(idle) : idle[i] # conn'[u]
                   /\ \A v \in Calls \ {u} : conn'[v] # conn'[u]
        <4>1. u # t /\ conn'[u] = conn[u] /\ conn[u] \in Conns \ {c}
          BY <3>2, <2>5 DEF TypeOK
        <4>2. link'[conn[u]] \in {"up", "down"}
          BY <4>1, <2>1, <3>2 DEF OnePlace
        <4>3. \A v \in Calls \ {u} : conn'[v] # conn[u]
          BY <4>1, <3>2 DEF OnePlace, TypeOK
        <4> QED
          BY <4>1, <4>2, <4>3, <3>2 DEF OnePlace
      <3> QED
        BY <3>1, <3>2 DEF OnePlace
    <2>7. Wire'
      <3>1. (\A i \in 1 .. Len(idle) : Empty(idle[i]))'
        <4>1. \A i \in 1 .. Len(idle) : asked'[idle[i]] = <<>> /\ told'[idle[i]] = <<>>
          BY <1>2, <2>1, <2>4, PoolKeepsWire
        <4> QED
          BY <4>1 DEF Empty
      <3>2. ASSUME NEW u \in Calls
            PROVE  /\ pc'[u] \in {"send", "push"} => Empty(conn[u])'
                   /\ pc'[u] = "read" => Exchange(u)'
        <4>1. CASE u = t
          BY <4>1 DEF Goto, TypeOK
        <4>2. CASE u # t
          <5>1. conn[u] # c /\ conn'[u] = conn[u] /\ pc'[u] = pc[u]
            BY <4>2, <1>2, MemcachedAssumption DEF OnePlace, Goto, TypeOK
          <5> QED
            BY <5>1, <1>2, <2>1, OthersKeepWire
        <4> QED
          BY <4>1, <4>2
      <3>3. ASSUME NEW d \in Conns
            PROVE  /\ link'[d] = "none" => Empty(d)'
                   /\ link'[d] = "closed" => told'[d] = <<>>
        BY <2>1 DEF Wire, Empty
      <3> QED
        BY <3>1, <3>2, <3>3 DEF Wire
    <2>8. Results'
      BY DEF Results, Goto, TypeOK
    <2> QED
      BY <2>2, <2>3, <2>6, <2>7, <2>8
  <1> QED
    BY <1>0, <1>1, <1>2

\* Every step keeps the invariant.
LEMMA IStep == IInv /\ [Next]_vars => IInv'
  <1> SUFFICES ASSUME IInv, [Next]_vars PROVE IInv'
    OBVIOUS
  <1> USE DEF IInv
  <1>0. \A t \in Calls : conn[t] \in Conns \cup {NoConn}
    BY DEF TypeOK
  <1>1. ASSUME NEW t \in Calls, Begin(t) PROVE IInv'
    <2>1. TypeOK'
      BY <1>1 DEF Begin, TypeOK, Goto, Points, server
    <2>2. Owners' /\ OnePlace'
      BY <1>1 DEF Begin, TypeOK, Goto, server, Owners, OnePlace
    <2>3. Wire'
      BY <1>1 DEF Begin, TypeOK, Goto, server, Wire, Empty, Exchange, Reply
    <2>4. Results'
      BY <1>1 DEF Begin, TypeOK, Goto, server, Results
    <2> QED
      BY <2>1, <2>2, <2>3, <2>4
  <1>2. ASSUME NEW t \in Calls, Skipping(t) PROVE IInv'
    <2>1. TypeOK'
      BY <1>2 DEF Skipping, TypeOK, Goto, Points, server
    <2>2. Owners' /\ OnePlace'
      BY <1>2 DEF Skipping, TypeOK, Goto, server, Owners, OnePlace
    <2>3. Wire'
      BY <1>2 DEF Skipping, TypeOK, Goto, server, Wire, Empty, Exchange, Reply
    <2>4. Results'
      BY <1>2 DEF Skipping, TypeOK, Goto, server, Results
    <2> QED
      BY <2>1, <2>2, <2>3, <2>4
  <1>3. ASSUME NEW t \in Calls, Pop(t) PROVE IInv'
    <2>1. CASE idle = <<>>
      <3>1. TypeOK'
        BY <1>3, <2>1 DEF Pop, TypeOK, Goto, Points, server
      <3>2. Owners' /\ OnePlace'
        BY <1>3, <2>1 DEF Pop, TypeOK, Goto, server, Owners, OnePlace
      <3>3. Wire'
        BY <1>3, <2>1 DEF Pop, TypeOK, Goto, server, Wire, Empty, Exchange, Reply
      <3>4. Results'
        BY <1>3, <2>1 DEF Pop, TypeOK, Goto, server, Results
      <3> QED
        BY <3>1, <3>2, <3>3, <3>4
    <2>2. CASE idle # <<>>
      <3> DEFINE n == Len(idle)
                 c == idle[n]
      <3>0. /\ pc[t] = "pop" /\ Goto(t, "send")
            /\ conn' = [conn EXCEPT ![t] = c]
            /\ idle' = SubSeq(idle, 1, n - 1)
            /\ UNCHANGED <<want, result, skip, link, asked, told, held>>
        BY <1>3, <2>2 DEF Pop, server
      <3>1. n \in Nat \ {0} /\ n \in 1 .. n
        BY <2>2, EmptySeq DEF TypeOK
      <3>2. \A i \in 1 .. n : idle[i] \in Conns
        BY PoolEntries
      <3>3. c \in Conns /\ c # NoConn
        BY <3>1, <3>2, MemcachedAssumption
      <3>4. idle' \in Seq(Conns) /\ Len(idle') = n - 1
            /\ \A i \in 1 .. n - 1 : idle'[i] = idle[i]
        <4>1. \A i \in 1 .. n - 1 : idle[i] \in Conns
          BY <3>1, <3>2
        <4>2. 1 \in Int /\ n - 1 \in Int
          BY <3>1
        <4> HIDE DEF n
        <4> QED
          BY <3>0, <3>1, <4>1, <4>2, SubSeqProperties
      <3>5. TypeOK'
        BY <3>0, <3>3, <3>4 DEF TypeOK, Goto, Points
      <3>6. Owners'
        BY <3>0, <3>3 DEF Owners, TypeOK, Goto
      <3>7. \A i \in 1 .. n - 1 : idle[i] # c
        BY <3>1 DEF OnePlace
      <3>8. \A u \in Calls : conn[u] # c
        BY <3>1, <3>3 DEF OnePlace
      <3>9. OnePlace'
        <4> HIDE DEF n, c
        <4>1. \A i \in 1 .. n - 1 : i \in 1 .. n
          BY <3>1
        <4>2. link[c] \in {"up", "down"}
          BY <3>1 DEF OnePlace, n, c
        <4>3. \A i, j \in 1 .. Len(idle') : idle'[i] = idle'[j] => i = j
          BY <3>4, <4>1 DEF OnePlace, n
        <4>4. \A i \in 1 .. Len(idle') : link'[idle'[i]] \in {"up", "down"}
          BY <3>0, <3>4, <4>1 DEF OnePlace, n
        <4>5. ASSUME NEW u \in Calls, conn'[u] # NoConn
              PROVE  /\ link'[conn'[u]] \in {"up", "down"}
                     /\ \A i \in 1 .. Len(idle') : idle'[i] # conn'[u]
                     /\ \A v \in Calls \ {u} : conn'[v] # conn'[u]
          <5>1. CASE u = t
            BY <5>1, <3>0, <3>4, <3>7, <3>8, <4>2 DEF TypeOK
          <5>2. CASE u # t
            <6>1. conn'[u] = conn[u]
              BY <5>2, <3>0 DEF TypeOK
            <6>2. \A i \in 1 .. Len(idle') : idle'[i] # conn[u]
              BY <4>5, <6>1, <3>4, <4>1 DEF OnePlace, n
            <6> QED
              BY <5>2, <6>1, <6>2, <4>5, <3>0, <3>8 DEF OnePlace, TypeOK
          <5> QED
            BY <5>1, <5>2
        <4> QED
          BY <4>3, <4>4, <4>5 DEF OnePlace
      <3>10. Empty(c)
        BY <3>1 DEF Wire
      <3>11. Wire'
        <4> HIDE DEF n, c
        <4>1. (\A i \in 1 .. Len(idle) : Empty(idle[i]))'
          <5>1. \A i \in 1 .. n - 1 : i \in 1 .. n
            BY <3>1
          <5> QED
            BY <3>0, <3>4, <5>1 DEF Wire, Empty, n
        <4>2. ASSUME NEW u \in Calls
              PROVE  /\ pc'[u] \in {"send", "push"} => Empty(conn[u])'
                     /\ pc'[u] = "read" => Exchange(u)'
          BY <3>0, <3>10 DEF Wire, Empty, Exchange, Reply, Goto, TypeOK
        <4> QED
          BY <3>0, <4>1, <4>2 DEF Wire, Empty
      <3>12. Results'
        BY <3>0 DEF Results, Goto, TypeOK
      <3> QED
        BY <3>5, <3>6, <3>9, <3>11, <3>12
    <2> QED
      BY <2>1, <2>2
  <1>4. ASSUME NEW t \in Calls, Connect(t) PROVE IInv'
    <2>0. PICK c \in Conns :
            /\ link[c] = "none"
            /\ conn' = [conn EXCEPT ![t] = c]
            /\ link' = [link EXCEPT ![c] = "up"]
      BY <1>4 DEF Connect
    <2>1. /\ pc[t] = "connect" /\ Goto(t, "send")
          /\ UNCHANGED <<want, result, idle, skip, asked, told, held>>
      BY <1>4 DEF Connect
    <2>2. c # NoConn /\ Empty(c)
      BY <2>0, MemcachedAssumption DEF Wire
    <2>3. \A u \in Calls : conn[u] # c
      BY <2>0, <2>2 DEF OnePlace
    <2>4. \A i \in 1 .. Len(idle) : idle[i] # c
      BY <2>0 DEF OnePlace
    <2>5. TypeOK'
      BY <2>0, <2>1 DEF TypeOK, Goto, Points
    <2>6. Owners'
      BY <2>0, <2>1, <2>2 DEF Owners, TypeOK, Goto
    <2>7. OnePlace'
      BY <2>0, <2>1, <2>3, <2>4 DEF OnePlace, TypeOK
    <2>8. Wire'
      BY <2>0, <2>1, <2>2 DEF Wire, Empty, Exchange, Reply, Goto, TypeOK
    <2>9. Results'
      BY <2>1 DEF Results, Goto, TypeOK
    <2> QED
      BY <2>5, <2>6, <2>7, <2>8, <2>9
  <1>5. ASSUME NEW t \in Calls, Refused(t) \/ Broken(t) \/ Timeout(t) PROVE IInv'
    <2>0. /\ pc[t] \in {"connect", "send", "read"} /\ Goto(t, "fail")
          /\ UNCHANGED <<want, conn, result, idle, skip, link, asked, told, held>>
      BY <1>5 DEF Refused, Broken, Timeout, InAttempt, server
    <2>1. TypeOK'
      BY <2>0 DEF TypeOK, Goto, Points
    <2>2. Owners' /\ OnePlace'
      BY <2>0 DEF TypeOK, Goto, Owners, OnePlace
    <2>3. Wire'
      BY <2>0 DEF TypeOK, Goto, Wire, Empty, Exchange, Reply
    <2>4. Results'
      BY <2>0 DEF TypeOK, Goto, Results
    <2> QED
      BY <2>1, <2>2, <2>3, <2>4
  <1>6. ASSUME NEW t \in Calls, Send(t) PROVE IInv'
    <2> DEFINE c == conn[t]
    <2>0. /\ pc[t] = "send" /\ Goto(t, "read")
          /\ asked' = [asked EXCEPT ![c] = Append(@, want[t])]
          /\ UNCHANGED <<want, conn, result, idle, skip, link, told, held>>
          /\ link[c] = "up"
      BY <1>6 DEF Send
    <2>1. c \in Conns /\ c # NoConn /\ Empty(c)
      BY <2>0, MemcachedAssumption DEF Owners, Wire
    <2>2. want[t] \in Commands
      BY DEF TypeOK
    <2>3. asked[c] = <<>> /\ asked[c] \in Seq(Commands)
      BY <2>1 DEF Empty, TypeOK
    <2>4. Append(asked[c], want[t]) = <<want[t]>>
      BY <2>2, <2>3
    <2>5. <<want[t]>> \in Seq(Commands)
      BY <2>2
    <2>6. asked' \in [Conns -> Seq(Commands)]
          /\ asked'[c] = <<want[t]>>
          /\ \A d \in Conns \ {c} : asked'[d] = asked[d]
      BY <2>0, <2>1, <2>4, <2>5 DEF TypeOK
    <2>7. TypeOK'
      BY <2>0, <2>6 DEF TypeOK, Goto, Points
    <2>8. Owners' /\ OnePlace'
      BY <2>0, <2>1 DEF TypeOK, Goto, Owners, OnePlace
    <2>9. Wire'
      <3> HIDE DEF c
      <3>1. (\A i \in 1 .. Len(idle) : Empty(idle[i]))'
        <4>1. \A i \in 1 .. Len(idle) : idle[i] # c
          BY <2>1 DEF OnePlace, c
        <4>2. \A i \in 1 .. Len(idle) : asked'[idle[i]] = <<>> /\ told'[idle[i]] = <<>>
          BY <2>0, <2>1, <2>6, <4>1, PoolKeepsWire
        <4> QED
          BY <2>0, <4>2 DEF Empty
      <3>2. ASSUME NEW u \in Calls
            PROVE  /\ pc'[u] \in {"send", "push"} => Empty(conn[u])'
                   /\ pc'[u] = "read" => Exchange(u)'
        <4>1. CASE u = t
          <5>1. pc'[u] = "read"
            BY <4>1, <2>0 DEF Goto, TypeOK
          <5>2. asked'[conn'[u]] = <<want'[u]>> /\ told'[conn'[u]] = <<>>
            BY <4>1, <2>0, <2>1, <2>6 DEF c, Empty
          <5> QED
            BY <5>1, <5>2 DEF Exchange
        <4>2. CASE u # t
          <5>1. conn[u] # c /\ conn'[u] = conn[u] /\ pc'[u] = pc[u]
            BY <4>2, <2>0, <2>1 DEF OnePlace, Goto, TypeOK, c
          <5> QED
            BY <5>1, <2>0, <2>1, <2>6, OthersKeepWire
        <4> QED
          BY <4>1, <4>2
      <3>3. ASSUME NEW d \in Conns
            PROVE  /\ link'[d] = "none" => Empty(d)'
                   /\ link'[d] = "closed" => told'[d] = <<>>
        BY <2>0, <2>1, <2>6 DEF Wire, Empty, c
      <3> QED
        BY <3>1, <3>2, <3>3 DEF Wire
    <2>10. Results'
      BY <2>0 DEF TypeOK, Goto, Results
    <2> QED
      BY <2>7, <2>8, <2>9, <2>10
  <1>7. ASSUME NEW t \in Calls, Read(t) PROVE IInv'
    <2> DEFINE c == conn[t]
               fits == Fits(want[t].op, Reply(t).kind)
    <2>0. /\ pc[t] = "read" /\ told[c] # <<>>
          /\ told' = [told EXCEPT ![c] = Tail(@)]
          /\ UNCHANGED <<want, conn, idle, skip, link, asked, held>>
      BY <1>7 DEF Read
    <2>1. c \in Conns /\ c # NoConn
      BY <2>0, MemcachedAssumption DEF Owners
    <2>2. /\ asked[c] = <<>> /\ Len(told[c]) = 1
          /\ Reply(t).key = want[t].key /\ fits
      BY <2>0 DEF Wire, Exchange, Empty
    <2>3. told[c] \in Seq(Replies)
      BY <2>1 DEF TypeOK
    <2>4. Tail(told[c]) \in Seq(Replies) /\ Len(Tail(told[c])) = 0
      <3> HIDE DEF c
      <3> QED
        BY <2>0, <2>2, <2>3, HeadTailProperties
    <2>5. Tail(told[c]) = <<>>
      BY <2>4, EmptySeq
    <2>6. Goto(t, "push")
          /\ result' = IF Reply(t).kind = "VALUE"
                       THEN [result EXCEPT ![t] = Reply(t).key] ELSE result
      BY <1>7, <2>2 DEF Read
    <2>7. told' \in [Conns -> Seq(Replies)]
          /\ told'[c] = <<>>
          /\ \A d \in Conns \ {c} : told'[d] = told[d]
      BY <2>0, <2>1, <2>4, <2>5 DEF TypeOK
    <2>8. want[t].key \in Keys
      BY DEF TypeOK, Commands
    <2>9. TypeOK'
      BY <2>0, <2>2, <2>6, <2>7, <2>8 DEF TypeOK, Goto, Points
    <2>10. Owners' /\ OnePlace'
      BY <2>0, <2>1, <2>6 DEF TypeOK, Goto, Owners, OnePlace
    <2>11. Wire'
      <3> HIDE DEF c
      <3>1. (\A i \in 1 .. Len(idle) : Empty(idle[i]))'
        <4>1. \A i \in 1 .. Len(idle) : idle[i] # c
          BY <2>1 DEF OnePlace, c
        <4>2. \A i \in 1 .. Len(idle) : asked'[idle[i]] = <<>> /\ told'[idle[i]] = <<>>
          BY <2>0, <2>1, <2>7, <4>1, PoolKeepsWire
        <4> QED
          BY <2>0, <4>2 DEF Empty
      <3>2. ASSUME NEW u \in Calls
            PROVE  /\ pc'[u] \in {"send", "push"} => Empty(conn[u])'
                   /\ pc'[u] = "read" => Exchange(u)'
        <4>1. CASE u = t
          BY <4>1, <2>0, <2>2, <2>6, <2>7 DEF Goto, TypeOK, Empty, c
        <4>2. CASE u # t
          <5>1. conn[u] # c /\ conn'[u] = conn[u] /\ pc'[u] = pc[u]
            BY <4>2, <2>0, <2>6, <2>1 DEF OnePlace, Goto, TypeOK, c
          <5> QED
            BY <5>1, <2>0, <2>1, <2>7, OthersKeepWire
        <4> QED
          BY <4>1, <4>2
      <3>3. ASSUME NEW d \in Conns
            PROVE  /\ link'[d] = "none" => Empty(d)'
                   /\ link'[d] = "closed" => told'[d] = <<>>
        BY <2>0, <2>1, <2>2, <2>7 DEF Wire, Empty, c
      <3> QED
        BY <3>1, <3>2, <3>3 DEF Wire
    <2>12. Results'
      BY <2>0, <2>2, <2>6 DEF TypeOK, Goto, Results
    <2> QED
      BY <2>9, <2>10, <2>11, <2>12
  <1>8. ASSUME NEW t \in Calls, Push(t) PROVE IInv'
    <2> DEFINE c == conn[t]
    <2>0. /\ pc[t] = "push" /\ Goto(t, "idle")
          /\ conn' = [conn EXCEPT ![t] = NoConn]
          /\ UNCHANGED <<want, result, skip>>
      BY <1>8 DEF Push
    <2>1. CASE Len(idle) < POOL_SIZE
      <3>0. idle' = Append(idle, c) /\ UNCHANGED <<link, asked, told, held>>
        BY <1>8, <2>1 DEF Push, server
      <3>1. c \in Conns /\ c # NoConn /\ Empty(c)
        BY <2>0, MemcachedAssumption DEF Owners, Wire
      <3>2. Len(idle) \in Nat /\ idle \in Seq(Conns)
        BY LenProperties DEF TypeOK
      <3>3. /\ idle' \in Seq(Conns)
            /\ Len(idle') = Len(idle) + 1
            /\ \A i \in 1 .. Len(idle) : idle'[i] = idle[i]
            /\ idle'[Len(idle) + 1] = c
        <4> HIDE DEF c
        <4> QED
          BY <3>0, <3>1, <3>2, AppendProperties
      <3>4. \A i \in 1 .. Len(idle') : i \in 1 .. Len(idle) \/ i = Len(idle) + 1
        BY <3>2, <3>3
      <3>5. \A i \in 1 .. Len(idle) : idle[i] # c
        BY <3>1 DEF OnePlace
      <3>6. TypeOK'
        BY <2>0, <3>0, <3>3 DEF TypeOK, Goto, Points
      <3>7. Owners'
        BY <2>0 DEF Owners, Goto, TypeOK
      <3>8. OnePlace'
        <4> HIDE DEF c
        <4>1. \A i, j \in 1 .. Len(idle') : idle'[i] = idle'[j] => i = j
          BY <3>3, <3>4, <3>5 DEF OnePlace
        <4>2. link[c] \in {"up", "down"}
          BY <3>1 DEF OnePlace, c
        <4>3. \A i \in 1 .. Len(idle') : link'[idle'[i]] \in {"up", "down"}
          BY <3>0, <3>3, <3>4, <4>2 DEF OnePlace
        <4>4. ASSUME NEW u \in Calls, conn'[u] # NoConn
              PROVE  /\ link'[conn'[u]] \in {"up", "down"}
                     /\ \A i \in 1 .. Len(idle') : idle'[i] # conn'[u]
                     /\ \A v \in Calls \ {u} : conn'[v] # conn'[u]
          <5>1. u # t /\ conn'[u] = conn[u] /\ conn[u] # c
            BY <2>0, <3>1, <4>4 DEF OnePlace, TypeOK, c
          <5>2. \A i \in 1 .. Len(idle') : idle'[i] # conn[u]
            BY <3>3, <3>4, <4>4, <5>1 DEF OnePlace
          <5> QED
            BY <5>1, <5>2, <2>0, <3>0, <4>4 DEF OnePlace, TypeOK
        <4> QED
          BY <4>1, <4>3, <4>4 DEF OnePlace
      <3>9. Wire'
        <4> HIDE DEF c
        <4>1. (\A i \in 1 .. Len(idle) : Empty(idle[i]))'
          BY <3>0, <3>1, <3>3, <3>4 DEF Wire, Empty
        <4>2. ASSUME NEW u \in Calls
              PROVE  /\ pc'[u] \in {"send", "push"} => Empty(conn[u])'
                     /\ pc'[u] = "read" => Exchange(u)'
          BY <2>0, <3>0 DEF Wire, Empty, Exchange, Reply, Goto, TypeOK
        <4> QED
          BY <3>0, <4>1, <4>2 DEF Wire, Empty
      <3>10. Results'
        BY <2>0 DEF Results, Goto, TypeOK
      <3> QED
        BY <3>6, <3>7, <3>8, <3>9, <3>10
    <2>2. CASE ~(Len(idle) < POOL_SIZE)
      <3>1. UNCHANGED <<want, result, idle, held>> /\ Drop(c)
        BY <1>8, <2>2 DEF Push
      <3>2. skip' \in 0 .. SKIP_FOR
        BY <2>0 DEF TypeOK
      <3> QED
        BY <2>0, <3>1, <3>2, Released
    <2> QED
      BY <2>1, <2>2
  <1>9. ASSUME NEW t \in Calls, Fail(t) \/ Abandon(t) PROVE IInv'
    <2>1. /\ Goto(t, "idle") /\ conn' = [conn EXCEPT ![t] = NoConn] /\ Drop(conn[t])
          /\ UNCHANGED <<want, result, idle, held>>
      BY <1>9 DEF Fail, Abandon
    <2>2. skip' \in 0 .. SKIP_FOR
      BY <1>9, MemcachedAssumption DEF Fail, Abandon, TypeOK
    <2> QED
      BY <2>1, <2>2, Released
  <1>10. ASSUME NEW c \in Conns, Serve(c) PROVE IInv'
    <2> DEFINE w == Head(asked[c])
    <2>0. /\ asked[c] # <<>> /\ link[c] \in {"up", "closed"}
          /\ held' = IF w.op = "set" THEN held \cup {w.key} ELSE held
          /\ told' = IF link[c] = "up" THEN [told EXCEPT ![c] = Append(@, ReplyTo(w))] ELSE told
          /\ asked' = [asked EXCEPT ![c] = Tail(@)]
          /\ link' = IF link[c] = "closed" /\ Len(asked[c]) = 1
                     THEN [link EXCEPT ![c] = "none"] ELSE link
          /\ UNCHANGED <<pc, want, conn, result, idle, skip>>
      BY <1>10 DEF Serve, client
    <2>1. asked[c] \in Seq(Commands) /\ told[c] \in Seq(Replies)
      BY DEF TypeOK
    <2>2. /\ w \in Commands
          /\ Tail(asked[c]) \in Seq(Commands)
          /\ Len(Tail(asked[c])) = Len(asked[c]) - 1
      BY <2>0, <2>1, HeadTailProperties
    <2>3. w.op \in {"get", "set"} /\ w.key \in Keys
      BY <2>2 DEF Commands, Ops
    <2>4. ReplyTo(w) \in Replies /\ ReplyTo(w).key = w.key /\ Fits(w.op, ReplyTo(w).kind)
      BY <2>3 DEF ReplyTo, Replies, Fits
    <2> HIDE DEF w
    <2>5. Append(told[c], ReplyTo(w)) \in Seq(Replies)
      BY <2>1, <2>4, AppendProperties
    <2>6. /\ asked' \in [Conns -> Seq(Commands)] /\ told' \in [Conns -> Seq(Replies)]
          /\ asked'[c] = Tail(asked[c])
          /\ told'[c] = IF link[c] = "up" THEN Append(told[c], ReplyTo(w)) ELSE told[c]
          /\ \A d \in Conns \ {c} : asked'[d] = asked[d] /\ told'[d] = told[d]
      BY <2>0, <2>2, <2>5 DEF TypeOK
    <2>7. /\ link' \in [Conns -> {"none", "up", "down", "closed"}]
          /\ \A d \in Conns : \/ link'[d] = link[d]
                            \/ (d = c /\ link[c] = "closed" /\ link'[c] = "none")
          /\ link[c] = "up" => link'[c] = "up"
      <3>1. CASE link[c] = "closed" /\ Len(asked[c]) = 1
        BY <2>0, <3>1 DEF TypeOK
      <3>2. CASE ~(link[c] = "closed" /\ Len(asked[c]) = 1)
        BY <2>0, <3>2 DEF TypeOK
      <3> QED
        BY <3>1, <3>2
    <2>8. TypeOK'
      BY <2>0, <2>3, <2>6, <2>7 DEF TypeOK
    <2>9. Owners'
      BY <2>0 DEF Owners
    <2>10. OnePlace'
      <3>1. \A d \in Conns : link[d] \in {"up", "down"} => link'[d] \in {"up", "down"}
        BY <2>7
      <3>2. \A i \in 1 .. Len(idle) : link'[idle[i]] \in {"up", "down"}
        BY <3>1, PoolEntries DEF OnePlace
      <3>3. \A u \in Calls : conn[u] # NoConn => link'[conn[u]] \in {"up", "down"}
        BY <1>0, <3>1 DEF OnePlace
      <3> QED
        BY <2>0, <3>2, <3>3 DEF OnePlace
    <2>11. Wire'
      <3>1. (\A i \in 1 .. Len(idle) : Empty(idle[i]))'
        <4>1. \A i \in 1 .. Len(idle) : idle[i] # c
          BY <2>0 DEF Wire, Empty
        <4>2. \A i \in 1 .. Len(idle) : asked'[idle[i]] = <<>> /\ told'[idle[i]] = <<>>
          BY <2>6, <4>1, PoolKeepsWire
        <4> QED
          BY <2>0, <4>2 DEF Empty
      <3>2. ASSUME NEW u \in Calls
            PROVE  /\ pc'[u] \in {"send", "push"} => Empty(conn[u])'
                   /\ pc'[u] = "read" => Exchange(u)'
        <4>1. CASE conn[u] = c
          <5>1. pc[u] \notin {"send", "push"}
            BY <4>1, <2>0 DEF Wire, Empty
          <5>2. CASE pc[u] = "read"
            <6>1. asked[c] = <<want[u]>> /\ told[c] = <<>>
              BY <4>1, <5>2, <2>0 DEF Wire, Exchange, Empty
            <6>2. c # NoConn /\ link[c] = "up"
              BY <4>1, <2>0, MemcachedAssumption DEF OnePlace
            <6>3. w = want[u] /\ asked'[c] = <<>>
              BY <6>1, <2>6 DEF w
            <6>4. told'[c] = <<ReplyTo(w)>>
              BY <6>1, <6>2, <2>6
            <6>5. Len(told'[c]) = 1 /\ Head(told'[c]) = ReplyTo(w)
              BY <6>4
            <6> QED
              BY <4>1, <5>2, <6>3, <6>5, <2>0, <2>4 DEF Exchange, Reply
          <5> QED
            BY <5>1, <5>2, <2>0
        <4>2. CASE conn[u] # c
          BY <4>2, <2>0, <2>6, OthersKeepWire
        <4> QED
          BY <4>1, <4>2
      <3>3. ASSUME NEW d \in Conns
            PROVE  /\ link'[d] = "none" => Empty(d)'
                   /\ link'[d] = "closed" => told'[d] = <<>>
        <4>1. CASE d # c
          BY <4>1, <2>6, <2>7 DEF Wire, Empty
        <4>2. CASE d = c /\ link[c] = "up"
          BY <4>2, <2>7
        <4>3. CASE d = c /\ link[c] = "closed"
          <5>1. told'[c] = <<>>
            BY <4>3, <2>6 DEF Wire
          <5>2. link'[c] = "none" => asked'[c] = <<>>
            <6>1. Len(asked[c]) = 1 => Len(Tail(asked[c])) = 0
              BY <2>2
            <6>2. Len(asked[c]) = 1 => Tail(asked[c]) = <<>>
              BY <6>1, <2>2, EmptySeq
            <6> QED
              BY <4>3, <6>2, <2>0, <2>6
          <5> QED
            BY <4>3, <5>1, <5>2 DEF Empty
        <4> QED
          BY <4>1, <4>2, <4>3, <2>0
      <3> QED
        BY <3>1, <3>2, <3>3 DEF Wire
    <2>12. Results'
      BY <2>0 DEF Results
    <2> QED
      BY <2>8, <2>9, <2>10, <2>11, <2>12
  <1>11. ASSUME NEW c \in Conns, Teardown(c) PROVE IInv'
    <2>0. /\ link[c] = "closed"
          /\ link' = [link EXCEPT ![c] = "none"]
          /\ asked' = [asked EXCEPT ![c] = <<>>]
          /\ UNCHANGED <<pc, want, conn, result, idle, skip, told, held>>
      BY <1>11 DEF Teardown, client
    <2>1. \A i \in 1 .. Len(idle) : idle[i] # c
      BY <2>0 DEF OnePlace
    <2>2. \A u \in Calls : conn[u] # NoConn => conn[u] # c
      BY <2>0 DEF OnePlace
    <2>3. <<>> \in Seq(Commands)
      BY EmptySeq
    <2>4. TypeOK'
      BY <2>0, <2>3 DEF TypeOK
    <2>5. Owners' /\ Results'
      BY <2>0 DEF Owners, Results
    <2>6. OnePlace'
      BY <2>0, <2>1, <2>2, PoolEntries, <1>0 DEF OnePlace, TypeOK
    <2>7. Wire'
      <3>1. (\A i \in 1 .. Len(idle) : Empty(idle[i]))'
        BY <2>0, <2>1, PoolEntries DEF Wire, Empty, TypeOK
      <3>2. ASSUME NEW u \in Calls
            PROVE  /\ pc'[u] \in {"send", "push"} => Empty(conn[u])'
                   /\ pc'[u] = "read" => Exchange(u)'
        <4>1. CASE pc[u] \in {"send", "push", "read"}
          <5>1. conn[u] # c
            BY <4>1, <2>2, MemcachedAssumption DEF Owners
          <5>2. \A d \in Conns \ {c} : asked'[d] = asked[d] /\ told'[d] = told[d]
            BY <2>0 DEF TypeOK
          <5> QED
            BY <5>1, <5>2, <2>0, OthersKeepWire
        <4>2. CASE pc[u] \notin {"send", "push", "read"}
          BY <4>2, <2>0
        <4> QED
          BY <4>1, <4>2
      <3> QED
        BY <3>1, <3>2, <2>0 DEF Wire, Empty, TypeOK
    <2> QED
      BY <2>4, <2>5, <2>6, <2>7
  <1>12. ASSUME Restart PROVE IInv'
    <2>0. PICK lost \in SUBSET Conns :
            told' = [c \in Conns |-> IF c \in lost THEN <<>> ELSE told[c]]
      BY <1>12 DEF Restart
    <2>1. /\ held' = {}
          /\ link' = [c \in Conns |-> CASE link[c] = "up" -> "down"
                                        [] link[c] = "closed" -> "none"
                                        [] OTHER -> link[c]]
          /\ asked' = [c \in Conns |-> <<>>]
          /\ UNCHANGED <<pc, want, conn, result, idle, skip>>
      BY <1>12 DEF Restart, client
    <2>2. \A c \in Conns : /\ asked'[c] = <<>>
                           /\ told'[c] \in {<<>>, told[c]}
                           /\ link[c] \in {"up", "down"} => link'[c] = "down"
                           /\ link[c] \notin {"up", "down"} => link'[c] = "none"
      BY <2>0, <2>1 DEF TypeOK
    <2>3. <<>> \in Seq(Commands) /\ <<>> \in Seq(Replies)
      BY EmptySeq
    <2>4. TypeOK'
      <3>1. told' \in [Conns -> Seq(Replies)]
        BY <2>0, <2>3 DEF TypeOK
      <3>2. asked' \in [Conns -> Seq(Commands)]
        BY <2>1, <2>3
      <3>3. link' \in [Conns -> {"none", "up", "down", "closed"}]
        BY <2>1 DEF TypeOK
      <3> QED
        BY <2>1, <3>1, <3>2, <3>3 DEF TypeOK
    <2>5. Owners' /\ Results'
      BY <2>1 DEF Owners, Results
    <2>6. OnePlace'
      <3>1. \A i \in 1 .. Len(idle) : link'[idle[i]] \in {"up", "down"}
        BY <2>2, PoolEntries DEF OnePlace
      <3>2. \A u \in Calls : conn[u] # NoConn => link'[conn[u]] \in {"up", "down"}
        BY <1>0, <2>2 DEF OnePlace
      <3> QED
        BY <2>1, <3>1, <3>2 DEF OnePlace
    <2>7. Wire'
      <3>1. (\A i \in 1 .. Len(idle) : Empty(idle[i]))'
        BY <2>1, <2>2, PoolEntries DEF Wire, Empty
      <3>2. ASSUME NEW u \in Calls
            PROVE  /\ pc'[u] \in {"send", "push"} => Empty(conn[u])'
                   /\ pc'[u] = "read" => Exchange(u)'
        <4>1. CASE pc[u] \in {"send", "push"}
          BY <4>1, <2>1, <2>2 DEF Owners, Wire, Empty
        <4>2. CASE pc[u] = "read"
          <5>1. conn[u] \in Conns
            BY <4>2 DEF Owners
          <5>2. asked'[conn[u]] = <<>> /\ told'[conn[u]] \in {<<>>, told[conn[u]]}
            BY <5>1, <2>2
          <5>3. CASE told'[conn[u]] = <<>>
            BY <4>2, <5>2, <5>3, <2>1 DEF Exchange, Empty
          <5>4. CASE told'[conn[u]] = told[conn[u]]
            BY <4>2, <5>2, <5>4, <2>1 DEF Wire, Exchange, Empty, Reply
          <5> QED
            BY <5>2, <5>3, <5>4
        <4>3. CASE pc[u] \notin {"send", "push", "read"}
          BY <4>3, <2>1
        <4> QED
          BY <4>1, <4>2, <4>3
      <3>3. ASSUME NEW d \in Conns
            PROVE  /\ link'[d] = "none" => Empty(d)'
                   /\ link'[d] = "closed" => told'[d] = <<>>
        <4>1. link[d] \in {"none", "up", "down", "closed"}
          BY DEF TypeOK
        <4> QED
          BY <2>2, <4>1 DEF Wire, Empty
      <3> QED
        BY <3>1, <3>2, <3>3 DEF Wire
    <2> QED
      BY <2>4, <2>5, <2>6, <2>7
  <1>13. ASSUME NEW k \in Keys, Evict(k) PROVE IInv'
    <2>0. held' = held \ {k} /\ UNCHANGED <<pc, want, conn, result, idle, skip, link, asked, told>>
      BY <1>13 DEF Evict, client
    <2> QED
      BY <2>0 DEF TypeOK, Owners, OnePlace, Wire, Results, Empty, Exchange, Reply
  <1>14. ASSUME Tick PROVE IInv'
    <2>0. /\ skip > 0 /\ skip' = skip - 1
          /\ UNCHANGED <<pc, want, conn, result, idle, link, asked, told, held>>
      BY <1>14 DEF Tick, server
    <2>1. skip' \in 0 .. SKIP_FOR
      BY <2>0, MemcachedAssumption DEF TypeOK
    <2> QED
      BY <2>0, <2>1 DEF TypeOK, Owners, OnePlace, Wire, Results, Empty, Exchange, Reply
  <1>15. CASE UNCHANGED vars
    BY <1>15 DEF vars, TypeOK, Owners, OnePlace, Wire, Results, Empty, Exchange, Reply
  <1> QED
    BY <1>1, <1>2, <1>3, <1>4, <1>5, <1>6, <1>7, <1>8, <1>9, <1>10, <1>11, <1>12, <1>13,
       <1>14, <1>15 DEF Next, Attempt, Proceed

\* The invariant holds of every behaviour.
LEMMA Invariance == Spec => []IInv
  BY IInit, IStep, PTL DEF Spec

\* The client's state has the shape it should, and the window is never longer
\* than SKIP_FOR.
THEOREM TypeCorrect == Spec => []TypeOK
  <1>1. IInv => TypeOK
    BY DEF IInv
  <1> QED
    BY <1>1, Invariance, PTL


\* A connection is used by one call or waits once in the pool.
THEOREM OneUserEach == Spec => []OneUser
  <1>1. IInv => OneUser
    <2> SUFFICES ASSUME IInv PROVE OneUser
      OBVIOUS
    <2> DEFINE n == Len(idle)
    <2>1. n \in Nat /\ idle \in [1 .. n -> Conns] /\ DOMAIN idle = 1 .. n
      BY LenProperties DEF IInv, TypeOK
    <2>2. idle \in [1 .. n -> Pooled]
      BY <2>1 DEF Pooled
    <2>3. \A i, j \in 1 .. n : idle[i] = idle[j] => i = j
      BY DEF IInv, OnePlace
    <2>4. \A c \in Pooled : \E i \in 1 .. n : idle[i] = c
      BY DEF Pooled
    <2>5. Cardinality(Pooled) = n
      <3> HIDE DEF n
      <3>1. idle \in Injection(1 .. n, Pooled)
        BY <2>2, <2>3 DEF Injection, IsInjective
      <3>2. idle \in Surjection(1 .. n, Pooled)
        BY <2>2, <2>4 DEF Surjection
      <3>3. ExistsBijection(1 .. n, Pooled)
        BY <3>1, <3>2 DEF ExistsBijection, Bijection
      <3> QED
        BY <3>3, <2>1, FS_CountingElements
    <2>6. \A t \in Calls : conn[t] # NoConn =>
            conn[t] \notin Pooled /\ \A u \in Calls \ {t} : conn[u] # conn[t]
      BY DEF IInv, OnePlace, Pooled
    <2> QED
      BY <2>5, <2>6 DEF OneUser
  <1> QED
    BY <1>1, Invariance, PTL

\* No call meets an earlier call's reply.
THEOREM RepliesInStep == Spec => []InStep
  <1>1. IInv => InStep
    <2> SUFFICES ASSUME IInv PROVE InStep
      OBVIOUS
    <2>1. \A c \in Pooled : asked[c] = <<>> /\ told[c] = <<>>
      BY DEF IInv, Wire, Empty, Pooled
    <2>2. ASSUME NEW t \in Calls, pc[t] = "read", told[conn[t]] # <<>>
          PROVE  Reply(t).key = want[t].key /\ Fits(want[t].op, Reply(t).kind)
      BY <2>2 DEF IInv, Wire, Exchange, Empty
    <2> QED
      BY <2>1, <2>2 DEF InStep
  <1> QED
    BY <1>1, Invariance, PTL

\* So no get returns the value of another key.
THEOREM AnswersRight == Spec => []RightAnswer
  <1>1. IInv => RightAnswer
    BY DEF IInv, Results, RightAnswer
  <1> QED
    BY <1>1, Invariance, PTL

\* Nothing but the clock shortens a skip window: a later failure starts one
\* that ends no earlier.
THEOREM WindowHolds == Spec => WindowRunsOut
  <1>1. TypeOK /\ [Next]_vars => [skip' < skip => skip' = skip - 1 /\ UNCHANGED pc]_vars
    <2> SUFFICES ASSUME TypeOK, Next, skip' < skip PROVE skip' = skip - 1 /\ UNCHANGED pc
      BY DEF vars
    <2>0. skip \in 0 .. SKIP_FOR /\ SKIP_FOR \in Nat
      BY MemcachedAssumption DEF TypeOK
    <2>1. ASSUME NEW t \in Calls, Begin(t) \/ Attempt(t) \/ Abandon(t) PROVE skip' = skip
      BY <2>1 DEF Begin, Attempt, Connect, Refused, Send, Read, Broken, Abandon
    <2>2. ASSUME NEW t \in Calls, Proceed(t) PROVE skip' \in {skip, SKIP_FOR}
      BY <2>2 DEF Proceed, Skipping, Pop, Push, Timeout, Fail
    <2>3. ASSUME NEW c \in Conns, Serve(c) \/ Teardown(c) PROVE skip' = skip
      BY <2>3 DEF Serve, Teardown, client
    <2>4. ASSUME NEW k \in Keys, Evict(k) PROVE skip' = skip
      BY <2>4 DEF Evict, client
    <2>5. ASSUME Restart PROVE skip' = skip
      BY <2>5 DEF Restart, client
    <2>6. CASE Tick
      BY <2>6 DEF Tick
    <2> QED
      BY <2>0, <2>1, <2>2, <2>3, <2>4, <2>5, <2>6 DEF Next
  <1> QED
    BY <1>1, TypeCorrect, PTL DEF Spec, WindowRunsOut

----
(* The client implements the shared cache.                                 *)

\* A reading call whose value is on its connection has been given it.
Given(t) == \/ /\ pc[t] = "read"
               /\ \E i \in 1 .. Len(told[conn[t]]) : told[conn[t]][i].kind = "VALUE"
            \/ pc[t] = "push" /\ result[t] # NoKey

Busy  == {t \in Calls : pc[t] # "idle"}
Saw   == {t \in Calls : Given(t)}
Ended == [t \in Calls |-> IF pc[t] = "idle" THEN result[t] ELSE NoKey]

\* The two specifications start alike.
LEMMA RefinesInit == Init => SC!Init
  BY DEF Init, SC!Init, Commands

\* A step of one call maps to a change of that call alone.
LEMMA OneCall ==
    ASSUME NEW t \in Calls,
           \A u \in Calls \ {t} :
               /\ pc'[u] = pc[u] /\ conn'[u] = conn[u] /\ result'[u] = result[u]
               /\ pc[u] = "read" => told'[conn[u]] = told[conn[u]]
    PROVE  /\ Busy' = IF pc'[t] = "idle" THEN Busy \ {t} ELSE Busy \cup {t}
           /\ Saw' = IF Given(t)' THEN Saw \cup {t} ELSE Saw \ {t}
           /\ Ended' = [Ended EXCEPT ![t] = IF pc'[t] = "idle" THEN result'[t] ELSE NoKey]
  <1>1. \A u \in Calls \ {t} : Given(u)' <=> Given(u)
    BY DEF Given
  <1> QED
    BY <1>1 DEF Busy, Saw, Ended

\* A step in the middle of a call is no step of the cache.
LEMMA Inside ==
    ASSUME IInv, NEW t \in Calls,
           \A u \in Calls \ {t} :
               /\ pc'[u] = pc[u] /\ conn'[u] = conn[u] /\ result'[u] = result[u]
               /\ pc[u] = "read" => told'[conn[u]] = told[conn[u]],
           pc[t] # "idle", pc'[t] # "idle", Given(t)' <=> Given(t), UNCHANGED <<held, want>>
    PROVE  UNCHANGED SC!vars
  <1>1. Busy' = Busy
    BY OneCall DEF Busy
  <1>2. Saw' = Saw
    BY OneCall DEF Saw
  <1>3. Ended' = Ended
    BY OneCall DEF Ended
  <1> QED
    BY <1>1, <1>2, <1>3 DEF SC!vars, Busy, Saw, Ended, Given

\* The step that ends a call ends it for the cache.
LEMMA Ends ==
    ASSUME IInv, NEW t \in Calls,
           \A u \in Calls \ {t} :
               /\ pc'[u] = pc[u] /\ conn'[u] = conn[u] /\ result'[u] = result[u]
               /\ pc[u] = "read" => told'[conn[u]] = told[conn[u]],
           pc[t] # "idle", pc'[t] = "idle", UNCHANGED <<held, want>>, result'[t] = result[t]
    PROVE  SC!Next
  <1>1. Busy' = Busy \ {t} /\ t \in Busy
    BY OneCall DEF Busy
  <1>2. Saw' = Saw \ {t}
    <2>1. ~Given(t)'
      BY DEF Given
    <2> QED
      BY <2>1, OneCall
  <1>3. Ended' = [Ended EXCEPT ![t] = result[t]]
    BY OneCall
  <1>4. result[t] = NoKey \/ (t \in Saw /\ result[t] = want[t].key)
    BY DEF IInv, Results, Saw, Given
  <1>5. result[t] \in Keys \cup {NoKey}
    BY DEF IInv, TypeOK
  <1>6. PICK r \in Keys \cup {NoKey} : r = result[t]
    BY <1>5
  <1>7. SC!End(t, r)
    BY <1>1, <1>2, <1>3, <1>4, <1>6 DEF SC!End, Busy, Saw, Ended, Given
  <1> QED
    BY <1>7 DEF SC!Next

\* Every step of the client, of the server and of the clock is one of the
\* cache or none.
LEMMA RefinesStep == IInv /\ [Next]_vars => [SC!Next]_(SC!vars)
  <1> SUFFICES ASSUME IInv, [Next]_vars PROVE SC!Next \/ UNCHANGED SC!vars
    OBVIOUS
  <1>0. \A t \in Calls, point \in Points :
          Goto(t, point) => pc'[t] = point /\ \A u \in Calls \ {t} : pc'[u] = pc[u]
    BY DEF Goto, IInv, TypeOK
  <1>1. ASSUME NEW t \in Calls, Begin(t) PROVE SC!Next
    <2>0. /\ pc[t] = "idle" /\ pc'[t] = "skipping"
          /\ \A u \in Calls \ {t} :
               /\ pc'[u] = pc[u] /\ conn'[u] = conn[u] /\ result'[u] = result[u]
               /\ pc[u] = "read" => told'[conn[u]] = told[conn[u]]
          /\ \E w \in Commands : want' = [want EXCEPT ![t] = w]
          /\ held' = held
      BY <1>1, <1>0 DEF Begin, server, IInv, TypeOK, Points
    <2>1. Busy' = Busy \cup {t} /\ t \notin Busy
      BY <2>0, OneCall DEF Busy
    <2>2. Saw' = Saw
      <3>1. ~Given(t) /\ ~Given(t)'
        BY <2>0 DEF Given
      <3> QED
        BY <2>0, <3>1, OneCall DEF Saw
    <2>3. Ended' = [Ended EXCEPT ![t] = NoKey]
      BY <2>0, OneCall
    <2>4. SC!Begin(t)
      BY <2>0, <2>1, <2>2, <2>3 DEF SC!Begin, Busy, Saw, Ended, Given, Commands
    <2> QED
      BY <2>4 DEF SC!Next
  <1>2. ASSUME NEW t \in Calls, Skipping(t) \/ Pop(t) PROVE SC!Next \/ UNCHANGED SC!vars
    <2>0. /\ pc[t] \in {"skipping", "pop"} /\ pc'[t] \in {"idle", "pop", "connect", "send"}
          /\ \A u \in Calls \ {t} :
               /\ pc'[u] = pc[u] /\ conn'[u] = conn[u] /\ result'[u] = result[u]
               /\ pc[u] = "read" => told'[conn[u]] = told[conn[u]]
          /\ UNCHANGED <<held, want, result>>
      BY <1>2, <1>0 DEF Skipping, Pop, server, IInv, TypeOK, Points
    <2>1. CASE pc'[t] = "idle"
      BY <2>0, <2>1, Ends
    <2>2. CASE pc'[t] # "idle"
      <3>1. ~Given(t) /\ ~Given(t)'
        BY <2>0 DEF Given
      <3> QED
        BY <2>0, <2>2, <3>1, Inside
    <2> QED
      BY <2>1, <2>2
  <1>3. ASSUME NEW t \in Calls, Connect(t) \/ Refused(t) \/ Send(t) \/ Broken(t)
        PROVE  UNCHANGED SC!vars
    <2>0. /\ pc[t] \in {"connect", "send", "read"} /\ pc'[t] \in {"send", "read", "fail"}
          /\ \A u \in Calls \ {t} :
               /\ pc'[u] = pc[u] /\ conn'[u] = conn[u] /\ result'[u] = result[u]
               /\ pc[u] = "read" => told'[conn[u]] = told[conn[u]]
          /\ UNCHANGED <<held, want, result>>
      BY <1>3, <1>0 DEF Connect, Refused, Send, Broken, server, IInv, TypeOK, Points
    <2>1. pc'[t] = "read" => told'[conn'[t]] = <<>>
      BY <1>3, <1>0 DEF Connect, Refused, Send, Broken, server, IInv, Points, Wire, Empty
    <2>2. pc[t] = "read" => told[conn[t]] = <<>>
      BY <1>3 DEF Connect, Refused, Send, Broken
    <2>3. ~Given(t) /\ ~Given(t)'
      BY <2>0, <2>1, <2>2 DEF Given
    <2> QED
      BY <2>0, <2>3, Inside
  <1>4. ASSUME NEW t \in Calls, Read(t) PROVE UNCHANGED SC!vars
    <2> DEFINE c == conn[t]
    <2>0. /\ pc[t] = "read" /\ told[c] # <<>>
          /\ told' = [told EXCEPT ![c] = Tail(@)]
          /\ UNCHANGED <<want, conn, held>>
      BY <1>4 DEF Read
    <2>1. c \in Conns /\ c # NoConn
      BY <2>0, MemcachedAssumption DEF IInv, Owners
    <2>2. /\ Len(told[c]) = 1 /\ Reply(t).key = want[t].key
          /\ Fits(want[t].op, Reply(t).kind)
      BY <2>0 DEF IInv, Wire, Exchange, Empty
    <2>3. /\ pc'[t] = "push" /\ \A u \in Calls \ {t} : pc'[u] = pc[u]
          /\ result' = IF Reply(t).kind = "VALUE"
                       THEN [result EXCEPT ![t] = Reply(t).key] ELSE result
      BY <1>4, <1>0, <2>2 DEF Read, Points
    <2>4. \A u \in Calls \ {t} :
            /\ pc'[u] = pc[u] /\ conn'[u] = conn[u] /\ result'[u] = result[u]
            /\ pc[u] = "read" => told'[conn[u]] = told[conn[u]]
      BY <2>0, <2>1, <2>3 DEF IInv, OnePlace, Owners, TypeOK
    <2>5. Given(t) <=> Reply(t).kind = "VALUE"
      BY <2>0, <2>2 DEF Given, Reply
    <2>6. Given(t)' <=> Reply(t).kind = "VALUE"
      <3>1. want[t].key \in Keys /\ result[t] = NoKey
        BY <2>0 DEF IInv, TypeOK, Commands, Results
      <3> QED
        BY <2>2, <2>3, <3>1, MemcachedAssumption DEF Given, IInv, TypeOK
    <2> QED
      BY <2>0, <2>3, <2>4, <2>5, <2>6, Inside
  <1>5. ASSUME NEW t \in Calls, Push(t) \/ Fail(t) \/ Abandon(t) PROVE SC!Next
    <2>0. /\ pc[t] # "idle" /\ pc'[t] = "idle" /\ \A u \in Calls \ {t} : pc'[u] = pc[u]
          /\ conn' = [conn EXCEPT ![t] = NoConn]
          /\ UNCHANGED <<held, want, result>>
          /\ told' = told \/ Drop(conn[t])
      BY <1>5, <1>0 DEF Push, Fail, Abandon, InAttempt, Points, server
    <2>1. conn[t] \in Conns \cup {NoConn}
      BY DEF IInv, TypeOK
    <2>2. told' = told \/ (conn[t] # NoConn /\ told' = [told EXCEPT ![conn[t]] = <<>>])
      BY <2>0 DEF Drop
    <2>3. \A u \in Calls \ {t} : pc[u] = "read" => told'[conn[u]] = told[conn[u]]
      BY <2>1, <2>2 DEF IInv, OnePlace, Owners, TypeOK
    <2>4. \A u \in Calls \ {t} : conn'[u] = conn[u]
      BY <2>0 DEF IInv, TypeOK
    <2> QED
      BY <2>0, <2>3, <2>4, Ends
  <1>6. ASSUME NEW t \in Calls, Timeout(t) PROVE SC!Next
    <2>0. /\ pc[t] # "idle" /\ pc'[t] = "fail" /\ \A u \in Calls \ {t} : pc'[u] = pc[u]
          /\ UNCHANGED <<held, want, conn, result, told>>
      BY <1>6, <1>0 DEF Timeout, InAttempt, Points, server
    <2>1. Busy' = Busy /\ Ended' = Ended
      BY <2>0, OneCall DEF Busy, Ended
    <2>2. Saw' = Saw \ ({t} \cap Saw)
      <3>1. ~Given(t)'
        BY <2>0 DEF Given
      <3> QED
        BY <2>0, <3>1, OneCall
    <2>3. PICK lost \in SUBSET held, unseen \in SUBSET Saw :
            lost = {} /\ unseen = {t} \cap Saw
      OBVIOUS
    <2>4. SC!Lose(lost, unseen)
      BY <2>0, <2>1, <2>2, <2>3 DEF SC!Lose, Busy, Saw, Ended, Given
    <2> QED
      BY <2>4 DEF SC!Next, Saw, Given
  <1>7. ASSUME NEW c \in Conns, Serve(c) PROVE SC!Next \/ UNCHANGED SC!vars
    <2> DEFINE w == Head(asked[c])
    <2>0. /\ asked[c] # <<>>
          /\ held' = IF w.op = "set" THEN held \cup {w.key} ELSE held
          /\ told' = IF link[c] = "up" THEN [told EXCEPT ![c] = Append(@, ReplyTo(w))] ELSE told
          /\ UNCHANGED <<pc, want, conn, result>>
      BY <1>7 DEF Serve, client
    <2>1. w \in Commands
      BY <2>0, HeadTailProperties DEF IInv, TypeOK
    <2>2. Busy' = Busy /\ Ended' = Ended
      BY <2>0 DEF Busy, Ended
    <2> HIDE DEF w
    <2>3. \A t \in Calls : conn[t] # c \/ pc[t] # "read" => (Given(t)' <=> Given(t))
      BY <2>0 DEF Given, IInv, TypeOK, Owners
    <2>4. ASSUME NEW t \in Calls, conn[t] = c, pc[t] = "read"
          PROVE  /\ w = want[t] /\ ~Given(t)
                 /\ Given(t)' <=> ReplyTo(w).kind = "VALUE"
      <3>1. asked[c] = <<want[t]>> /\ told[c] = <<>>
        BY <2>0, <2>4 DEF IInv, Wire, Exchange, Empty
      <3>2. c # NoConn
        BY MemcachedAssumption
      <3>3. link[c] = "up"
        BY <1>7, <2>4, <3>2 DEF Serve, IInv, OnePlace
      <3>4. told'[c] = <<ReplyTo(w)>>
        BY <2>0, <3>1, <3>3 DEF IInv, TypeOK
      <3>5. Given(t)' <=> ReplyTo(w).kind = "VALUE"
        BY <2>0, <2>4, <3>4 DEF Given
      <3> QED
        BY <2>4, <3>1, <3>5 DEF Given, w
    <2>5. CASE \E t \in Calls : conn[t] = c /\ pc[t] = "read" /\ ReplyTo(w).kind = "VALUE"
      <3>1. PICK t \in Calls : conn[t] = c /\ pc[t] = "read" /\ ReplyTo(w).kind = "VALUE"
        BY <2>5
      <3>2. w = want[t] /\ w.op = "get" /\ w.key \in held
        BY <2>1, <2>4, <3>1 DEF ReplyTo, Commands, Ops
      <3>3. \A u \in Calls \ {t} : conn[u] # c
        BY <3>1, MemcachedAssumption DEF IInv, OnePlace
      <3>4. Saw' = Saw \cup {t}
        BY <2>3, <2>4, <3>1, <3>3 DEF Saw
      <3>5. SC!See(t)
        BY <2>0, <2>2, <3>1, <3>2, <3>4 DEF SC!See, Busy, Saw, Ended, Given
      <3> QED
        BY <3>5 DEF SC!Next
    <2>6. CASE ~\E t \in Calls : conn[t] = c /\ pc[t] = "read" /\ ReplyTo(w).kind = "VALUE"
      <3>1. Saw' = Saw
        BY <2>3, <2>4, <2>6 DEF Saw
      <3>2. CASE w.op = "set"
        <4>1. PICK k \in Keys : k = w.key
          BY <2>1 DEF Commands
        <4>2. SC!Land(k)
          BY <2>0, <2>2, <3>1, <3>2, <4>1 DEF SC!Land, Busy, Saw, Ended, Given
        <4> QED
          BY <4>2 DEF SC!Next
      <3>3. CASE w.op # "set"
        BY <2>0, <2>2, <3>1, <3>3 DEF SC!vars, Busy, Saw, Ended, Given
      <3> QED
        BY <3>2, <3>3
    <2> QED
      BY <2>5, <2>6
  <1>8. ASSUME Restart PROVE SC!Next
    <2>0. /\ held' = {} /\ UNCHANGED <<pc, want, conn, result>>
          /\ \A c \in Conns : told'[c] \in {<<>>, told[c]}
      BY <1>8 DEF Restart, client
    <2>1. \A t \in Calls : Given(t)' => Given(t)
      <3> SUFFICES ASSUME NEW t \in Calls, Given(t)' PROVE Given(t)
        OBVIOUS
      <3>1. CASE pc[t] = "read"
        <4>1. conn[t] \in Conns
          BY <3>1 DEF IInv, Owners
        <4>2. told'[conn[t]] \in {<<>>, told[conn[t]]}
          BY <2>0, <4>1
        <4> QED
          BY <2>0, <3>1, <4>2 DEF Given
      <3> QED
        BY <2>0, <3>1 DEF Given
    <2>2. Busy' = Busy /\ Ended' = Ended /\ Saw' \subseteq Saw
      BY <2>0, <2>1 DEF Busy, Ended, Saw
    <2>3. PICK lost \in SUBSET held, unseen \in SUBSET Saw :
            lost = held /\ unseen = Saw \ Saw'
      OBVIOUS
    <2>4. held' = held \ lost /\ Saw' = Saw \ unseen
      BY <2>0, <2>2, <2>3
    <2>5. SC!Lose(lost, unseen)
      BY <2>0, <2>2, <2>4 DEF SC!Lose, Busy, Saw, Ended, Given
    <2> QED
      BY <2>5 DEF SC!Next, Saw, Given
  <1>9. ASSUME NEW k \in Keys, Evict(k) PROVE SC!Next
    <2>0. k \in held /\ held' = held \ {k} /\ UNCHANGED <<pc, want, conn, result, told>>
      BY <1>9 DEF Evict, client
    <2>1. PICK lost \in SUBSET held, unseen \in SUBSET Saw : lost = {k} /\ unseen = {}
      BY <2>0
    <2>2. Busy' = Busy /\ Ended' = Ended /\ Saw' = Saw
      BY <2>0 DEF Busy, Ended, Saw, Given
    <2>3. held' = held \ lost /\ Saw' = Saw \ unseen
      BY <2>0, <2>1, <2>2
    <2>4. SC!Lose(lost, unseen)
      BY <2>0, <2>2, <2>3 DEF SC!Lose, Busy, Saw, Ended, Given
    <2> QED
      BY <2>4 DEF SC!Next, Saw, Given
  <1>10. ASSUME Tick \/ (\E c \in Conns : Teardown(c)) \/ UNCHANGED vars PROVE UNCHANGED SC!vars
    <2>0. UNCHANGED <<held, pc, want, conn, result, told>>
      BY <1>10 DEF Tick, Teardown, client, server, vars
    <2> QED
      BY <2>0 DEF SC!vars
  <1> QED
    BY <1>1, <1>2, <1>3, <1>4, <1>5, <1>6, <1>7, <1>8, <1>9, <1>10 DEF Next, Attempt, Proceed

\* With its pool, its timeouts, its skip window and a server that restarts
\* the client is the shared cache: the refinement that the fetch path needs.
THEOREM ImplementsSharedCache == Spec => SharedCacheSpec
  BY RefinesInit, RefinesStep, Invariance, PTL DEF Spec, SharedCacheSpec, SC!Spec

====
