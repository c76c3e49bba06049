----------------------------- MODULE SelectPool ------------------------------
(***************************************************************************)
(* The servers of src/ch12 that serve every client from one thread around  *)
(* select: p1223.c echoes, p1236.c answers one request and closes.  Both   *)
(* keep their clients in the pool of pool.c, and read and write with rio.c. *)
(*                                                                         *)
(* What a client sends is counted, in bytes for p1223.c and in lines for   *)
(* p1236.c, whose requests are a request line, a header and an empty line. *)
(***************************************************************************)
EXTENDS Integers, FiniteSets, FiniteSetsExt

CONSTANTS Clients,    \* each connects once; numbered in the order they do
          SetSize,    \* FD_SETSIZE, also the limit on open descriptors
          MaxLine,    \* MAXLINE
          RioBufSize, \* RIO_BUFSIZE, the most that one read takes
          Room,       \* the bytes a connection holds that its client has not read
          Answer,     \* the bytes of an answer of p1236.c
          MaxBytes,   \* bounds: how much the clients send in all,
          MaxLines    \* to p1223.c and to p1236.c

ASSUME SelectAssumption ==
  /\ Clients \subseteq Nat /\ IsFiniteSet(Clients)
  /\ SetSize \in Nat /\ SetSize > 4
  /\ MaxLine \in Nat \ {0} /\ RioBufSize \in Nat /\ RioBufSize > MaxLine
  /\ Room \in Nat \ {0} /\ Answer \in Nat \ {0}
  /\ MaxBytes \in Nat /\ MaxLines \in Nat

VARIABLES server,     \* which program runs
          pool, pcs,  \* the server: its pool, and where it is in its loop
          conn,       \* the connection of each client
          backlog,    \* the clients that wait to be accepted
          sent        \* how much the clients have sent in all

svars == <<server, pool, pcs, conn, backlog, sent>>

listenfd == 3
Slots == 0..(SetSize - 1)
None == -1

(* A connection: its descriptor in the server, the units sent and not yet  *)
(* read, whether more than MAXLINE were ever unread, whether any were read *)
(* and not echoed, the bytes written to the client that it has not read,   *)
(* whether the client has shut its side down, and whether it is gone.      *)
NoConn == [state |-> "out", fd |-> None, unread |-> 0, flood |-> FALSE,
           lost |-> FALSE, answer |-> 0, fin |-> FALSE, gone |-> FALSE]

init_pool == [clientfd |-> [i \in Slots |-> None], maxi |-> -1,
              maxfd |-> listenfd, nready |-> 0,
              read_set |-> {listenfd}, ready_set |-> {}]

SelectInit == /\ server \in {"p1223", "p1236"}
              /\ pool = init_pool
              /\ pcs = [at |-> "select", i |-> 0, left |-> 0]
              /\ conn = [c \in Clients |-> NoConn]
              /\ backlog = {} /\ sent = 0

-----------------------------------------------------------------------------
(* The server is in its loop, at slot i of check_clients, with so many     *)
(* bytes left to write; or it has exited, or overrun a buffer.             *)
At(label) == pcs.at = label
Goto(label, i, left) == pcs' = [at |-> label, i |-> i, left |-> left]
Ended == At("exited") \/ At("undefined")

(* The clients.                                                            *)
Connect(c) == /\ conn[c].state = "out" /\ ~Ended
              /\ \A d \in Clients : conn[d].state = "out" => c <= d
              /\ conn' = [conn EXCEPT ![c].state = "open"]
              /\ backlog' = backlog \cup {c}
              /\ UNCHANGED <<server, pool, pcs, sent>>

MaxSent == IF server = "p1223" THEN MaxBytes ELSE MaxLines

Send(c) == /\ conn[c].state = "open" /\ ~conn[c].fin /\ ~Ended
           /\ sent < MaxSent
           /\ sent' = sent + 1
           /\ conn' = [conn EXCEPT ![c].unread = @ + 1,
                ![c].flood = @ \/ (server = "p1223" /\ conn[c].unread >= MaxLine)]
           /\ UNCHANGED <<server, pool, pcs, backlog>>

Shut(c) == /\ conn[c].state = "open" /\ ~conn[c].fin /\ ~Ended
           /\ conn' = [conn EXCEPT ![c].fin = TRUE]
           /\ UNCHANGED <<server, pool, pcs, backlog, sent>>

(* The client reads what the server has written to it.                     *)
ClientReads(c) == /\ conn[c].answer > 0 /\ ~conn[c].gone /\ ~Ended
                  /\ conn' = [conn EXCEPT ![c].answer = 0]
                  /\ UNCHANGED <<server, pool, pcs, backlog, sent>>

(* The client closes the connection, or it breaks: what was sent may still *)
(* be there to be read, or not.                                            *)
Leave(c) == /\ conn[c].state = "open" /\ ~conn[c].gone /\ ~Ended
            /\ \E n \in {0, conn[c].unread} :
                 conn' = [conn EXCEPT ![c].gone = TRUE, ![c].fin = TRUE,
                                      ![c].unread = n, ![c].answer = 0]
            /\ UNCHANGED <<server, pool, pcs, backlog, sent>>

(* The client gives up before it is accepted: accept fails.                *)
Abort(c) == /\ c \in backlog /\ conn[c].state = "open" /\ ~Ended
            /\ conn' = [conn EXCEPT ![c] = [NoConn EXCEPT !.state = "aborted"]]
            /\ UNCHANGED <<server, pool, pcs, backlog, sent>>

-----------------------------------------------------------------------------
Accepted == {c \in Clients : conn[c].fd # None}
OpenFds == {conn[c].fd : c \in Accepted}
ClientOf(fd) == CHOOSE c \in Accepted : conn[c].fd = fd
FreeFds == (listenfd + 1)..(SetSize - 1) \ OpenFds

Readable(fd) == IF fd = listenfd THEN backlog # {}
                ELSE LET k == conn[ClientOf(fd)] IN k.unread > 0 \/ k.fin

(* select blocks until a descriptor of the set can be read.                *)
DoSelect ==
  /\ At("select")
  /\ LET ready == {fd \in pool.read_set : fd <= pool.maxfd /\ Readable(fd)} IN
       /\ ready # {}
       /\ pool' = [pool EXCEPT !.ready_set = ready, !.nready = Cardinality(ready)]
       /\ Goto(IF listenfd \in ready THEN "accept" ELSE "check", 0, 0)
  /\ UNCHANGED <<server, conn, backlog, sent>>

(* Between two rounds ready_set and nready are not read: select sets them. *)
ForgetReady == [pool EXCEPT !.ready_set = {}, !.nready = 0]

(* Seeded bug: the descriptor of the listening socket stays counted.       *)
Bug_add_client(connfd) ==
  LET i == Min({j \in Slots : pool.clientfd[j] < 0}) IN
    [pool EXCEPT !.clientfd[i] = connfd, !.read_set = @ \cup {connfd},
                 !.maxfd = Max({@, connfd}), !.maxi = Max({@, i})]

(* Seeded bug: the high water mark is the number of the last slot taken.   *)
Bug_add_client_maxi(connfd) ==
  LET i == Min({j \in Slots : pool.clientfd[j] < 0}) IN
    [pool EXCEPT !.nready = @ - 1, !.clientfd[i] = connfd,
                 !.read_set = @ \cup {connfd},
                 !.maxfd = Max({@, connfd}), !.maxi = i]

add_client(connfd) ==
  LET i == Min({j \in Slots : pool.clientfd[j] < 0}) IN
    [pool EXCEPT !.nready = @ - 1, !.clientfd[i] = connfd,
                 !.read_set = @ \cup {connfd},
                 !.maxfd = Max({@, connfd}), !.maxi = Max({@, i})]

(* accept takes the connection made first, and the lowest free descriptor. *)
DoAccept(c) ==
  /\ At("accept")
  /\ c \in backlog /\ c = Min(backlog) /\ conn[c].state = "open" /\ FreeFds # {}
  /\ LET connfd == Min(FreeFds) IN
       /\ conn' = [conn EXCEPT ![c].fd = connfd]
       /\ pool' = add_client(connfd)
  /\ Goto("check", 0, 0)
  /\ backlog' = backlog \ {c}
  /\ UNCHANGED <<server, sent>>

(* accept fails: p1236.c goes back to select when the connection was       *)
(* aborted; for want of a descriptor, and in p1223.c always, the server    *)
(* exits.                                                                  *)
AcceptFails(c) ==
  /\ At("accept")
  /\ c \in backlog /\ c = Min(backlog)
  /\ conn[c].state = "aborted" \/ FreeFds = {}
  /\ backlog' = backlog \ {c}
  /\ Goto(IF server = "p1236" /\ conn[c].state = "aborted"
          THEN "select" ELSE "exited", 0, 0)
  /\ pool' = ForgetReady
  /\ UNCHANGED <<server, conn, sent>>

-----------------------------------------------------------------------------
(* The loop of check_clients: the slots in turn, up to maxi, for as long as *)
(* nready says that there are ready clients left.                          *)
IsReady(i) == pool.clientfd[i] > 0 /\ pool.clientfd[i] \in pool.ready_set
Turn(i) == /\ At("check") /\ i \in pcs.i..pool.maxi /\ pool.nready > 0
           /\ IsReady(i)
           /\ \A j \in pcs.i..(i - 1) : ~IsReady(j)

CheckDone == /\ At("check")
             /\ \A i \in Slots : ~Turn(i)
             /\ Goto("select", 0, 0)
             /\ pool' = ForgetReady
             /\ UNCHANGED <<server, conn, backlog, sent>>

Counted == [pool EXCEPT !.nready = @ - 1]
Without(p, i) == [p EXCEPT !.clientfd[i] = None, !.read_set = @ \ {p.clientfd[i]}]

(* p1223.c reads once, up to RIO_BUFSIZE bytes, into a copy of the client's *)
(* rio_t, takes one byte from there and then at most MAXLINE more, and     *)
(* forgets the copy.  With MAXLINE more the last one is written behind buf: *)
(* the program goes on, or anything may happen.                            *)
EchoRead(i) ==
  LET c == ClientOf(pool.clientfd[i])
      taken == Min({conn[c].unread, RioBufSize})
  IN /\ server = "p1223" /\ Turn(i) /\ taken > 0
     /\ conn' = [conn EXCEPT ![c].unread = @ - taken,
                             ![c].lost = @ \/ taken > MaxLine + 1]
     /\ pool' = Counted
     /\ \/ Goto("write", i, Min({taken, MaxLine + 1}))
        \/ taken > MaxLine /\ Goto("undefined", i, 0)
     /\ UNCHANGED <<server, backlog, sent>>

(* The read of p1223.c fails, and -1 is the length that Rio_writen is      *)
(* called with: its write fails too and the server exits.                  *)
EchoReadFails(i) ==
  /\ server = "p1223" /\ Turn(i)
  /\ LET k == conn[ClientOf(pool.clientfd[i])] IN k.unread = 0 /\ k.gone
  /\ pool' = Counted
  /\ Goto("exited", i, 0)
  /\ UNCHANGED <<server, conn, backlog, sent>>

(* doit of p1236.c has read the request line and the headers, or no header *)
(* before the end: it answers.  With fewer lines it waits for the next     *)
(* one; at the end of the file in the middle of the headers                *)
(* read_requesthdrs reads the same line for ever.                          *)
HasRequest(c) == conn[c].unread >= 3 \/ (conn[c].unread = 1 /\ conn[c].fin)

Request(i) == LET c == ClientOf(pool.clientfd[i]) IN
  /\ server = "p1236" /\ Turn(i) /\ HasRequest(c)
  /\ conn' = [conn EXCEPT ![c].unread = 0]
  /\ pool' = Counted
  /\ Goto("write", i, Answer)
  /\ UNCHANGED <<server, backlog, sent>>

(* Nothing is left to read: the connection is closed.                      *)
Hangup(i) == LET c == ClientOf(pool.clientfd[i]) IN
  /\ Turn(i)
  /\ conn[c].unread = 0 /\ conn[c].fin
  /\ conn' = [conn EXCEPT ![c] = [NoConn EXCEPT !.state = "closed"]]
  /\ pool' = Without(Counted, i)
  /\ Goto("check", i + 1, 0)
  /\ UNCHANGED <<server, backlog, sent>>

-----------------------------------------------------------------------------
(* rio_writen: the write blocks until the connection has room, and puts    *)
(* there what it can.                                                      *)
Put == LET c == ClientOf(pool.clientfd[pcs.i])
           n == Min({pcs.left, Room - conn[c].answer})
       IN /\ At("write") /\ n > 0 /\ ~conn[c].gone
          /\ conn' = [conn EXCEPT ![c].answer = @ + n]
          /\ Goto("write", pcs.i, pcs.left - n)
          /\ UNCHANGED <<server, pool, backlog, sent>>

(* To a client that is gone the bytes go nowhere, or SIGPIPE ends the      *)
(* server; an error ends p1223.c, and p1236.c ignores it.                  *)
PutFails == /\ At("write") /\ pcs.left > 0
            /\ conn[ClientOf(pool.clientfd[pcs.i])].gone
            /\ Goto("write", pcs.i, 0) \/ Goto("exited", pcs.i, 0)
            /\ UNCHANGED <<server, pool, conn, backlog, sent>>

EchoDone == /\ server = "p1223" /\ At("write") /\ pcs.left = 0
            /\ Goto("check", pcs.i + 1, 0)
            /\ UNCHANGED <<server, pool, conn, backlog, sent>>

(* p1236.c closes the connection once it has answered.                     *)
AnswerDone == LET c == ClientOf(pool.clientfd[pcs.i]) IN
  /\ server = "p1236" /\ At("write") /\ pcs.left = 0
  /\ conn' = [conn EXCEPT ![c] = [NoConn EXCEPT !.state = "answered"]]
  /\ pool' = Without(pool, pcs.i)
  /\ Goto("check", pcs.i + 1, 0)
  /\ UNCHANGED <<server, backlog, sent>>

ServerStep ==
  \/ DoSelect \/ CheckDone
  \/ \E c \in Clients : DoAccept(c) \/ AcceptFails(c)
  \/ \E i \in Slots : EchoRead(i) \/ EchoReadFails(i) \/ Request(i) \/ Hangup(i)
  \/ Put \/ PutFails \/ EchoDone \/ AnswerDone

ClientStep ==
  \E c \in Clients :
    Connect(c) \/ Send(c) \/ Shut(c) \/ ClientReads(c) \/ Leave(c) \/ Abort(c)

SelectNext == ServerStep \/ ClientStep

(* The server runs on while it can; clients owe it nothing.                *)
SelectSpec == SelectInit /\ [][SelectNext]_svars /\ WF_svars(ServerStep)
-----------------------------------------------------------------------------
PoolFds == {pool.clientfd[i] : i \in Slots} \ {None}

(* Whatever clients come and go, the pool and the descriptors agree: each  *)
(* accepted client has one slot, at most maxi, and its descriptor is in    *)
(* the set select waits for, at most maxfd; no closed descriptor is.       *)
PoolConsistent ==
  /\ PoolFds = OpenFds
  /\ \A i, j \in Slots : i # j /\ pool.clientfd[i] > 0 => pool.clientfd[i] # pool.clientfd[j]
  /\ pool.read_set = {listenfd} \cup OpenFds
  /\ \A fd \in OpenFds : fd <= pool.maxfd
  /\ \A i \in Slots : i > pool.maxi => pool.clientfd[i] = None

(* nready, by which the loop of check_clients stops early, is exactly the  *)
(* number of ready clients it has still to come to: none is passed over,   *)
(* and a client accepted in this round is not taken for a ready one.       *)
ReadySlots(from) == {i \in from..(SetSize - 1) : IsReady(i)}
ReadyAccounted ==
  /\ At("check") => pool.nready = Cardinality(ReadySlots(pcs.i))
  /\ At("write") => pool.nready = Cardinality(ReadySlots(pcs.i + 1))

(* p1223.c: of a client that never had more than MAXLINE bytes unread      *)
(* nothing that was read is dropped, and the server overruns its buffer    *)
(* only on a client that had.                                              *)
SmallBurstsEchoed ==
  /\ \A c \in Clients : conn[c].lost => server = "p1223" /\ conn[c].flood
  /\ At("undefined") => server = "p1223" /\ \E c \in Clients : conn[c].flood

(* However clients come, send and go, the event loop loses none of them.   *)
SelectSafe == PoolConsistent /\ ReadyAccounted /\ SmallBurstsEchoed

(* The server waits for one client, and serves nobody: in the write to a   *)
(* client that does not read, or (p1236.c) in the read of a request that   *)
(* is not complete.                                                        *)
HeldByWrite == LET k == conn[ClientOf(pool.clientfd[pcs.i])] IN
  At("write") /\ pcs.left > 0 /\ ~k.gone /\ k.answer = Room
HeldByRead ==
  \E i \in Slots : LET c == ClientOf(pool.clientfd[i]) IN
    server = "p1236" /\ Turn(i) /\ conn[c].unread \in 1..2 /\ ~HasRequest(c)
HeldUp == HeldByWrite \/ HeldByRead

(* What a client waits for, what it then gets, and what excuses the server. *)
HasSent(c) == /\ conn[c].state = "open"
              /\ conn[c].unread >= IF server = "p1223" THEN 1 ELSE 3
IsServed(c) == IF server = "p1236" THEN conn[c].state = "answered"
               ELSE /\ At("write") /\ conn[c].fd # None
                    /\ conn[c].fd = pool.clientfd[pcs.i]
Excused(c) == conn[c].gone \/ conn[c].state = "aborted" \/ Ended

(* No client is starved by the others: as long as no client holds the      *)
(* server for ever, p1223.c comes to echo to every client that has sent    *)
(* something and p1236.c answers every whole request, unless the client    *)
(* goes away or the server ends.                                           *)
EveryoneServed ==
  []<>~HeldUp => \A c \in Clients : HasSent(c) ~> IsServed(c) \/ Excused(c)
=============================================================================
