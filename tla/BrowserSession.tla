---------------------------- MODULE BrowserSession ----------------------------
(***************************************************************************)
(* A pane at work on the files of another client, once Rendezvous has      *)
(* joined the two: BrowserReader of the client that looks, the server's    *)
(* simple_proxy, and BrowserHost of the client whose files these are       *)
(* (src/src/client.cpp, src/src/server.cpp).                               *)
(*                                                                         *)
(* Every message crosses the proxy as the numbers that module Wire gives   *)
(* for it, in pieces. A coroutine is in one place: what it is doing is a   *)
(* value of rd, px or hd. `A || B` goes on until one of the two returns;   *)
(* when one throws, the other is left running.                             *)
(*                                                                         *)
(* TCP is a buffer of Pipe numbers in each direction. What is written to a *)
(* peer that has closed is lost and a reset comes back later; so it does   *)
(* when a peer closes with something unread.                               *)
(*                                                                         *)
(* Files: `tree` gives the names in each directory; a path and a name are  *)
(* strings, that is, sequences of numbers, and a name that is a directory  *)
(* is itself in the tree's domain.                                         *)
(***************************************************************************)
EXTENDS Wire, FiniteSets, FiniteSetsExt

CONSTANTS
  Buf,          \* size of the proxy's buffer (4096 bytes)
  Pipe,         \* what a connection holds in one direction
  Menu,         \* requests the user can make
  MaxRequests,  \* bound: requests made in a session
  Start,        \* the host's files at the start
  Home,         \* the directory the host was started in
  Locked,       \* names that cannot be removed
  Wide,         \* number of values of std::uintmax_t
  Leaves, Dies  \* whether the user may leave the pane, the host's process die

\* What the user can ask for, and what files there can be.
Requests == [type : {"GetDents", "Delete", "Mkdir"}, id : {0}, basedir : Strings,
             dentries : Seq(Strings)]
IsRequest(r) == /\ r \in Requests
                /\ r.type = "GetDents" => r.dentries = <<>>
                /\ r.type = "Mkdir" => Len(r.dentries) = 1
IsTree(t) == /\ IsFiniteSet(DOMAIN t) /\ DOMAIN t \subseteq Strings
             /\ t \in [DOMAIN t -> SUBSET Strings]
             /\ \A d \in DOMAIN t : IsFiniteSet(t[d])

ASSUME BrowserAssumption ==
  /\ Buf \in Nat \ {0} /\ Pipe \in Nat \ {0} /\ MaxRequests \in Nat \ {0}
  /\ Wide \in Nat \ {0} /\ IsTree(Start) /\ Home \in DOMAIN Start
  /\ \A r \in Menu : IsRequest(r)

VARIABLES
  conn,   \* per client, its connection to the server
  rd,     \* the reader
  px,     \* the proxy, per direction
  hd,     \* the host
  tree,   \* the host's files
  asked,  \* every request accepted from the user
  served, \* every answer composed by the host
  shown   \* every answer given to the pane

vars == <<conn, rd, px, hd, tree, asked, served, shown>>

-----------------------------------------------------------------------------
\* Messages.

Request(type, dir, names) == [type |-> type, id |-> 0, basedir |-> dir, dentries |-> names]
Text(type, text) == [type |-> type, dir |-> <<>>, dents |-> <<>>, text |-> text]
\* Of PathDents the dents are an optional.
Listing(dir, dents) == [type |-> "PathDents", dir |-> dir, dents |-> dents, text |-> <<>>]

First == Request("GetDents", <<>>, <<>>)

SendRequest(r) ==
  CASE r.type = "GetDents" -> SendPod(0) \o SendString(r.basedir)
    [] r.type = "Delete" -> SendPod(1) \o SendRemoteDentries(r)
    [] r.type = "Mkdir" -> SendPod(2) \o SendPair(SendString, SendString, <<r.basedir, r.dentries[1]>>)

RecvRequest(s) ==
  Then(RecvPod(s), LAMBDA type, r :
    CASE type = 0 -> Then(RecvString(r), LAMBDA dir, rest :
                            Got(Request("GetDents", dir, <<>>), rest))
      [] type = 1 -> Then(RecvRemoteDentries(r), LAMBDA e, rest :
                            Got(Request("Delete", e.basedir, e.dentries), rest))
      [] type = 2 -> Then(RecvPair(RecvString, RecvString, r), LAMBDA p, rest :
                            Got(Request("Mkdir", p[1], <<p[2]>>), rest)))

SendAnswer(a) ==
  CASE a.type = "PathDents" -> SendPod(0) \o SendPathDents(<<a.dir, a.dents>>)
    [] a.type = "DeleteResponse" -> SendPod(1) \o SendString(a.text)
    [] a.type = "MkdirResponse" -> SendPod(2) \o SendString(a.text)

RecvAnswer(s) ==
  Then(RecvPod(s), LAMBDA type, r :
    CASE type = 0 -> Then(RecvPathDents(r), LAMBDA p, rest : Got(Listing(p[1], p[2]), rest))
      [] type = 1 -> Then(RecvString(r), LAMBDA t, rest : Got(Text("DeleteResponse", t), rest))
      [] type = 2 -> Then(RecvString(r), LAMBDA t, rest : Got(Text("MkdirResponse", t), rest)))

-----------------------------------------------------------------------------
\* What the host does with its files.

\* The empty path is the directory the host runs in: GetDents says so, and for
\* the others it is a path relative to it.
Place(r) == IF r.basedir = <<>> THEN Home ELSE r.basedir

\* GetDents: the answer names the path as the request did, and the names come in
\* the order the directory gives them in, whichever it is.
GetDents(r, t) ==
  LET dir == Place(r)
      Meta(n) == IF dir \o n \in DOMAIN t THEN 1 ELSE 0
      dents == SetToSeq({[basename |-> n, metainfo |-> Meta(n)] : n \in t[dir]})
  IN <<Listing(r.basedir, IF dir \in DOMAIN t THEN <<dents>> ELSE <<>>), t>>

\* remove_all of one name: how much it removed, and what is left. When it fails
\* it removes nothing and returns -1, of an unsigned type.
RemoveAll(dir, name, t) ==
  LET gone == {p \in DOMAIN t : IsPrefix(dir \o name, p)}
      left == [p \in DOMAIN t \ gone |-> IF p = dir THEN t[p] \ {name} ELSE t[p]]
  IN IF dir \notin DOMAIN t \/ name \notin t[dir] THEN <<0, t>>
     ELSE IF name \in Locked THEN <<Wide - 1, t>>
     ELSE <<1 + Cardinality(UNION {{p} \X t[p] : p \in gone}), left>>

\* Delete: the numbers of all names are added up, and the failures named.
Delete(r, t) ==
  LET Step(acc, name) ==
        LET one == RemoveAll(Place(r), name, acc.left)
        IN [left |-> one[2], removed |-> (acc.removed + one[1]) % Wide,
            errors |-> acc.errors \o (IF one[1] = Wide - 1 THEN name ELSE <<>>)]
      upto[n \in 0..Len(r.dentries)] ==
        IF n = 0 THEN [left |-> t, removed |-> 0, errors |-> <<>>]
        ELSE Step(upto[n - 1], r.dentries[n])
      all == upto[Len(r.dentries)]
  IN <<Text("DeleteResponse", <<all.removed>> \o all.errors), all.left>>

\* Mkdir: create_directory makes one (0), finds it there (1), or fails (2) for a
\* file of that name and without the parent.
Mkdir(r, t) ==
  LET dir == Place(r)
      name == r.dentries[1]
      path == dir \o name
      made == [p \in DOMAIN t \cup {path} |->
                 IF p = path THEN {} ELSE IF p = dir THEN t[p] \cup {name} ELSE t[p]]
      Answer(result) == Text("MkdirResponse", <<result>> \o name)
  IN CASE path \in DOMAIN t -> <<Answer(1), t>>
       [] path \notin DOMAIN t /\ (dir \notin DOMAIN t \/ name \in t[dir]) -> <<Answer(2), t>>
       [] OTHER -> <<Answer(0), made>>

Perform(r, t) ==
  CASE r.type = "GetDents" -> GetDents(r, t)
    [] r.type = "Delete" -> Delete(r, t)
    [] r.type = "Mkdir" -> Mkdir(r, t)

-----------------------------------------------------------------------------
\* Connections.

Clients == {"reader", "host"}
Sides == {"client", "server"}
Other(side) == IF side = "client" THEN "server" ELSE "client"

Connected == [to |-> [s \in Sides |-> <<>>], open |-> [s \in Sides |-> TRUE], reset |-> "no"]

\* A read that finds nothing fails once the peer has closed; a reset can be seen
\* before what arrived earlier has been read, or after.
Arrived(c, side) == conn[c].to[side]
ReadFails(c, side) ==
  \/ conn[c].reset = "here"
  \/ Arrived(c, side) = <<>> /\ ~conn[c].open[Other(side)]
WriteFails(c) == conn[c].reset = "here"

\* What is left of connection k when its side takes n numbers, and when it
\* writes the first n of data.
Taken(k, side, n) == [k EXCEPT !.to[side] = SubSeq(@, n + 1, Len(@))]
Put(k, side, data, n) ==
  IF k.open[Other(side)] THEN [k EXCEPT !.to[Other(side)] = @ \o SubSeq(data, 1, n)]
  ELSE [k EXCEPT !.reset = "coming"]
Closed(k, side) ==
  [k EXCEPT !.open[side] = FALSE, !.to[side] = <<>>,
            !.reset = IF k.to[side] # <<>> /\ @ = "no" THEN "coming" ELSE @]

\* How much of data the side can write now.
Room(c, side, data) == Min({Len(data), Pipe - Len(Arrived(c, Other(side)))})

\* async_read takes what a message still needs, or all there is.
Needed(Recv(_), got, s) ==
  LET whole == {n \in 1..Len(s) : Recv(got \o SubSeq(s, 1, n)) # Short}
  IN IF whole = {} THEN Len(s) ELSE Min(whole)

\* External: a reset reaches the side that is still there.
ResetArrives(c) ==
  /\ conn[c].reset = "coming"
  /\ conn' = [conn EXCEPT ![c].reset = "here"]
  /\ UNCHANGED <<rd, px, hd, tree, asked, served, shown>>

-----------------------------------------------------------------------------
\* BrowserReader.

\* cd, request_delete, request_mkdir: m_send_requests holds nothing, so a
\* request is accepted when outcoming_msg waits for one.
Ask(r) ==
  /\ rd.in = "reading" /\ rd.out = "waiting" /\ Len(asked) < MaxRequests
  /\ rd' = [rd EXCEPT !.out = "sending", !.rest = SendRequest(r)]
  /\ asked' = Append(asked, r)
  /\ UNCHANGED <<conn, px, hd, tree, served, shown>>

\* outcoming_msg. When it throws, incoming_msg goes on.
ReaderSends ==
  /\ rd.in = "reading" /\ rd.out = "sending"
  /\ \/ /\ WriteFails("reader")
        /\ rd' = [rd EXCEPT !.out = "thrown", !.rest = <<>>]
        /\ UNCHANGED conn
     \/ LET n == Room("reader", "client", rd.rest) IN
        /\ ~WriteFails("reader") /\ n > 0
        /\ conn' = [conn EXCEPT !["reader"] = Put(@, "client", rd.rest, n)]
        /\ rd' = [rd EXCEPT !.rest = SubSeq(@, n + 1, Len(@)),
                            !.out = IF n = Len(rd.rest) THEN "waiting" ELSE @]
  /\ UNCHANGED <<px, hd, tree, asked, served, shown>>

\* incoming_msg: an answer goes to the pane.
ReaderTakes ==
  /\ rd.in = "reading" /\ Arrived("reader", "client") # <<>>
  /\ \E n \in {Needed(RecvAnswer, rd.got, Arrived("reader", "client"))} :
       LET got == rd.got \o SubSeq(Arrived("reader", "client"), 1, n) IN
       /\ conn' = [conn EXCEPT !["reader"] = Taken(@, "client", n)]
       /\ \/ RecvAnswer(got) = Short /\ rd' = [rd EXCEPT !.got = got] /\ UNCHANGED shown
          \/ \E answer \in RecvAnswer(got) :
               rd' = [rd EXCEPT !.got = answer[2]] /\ shown' = Append(shown, answer[1])
  /\ UNCHANGED <<px, hd, tree, asked, served>>

\* incoming_msg returns, which cancels outcoming_msg; the reader is erased.
ReaderOver(end, told) ==
  /\ rd' = [in |-> end, out |-> "over", got |-> <<>>, rest |-> <<>>, told |-> told]
  /\ conn' = [conn EXCEPT !["reader"] = Closed(@, "client")]
  /\ UNCHANGED <<px, hd, tree, asked, served, shown>>

\* A failed read, at the start of a message or in it: browser_error.
ReaderFails == rd.in = "reading" /\ ReadFails("reader", "client") /\ ReaderOver("over", TRUE)

\* Mutant: a canceled read is an error like another.
LeaveTold == Leaves /\ rd.in = "reading" /\ ReaderOver("left", TRUE)

\* disconnect_browser closes the socket. The read it cancels is no error at the
\* start of a message, and throws in it.
Leave == Leaves /\ rd.in = "reading" /\ ReaderOver("left", rd.got # <<>>)

-----------------------------------------------------------------------------
\* simple_proxy. A direction is named by the client it leads to.

Source(d) == IF d = "host" THEN "reader" ELSE "host"

\* Mutant: what a buffer does not hold is dropped.
ProxyReadsAll(d) ==
  /\ px[d].state = "on" /\ px[d].buf = <<>> /\ Arrived(Source(d), "server") # <<>>
  /\ LET all == Arrived(Source(d), "server") IN
     /\ px' = [px EXCEPT ![d].buf = SubSeq(all, 1, Min({Buf, Len(all)}))]
     /\ conn' = [conn EXCEPT ![Source(d)] = Taken(@, "server", Len(all))]
  /\ UNCHANGED <<rd, hd, tree, asked, served, shown>>

ProxyReads(d) ==
  /\ px[d].state = "on" /\ px[d].buf = <<>> /\ Arrived(Source(d), "server") # <<>>
  /\ LET n == Min({Buf, Len(Arrived(Source(d), "server"))}) IN
     /\ px' = [px EXCEPT ![d].buf = SubSeq(Arrived(Source(d), "server"), 1, n)]
     /\ conn' = [conn EXCEPT ![Source(d)] = Taken(@, "server", n)]
  /\ UNCHANGED <<rd, hd, tree, asked, served, shown>>

ProxyWrites(d) ==
  /\ px[d].state = "on" /\ px[d].buf # <<>> /\ ~WriteFails(d)
  /\ LET n == Room(d, "server", px[d].buf) IN
     /\ n > 0
     /\ conn' = [conn EXCEPT ![d] = Put(@, "server", px[d].buf, n)]
     /\ px' = [px EXCEPT ![d].buf = SubSeq(@, n + 1, Len(@))]
  /\ UNCHANGED <<rd, hd, tree, asked, served, shown>>

ProxyThrows(d) ==
  /\ px[d].state = "on"
  /\ IF px[d].buf = <<>> THEN ReadFails(Source(d), "server") ELSE WriteFails(d)
  /\ px' = [px EXCEPT ![d] = [state |-> "thrown", buf |-> <<>>]]

\* Mutant: the second direction to throw leaves the sockets open.
ProxyFailsOpen(d) ==
  /\ ProxyThrows(d)
  /\ UNCHANGED <<conn, rd, hd, tree, asked, served, shown>>

\* A direction throws. The other is not canceled; when both have thrown, the
\* coroutine of the request ends and its two sockets with it.
ProxyFails(d) ==
  /\ ProxyThrows(d)
  /\ conn' = IF px[Source(d)].state = "on" THEN conn
             ELSE [c \in Clients |-> Closed(conn[c], "server")]
  /\ UNCHANGED <<rd, hd, tree, asked, served, shown>>

-----------------------------------------------------------------------------
\* BrowserHost.

\* Mutant: a request that nobody has taken yet is replaced by the next.
HostTakesOver ==
  /\ hd.in \in {"reading", "offering"} /\ Arrived("host", "client") # <<>>
  /\ \E n \in {Needed(RecvRequest, hd.got, Arrived("host", "client"))} :
       LET got == hd.got \o SubSeq(Arrived("host", "client"), 1, n) IN
       /\ conn' = [conn EXCEPT !["host"] = Taken(@, "client", n)]
       /\ \/ RecvRequest(got) = Short /\ hd' = [hd EXCEPT !.got = got]
          \/ \E request \in RecvRequest(got) :
               hd' = [hd EXCEPT !.got = <<>>, !.in = "offering", !.item = <<request[1]>>]
  /\ UNCHANGED <<rd, px, tree, asked, served, shown>>

\* incoming_msg reads a request and offers it to outcoming_msg.
HostTakes ==
  /\ hd.in = "reading" /\ Arrived("host", "client") # <<>>
  /\ \E n \in {Needed(RecvRequest, hd.got, Arrived("host", "client"))} :
       LET got == hd.got \o SubSeq(Arrived("host", "client"), 1, n) IN
       /\ conn' = [conn EXCEPT !["host"] = Taken(@, "client", n)]
       /\ \/ RecvRequest(got) = Short /\ hd' = [hd EXCEPT !.got = got]
          \/ \E request \in RecvRequest(got) :
               hd' = [hd EXCEPT !.got = <<>>, !.in = "offering", !.item = <<request[1]>>]
  /\ UNCHANGED <<rd, px, tree, asked, served, shown>>

\* outcoming_msg takes the request, whose callback does the work and starts to
\* send the answer; m_send_requests holds nothing, so incoming_msg is let go now.
HandOver ==
  /\ hd.in = "offering" /\ hd.out = "waiting"
  /\ \E result \in {Perform(hd.item[1], tree)} :
       /\ served' = Append(served, result[1])
       /\ tree' = result[2]
       /\ hd' = [hd EXCEPT !.in = "reading", !.item = <<>>, !.out = "sending",
                           !.rest = SendAnswer(result[1])]
  /\ UNCHANGED <<conn, rd, px, asked, shown>>

\* The host ends: both coroutines are gone and the socket is closed.
HostOver(end) ==
  /\ hd' = [in |-> end, out |-> "over", got |-> <<>>, item |-> <<>>, rest |-> <<>>]
  /\ conn' = [conn EXCEPT !["host"] = Closed(@, "client")]
  /\ UNCHANGED <<rd, px, tree, asked, served, shown>>

\* A coroutine of the host throws: the other is left, unless it has thrown too.
HostThrows(which) ==
  IF hd.in = "thrown" \/ hd.out = "thrown" THEN HostOver("over")
  ELSE /\ hd' = [hd EXCEPT ![which] = "thrown", !.got = IF which = "in" THEN <<>> ELSE @,
                           !.rest = IF which = "out" THEN <<>> ELSE @]
       /\ UNCHANGED <<conn, rd, px, tree, asked, served, shown>>

\* Mutant: outcoming_msg returns after one answer, which ends the host.
HostSendsOnce ==
  /\ hd.out = "sending" /\ ~WriteFails("host")
  /\ LET n == Room("host", "client", hd.rest) IN
     /\ n > 0
     /\ conn' = [conn EXCEPT !["host"] =
                   IF n = Len(hd.rest) THEN Closed(Put(@, "client", hd.rest, n), "client")
                   ELSE Put(@, "client", hd.rest, n)]
     /\ hd' = [hd EXCEPT !.rest = SubSeq(@, n + 1, Len(@)),
                         !.out = IF n = Len(hd.rest) THEN "over" ELSE @,
                         !.in = IF n = Len(hd.rest) THEN "over" ELSE @]
  /\ UNCHANGED <<rd, px, tree, asked, served, shown>>

\* Mutant: async_write_some, which leaves the rest of an answer unsent.
HostSendsSome ==
  /\ hd.out = "sending" /\ ~WriteFails("host")
  /\ LET n == Room("host", "client", hd.rest) IN
     /\ n > 0
     /\ conn' = [conn EXCEPT !["host"] = Put(@, "client", hd.rest, n)]
     /\ hd' = [hd EXCEPT !.rest = SubSeq(@, n + 1, Len(@)), !.out = "waiting"]
  /\ UNCHANGED <<rd, px, tree, asked, served, shown>>

HostSends ==
  /\ hd.out = "sending"
  /\ \/ WriteFails("host") /\ HostThrows("out")
     \/ LET n == Room("host", "client", hd.rest) IN
        /\ ~WriteFails("host") /\ n > 0
        /\ conn' = [conn EXCEPT !["host"] = Put(@, "client", hd.rest, n)]
        /\ hd' = [hd EXCEPT !.rest = SubSeq(@, n + 1, Len(@)),
                            !.out = IF n = Len(hd.rest) THEN "waiting" ELSE @]
        /\ UNCHANGED <<rd, px, tree, asked, served, shown>>

\* A failed read ends the host at the start of a message and throws in it.
HostFails ==
  /\ hd.in = "reading" /\ ReadFails("host", "client")
  /\ IF hd.got = <<>> THEN HostOver("over") ELSE HostThrows("in")

HostDies == Dies /\ hd.in \notin {"over", "dead"} /\ HostOver("dead")

-----------------------------------------------------------------------------
Init ==
  /\ conn = [c \in Clients |-> Connected]
  /\ rd = [in |-> "reading", out |-> "sending", got |-> <<>>, rest |-> SendRequest(First),
           told |-> FALSE]
  /\ px = [d \in Clients |-> [state |-> "on", buf |-> <<>>]]
  /\ hd = [in |-> "reading", out |-> "waiting", got |-> <<>>, item |-> <<>>, rest |-> <<>>]
  /\ tree = Start
  /\ asked = <<First>> /\ served = <<>> /\ shown = <<>>

\* Steps a program takes by itself, those of TCP, and those of the user and of
\* the machine.
Proxy(d) == ProxyReads(d) \/ ProxyWrites(d) \/ ProxyFails(d)

Next ==
  \/ ReaderSends \/ ReaderTakes \/ ReaderFails
  \/ \E d \in Clients : Proxy(d) \/ ResetArrives(d)
  \/ HostTakes \/ HandOver \/ HostSends \/ HostFails
  \/ \E r \in Menu : Ask(r)
  \/ Leave \/ HostDies

Spec == Init /\ [][Next]_vars

\* Each coroutine that can go on does, and a reset arrives in the end.
Fairness ==
  /\ WF_vars(ReaderSends) /\ WF_vars(ReaderTakes \/ ReaderFails)
  /\ \A d \in Clients : WF_vars(Proxy(d)) /\ WF_vars(ResetArrives(d))
  /\ WF_vars(HostTakes \/ HostFails) /\ WF_vars(HandOver \/ HostSends)

LiveSpec == Spec /\ Fairness

-----------------------------------------------------------------------------
\* Properties.

\* Every coroutine is in a place it can be in, and nothing holds more than fits.
TypeOK ==
  /\ \A c \in Clients :
       /\ conn[c].reset \in {"no", "coming", "here"} /\ conn[c].open \in [Sides -> BOOLEAN]
       /\ \A s \in Sides : Len(conn[c].to[s]) <= Pipe
  /\ rd.in \in {"reading", "over", "left"} /\ rd.out \in {"waiting", "sending", "thrown", "over"}
  /\ (rd.out = "sending") = (rd.rest # <<>>)
  /\ \A d \in Clients : px[d].state \in {"on", "thrown"} /\ Len(px[d].buf) <= Buf
  /\ hd.in \in {"reading", "offering", "thrown", "over", "dead"}
  /\ hd.out \in {"waiting", "sending", "thrown", "over"}
  /\ (hd.out = "sending") = (hd.rest # <<>>) /\ (hd.in = "offering") = (hd.item # <<>>)
  /\ Len(asked) \in 1..MaxRequests

\* What may come of a request, said without the steps of the host: the set of
\* <<answer, files afterwards>>. A Delete leaves what was not to be removed, and
\* answers with how much is gone, or with any number when something failed.
Names(t) == UNION {{d \o n : n \in t[d]} : d \in DOMAIN t}
Without(t, gone) ==
  [d \in {d \in DOMAIN t : ~\E g \in gone : IsPrefix(g, d)} |-> {n \in t[d] : d \o n \notin gone}]

Deletions(r, t) ==
  LET named == {n \in Range(r.dentries) : Place(r) \o n \in Names(t)}
      left == Without(t, {Place(r) \o n : n \in named \ Locked})
      failed == SelectSeq(r.dentries, LAMBDA n : n \in named \cap Locked)
      counts == IF failed = <<>> THEN {Cardinality(Names(t) \ Names(left))} ELSE 0..Wide - 1
  IN {<<Text("DeleteResponse", <<k>> \o FlattenSeq(failed)), left>> : k \in counts}

Outcomes(r, t) == IF r.type = "Delete" THEN Deletions(r, t) ELSE {Perform(r, t)}

Files == INSTANCE RemoteFiles WITH First <- First, Menu <- Menu, Start <- Start,
           Outcomes <- Outcomes, asked <- asked, answers <- served, shown <- shown, files <- tree

\* The requests of a pane are served one at a time in their order, each once and
\* on the files the earlier ones left, and the pane is given the answers in that
\* order and whole, though both travel in pieces through two connections and a
\* proxy and pass three coroutines.
Served == Files!Spec

\* T has the files at the start and what each request makes of any files in it,
\* and each request has an outcome that Outcomes allows on all of them.
AsSaid(T) ==
  /\ Start \in T
  /\ \A r \in Menu \cup {First}, t \in T :
       Perform(r, t) \in Outcomes(r, t) /\ Perform(r, t)[2] \in T

\* Some coroutine of the host has thrown and the other waits for it for ever:
\* outcoming_msg for a request, incoming_msg to be rid of one.
HostStuck ==
  \/ hd.in = "thrown" /\ hd.out = "waiting"
  \/ hd.in = "offering" /\ hd.out = "thrown"

\* Every request is answered in the pane sooner or later, unless the pane is over
\* or the host's process has died. (A pane whose host has died may wait for ever:
\* the proxy finds out when its second write to the host fails, and a reader that
\* waits for an answer writes nothing.)
Answered ==
  []<>(Len(shown) = Len(asked) \/ rd.in # "reading" \/ hd.in = "dead")

\* The host waits for the proxy to read its answer, and the proxy, whose other
\* direction has thrown, for the host to read a request.
HostUnread == hd.in = "offering" /\ hd.out = "sending"

\* The proxy ends when both clients have gone. It ends, too, when only one has
\* and a write to that one has failed, unless the host is left unread. Once it is
\* over the pane is over, and the host but for one that is stuck. (What stands
\* after []<> stays true once it is.)
ProxyOver == \A d \in Clients : px[d].state = "thrown"
EndsReachAll ==
  []<>(/\ rd.in # "reading" /\ hd.in = "dead" => ProxyOver
       /\ hd.in = "dead" /\ px["host"].state = "thrown" => ProxyOver
       /\ rd.in # "reading" /\ px["reader"].state = "thrown" => ProxyOver \/ HostUnread
       /\ ProxyOver => rd.in # "reading" /\ (hd.in \in {"over", "dead"} \/ HostStuck))

\* The pane is told that its connection failed only when the host's process has
\* died, or when the user leaves in the middle of an answer.
ToldOfLoss == rd.told => hd.in = "dead" \/ (rd.in = "left" /\ Len(shown) < Len(asked))
=============================================================================
