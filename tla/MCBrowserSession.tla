--------------------------- MODULE MCBrowserSession ---------------------------
(***************************************************************************)
(* A small file system for BrowserSession, and the messages of Wire sent   *)
(* and received for every small value.                                     *)
(***************************************************************************)
EXTENDS BrowserSession

\* A directory with a file, and a locked file, in the host's directory.
MCHome == <<7>>
MCStart == (<<7>> :> {<<1>>, <<2>>}) @@ (<<7, 1>> :> {<<3>>})
MCLocked == {<<2>>}

MCMenu == {Request("GetDents", <<7, 1>>, <<>>),
           Request("Delete", <<>>, <<<<1>>, <<2>>>>),
           Request("Mkdir", <<7, 1>>, <<<<3>>>>),
           Request("Mkdir", <<>>, <<<<1>>>>)}

\* Served alone, on any files that can come about, each request has one of the
\* outcomes that Served allows: the assumption of the theorem SessionServes.
RECURSIVE Reached(_)
Reached(T) ==
  LET more == T \cup {Perform(r, t)[2] : r \in Menu \cup {First}, t \in T}
  IN IF more = T THEN T ELSE Reached(more)

ASSUME OutcomesAsSaid == AsSaid(Reached({Start}))

-----------------------------------------------------------------------------
\* What is sent is received as it was, whatever follows it, and never before it
\* has all arrived.
Numbers == 0..2
Texts == SeqOf(Numbers, 2)
Vectors(S) == SeqOf(S, 2)
Dentries == {[basename |-> n, metainfo |-> i] : n \in Texts, i \in 0..1}

Exact(Send(_), Recv(_), S) ==
  \A v \in S : LET sent == Send(v) IN
    /\ \A next \in {<<>>, <<1>>, <<2, 0>>} : Recv(sent \o next) = Got(v, next)
    /\ \A n \in 0..(Len(sent) - 1) : Recv(SubSeq(sent, 1, n)) = Short

ASSUME TextsExact == Exact(SendString, RecvString, Texts)

ASSUME PathDentsExact ==
  Exact(SendPathDents, RecvPathDents,
        Texts \X ({<<>>} \cup {<<v>> : v \in Vectors(Dentries)}))

ASSUME RemoteDentriesExact ==
  Exact(SendRemoteDentries, RecvRemoteDentries,
        [id : Numbers, basedir : Texts, dentries : Vectors(Texts)])

ASSUME ClientsListExact == Exact(SendClientsList, RecvClientsList, Vectors(Numbers \X Texts))

ASSUME WatcherInfoExact ==
  Exact(SendWatcherInfo, RecvWatcherInfo,
        [figures : {<<0, 0, 0, 0, 0, 0, 0>>, <<1, 2, 3, 4, 5, 6, 7>>}, cur_file : Texts])
=============================================================================
