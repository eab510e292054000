--------------------------------- MODULE Wire ---------------------------------
(***************************************************************************)
(* The wire format of remy (src/include/remy/serde.hpp) as pure operators. *)
(*                                                                         *)
(* A stream is a sequence of numbers. A number stands for one value of a   *)
(* trivial type, whatever its width, or for one character: nothing in the  *)
(* stream says what it is. Send operators give the numbers written for a   *)
(* value. Receive operators read a value from the head of a stream and     *)
(* give the set of <<value, rest>> they return with: it has one member, or *)
(* none while async_read waits for more.                                   *)
(***************************************************************************)
EXTENDS Integers, Sequences, SequencesExt

Strings == Seq(Nat)

Short == {}
Got(v, rest) == {<<v, rest>>}

\* What one receive has left over is read by the next.
Then(read, Next(_, _)) == UNION {Next(r[1], r[2]) : r \in read}

-----------------------------------------------------------------------------
\* Trivial types.
SendPod(v) == <<v>>
RecvPod(s) == IF s = <<>> THEN Short ELSE Got(Head(s), Tail(s))

\* std::string: its size, then its characters.
SendString(v) == <<Len(v)>> \o v

RecvString(s) ==
  Then(RecvPod(s), LAMBDA size, r :
    IF Len(r) < size THEN Short ELSE Got(SubSeq(r, 1, size), SubSeq(r, size + 1, Len(r))))

\* std::pair.
SendPair(First(_), Second(_), p) == First(p[1]) \o Second(p[2])
RecvPair(First(_), Second(_), s) ==
  Then(First(s), LAMBDA a, r : Then(Second(r), LAMBDA b, rest : Got(<<a, b>>, rest)))

\* std::vector: its size, then its items one by one.
SendVector(Item(_), v) == <<Len(v)>> \o FlattenSeq([i \in DOMAIN v |-> Item(v[i])])

RecvVector(Item(_), s) ==
  Then(RecvPod(s), LAMBDA size, r :
    LET items[n \in 0..size] ==
          IF n = 0 THEN Got(<<>>, r)
          ELSE Then(items[n - 1], LAMBDA v, left :
                 Then(Item(left), LAMBDA x, rest : Got(Append(v, x), rest)))
    IN items[size])

\* std::optional, here <<>> or <<value>>.
SendOptional(Item(_), o) == IF o = <<>> THEN <<0>> ELSE <<1>> \o Item(o[1])
RecvOptional(Item(_), s) ==
  Then(RecvPod(s), LAMBDA has, r :
    IF has = 0 THEN Got(<<>>, r) ELSE Then(Item(r), LAMBDA x, rest : Got(<<x>>, rest)))

-----------------------------------------------------------------------------
\* Dentry and PathDentsPayload.
SendDentry(d) == SendString(d.basename) \o SendPod(d.metainfo)
RecvDentry(s) ==
  Then(RecvString(s), LAMBDA name, r :
    Then(RecvPod(r), LAMBDA meta, rest : Got([basename |-> name, metainfo |-> meta], rest)))

SendPathDents(p) ==
  SendPair(SendString, LAMBDA o : SendOptional(LAMBDA v : SendVector(SendDentry, v), o), p)
RecvPathDents(s) ==
  RecvPair(RecvString, LAMBDA r : RecvOptional(LAMBDA t : RecvVector(RecvDentry, t), r), s)

\* RemoteDentries.
SendRemoteDentries(e) ==
  SendPod(e.id) \o SendString(e.basedir) \o SendVector(SendString, e.dentries)
RecvRemoteDentries(s) ==
  Then(RecvPod(s), LAMBDA id, r : Then(RecvString(r), LAMBDA dir, t :
    Then(RecvVector(RecvString, t), LAMBDA names, rest :
      Got([id |-> id, basedir |-> dir, dentries |-> names], rest))))

\* ClientsListPayload and RemoteDentry.
SendClientsList(v) == SendVector(LAMBDA p : SendPair(SendPod, SendString, p), v)
RecvClientsList(s) == RecvVector(LAMBDA r : RecvPair(RecvPod, RecvString, r), s)

\* WatcherInfo, whose numbers are here the sequence `figures`: six before the
\* name of the file, the speed after it.
SendWatcherInfo(w) ==
  SubSeq(w.figures, 1, 6) \o SendString(w.cur_file) \o SendPod(w.figures[7])
RecvWatcherInfo(s) ==
  IF Len(s) < 6 THEN Short
  ELSE Then(RecvString(SubSeq(s, 7, Len(s))), LAMBDA file, r : Then(RecvPod(r), LAMBDA speed, rest :
         Got([figures |-> Append(SubSeq(s, 1, 6), speed), cur_file |-> file], rest)))
=============================================================================
