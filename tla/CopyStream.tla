------------------------------ MODULE CopyStream ------------------------------
(***************************************************************************)
(* A copy operation once its two connections are joined: CopySender and    *)
(* CopyReceiver (src/src/client.cpp), the proxy between them that measures *)
(* the progress, Server::process_copy (src/src/server.cpp), and the copy   *)
(* dialog of the watcher (src/src/view-client.cpp).                        *)
(*                                                                         *)
(* The payload is a sequence of units: the number of files, the total      *)
(* size, and per file its FileMetainfo, its path and, for a regular file   *)
(* its bytes, for a link its target. Whoever finds a unit other than the   *)
(* one it reads next has lost the framing: the code takes contents for     *)
(* messages from there on, and the model stops.                            *)
(***************************************************************************)
EXTENDS Integers, Sequences, FiniteSets, SequencesExt

CONSTANTS
  FileLists,  \* the lists of files that may be sent
  Buf,        \* size of the buffers, in bytes (1024 * 1024 in the code)
  Failing,    \* which of "sender" and "receiver" may fail on the way
  Clocks      \* what steady_clock may show the proxy at its start

\* A file: its kind and size when its metadata was collected, and how much it
\* holds when it is read.
FileType == [kind : {"reg", "dir", "link"}, size : Nat, content : Nat]

ASSUME CopyAssumption ==
  /\ FileLists \subseteq Seq(FileType)
  /\ Buf \in Nat \ {0}
  /\ Failing \subseteq {"sender", "receiver"}
  /\ Clocks \subseteq {"same", "below_ms", "ms"}

VARIABLES
  files,  \* CopySender::m_dentries
  snd,    \* CopySender::process: what it sends next, of which file, progress in it
  up,     \* source connection: units sent and not yet read by the server
  srv,    \* process_copy: what it reads next, the current meta, f_prog
  info,   \* the WatcherInfo of process_copy
  clock,  \* time since start_time: none, below a millisecond, at least one
  down,   \* destination connection
  rcv,    \* CopyReceiver::process: as srv, and the files it has completed
  view    \* the watcher's copy dialog

vars == <<files, snd, up, srv, info, clock, down, rcv, view>>

Unit(u)   == [unit |-> u]
Number(n) == [unit |-> "number", value |-> n]
\* Mutant: the size is one too small.
MetaShort(f) == [unit |-> "meta", kind |-> f.kind, size |-> f.size - 1]

Meta(f)   == [unit |-> "meta", kind |-> f.kind, size |-> f.size]
NoMeta    == [unit |-> "meta", kind |-> "dir", size |-> 0]
Bytes(n)  == [i \in 1..n |-> Unit("byte")]

\* The sizes of the regular files among the first n, added up.
SizeOfFirst[n \in 0..Len(files)] ==
  IF n = 0 THEN 0
  ELSE SizeOfFirst[n - 1] + (IF files[n].kind = "reg" THEN files[n].size ELSE 0)

TotalSize == SizeOfFirst[Len(files)]

\* What follows the path of a file.
Body(m) == CASE m.kind = "reg" /\ m.size > 0 -> "byte"
             [] m.kind = "link"              -> "link"
             [] OTHER                        -> "next"

SmallerOf(m, n) == IF m < n THEN m ELSE n

-----------------------------------------------------------------------------
\* CopySender::process.

Sending(u) == snd.at = u

\* The file is done: on to the next one.
SendNext(i) == [at |-> IF i < Len(files) THEN "meta" ELSE "done", file |-> i + 1, progress |-> 0]

SendHeader ==
  /\ Sending("count")
  /\ up' = up \o <<Number(Len(files)), Number(TotalSize)>>
  /\ snd' = SendNext(0)
  /\ UNCHANGED <<files, srv, info, clock, down, rcv, view>>

SendMeta ==
  /\ Sending("meta")
  /\ LET f == files[snd.file] IN
     /\ up' = up \o <<Meta(f), Unit("path")>>
     /\ snd' = IF Body(f) = "next" THEN SendNext(snd.file) ELSE [snd EXCEPT !.at = Body(f)]
  /\ UNCHANGED <<files, srv, info, clock, down, rcv, view>>

\* read() fills the buffer as far as the file goes, whatever the size that
\* was announced; a file that ends early gives nothing, again and again.
SendBytes ==
  /\ Sending("byte")
  /\ LET f == files[snd.file]
         n == SmallerOf(Buf, IF f.content > snd.progress THEN f.content - snd.progress ELSE 0)
     IN  /\ up' = up \o Bytes(n)
         /\ snd' = IF snd.progress + n < f.size THEN [snd EXCEPT !.progress = @ + n]
                   ELSE SendNext(snd.file)
  /\ UNCHANGED <<files, srv, info, clock, down, rcv, view>>

SendLink ==
  /\ Sending("link")
  /\ up' = Append(up, Unit("link"))
  /\ snd' = SendNext(snd.file)
  /\ UNCHANGED <<files, srv, info, clock, down, rcv, view>>

\* An exception, in collect_metadata or later.
SenderFails ==
  /\ "sender" \in Failing /\ snd.at \notin {"done", "failed"}
  /\ snd' = [snd EXCEPT !.at = "failed"]
  /\ UNCHANGED <<files, up, srv, info, clock, down, rcv, view>>

-----------------------------------------------------------------------------
\* Server::process_copy.

Proxying(u) == srv.at = u

\* Mutant: the copy is complete when all its bytes are.
ShownBySize(i) == IF i.progress = i.total THEN "completed" ELSE "progress"

\* ClientUi::update_watcher_info.
Shown(i) == IF i.completed = i.all THEN "completed" ELSE "progress"

\* progress_send: forced, or at most every 250 ms.
ProgressSend(forced, i) == view' = Shown(i) \/ (~forced /\ UNCHANGED view)

ReadNext(completed, all) == IF completed < all THEN "meta" ELSE "end"

\* An async_write to a receiver that is gone: it may be noticed.
WriteDown(units) == down' = down \o units
WriteFails == rcv.at = "failed"

\* msg_proxy of the header, and the first report.
ProxyHeader ==
  /\ Proxying("count") /\ Len(up) >= 2
  /\ info' = [info EXCEPT !.all = up[1].value, !.total = up[2].value]
  /\ WriteDown(SubSeq(up, 1, 2)) /\ up' = SubSeq(up, 3, Len(up))
  /\ srv' = [srv EXCEPT !.at = ReadNext(0, up[1].value)]
  /\ ProgressSend(TRUE, info')
  /\ UNCHANGED <<files, snd, clock, rcv>>

\* The end of an iteration, and of the loop with a last report.
FileProxied(i) ==
  /\ info' = [i EXCEPT !.completed = @ + 1]
  /\ srv' = [srv EXCEPT !.at = ReadNext(info'.completed, i.all)]
  /\ ProgressSend(info'.completed = i.all, info')

\* Mutant: cur_progress is not reset for the next file.
ProxyMetaKeepsProgress ==
  /\ Proxying("meta") /\ Len(up) >= 2
  /\ WriteDown(SubSeq(up, 1, 2)) /\ up' = SubSeq(up, 3, Len(up))
  /\ LET m == up[1]
         i == [info EXCEPT !.cur_size = m.size]
     IN  IF Body(m) = "next" THEN FileProxied(i)
         ELSE /\ info' = i
              /\ srv' = [at |-> Body(m), meta |-> m, progress |-> 0]
              /\ ProgressSend(FALSE, info')
  /\ UNCHANGED <<files, snd, clock, rcv>>

ProxyMeta ==
  /\ Proxying("meta") /\ Len(up) >= 2
  /\ up[1].unit = "meta" /\ up[2].unit = "path"
  /\ WriteDown(SubSeq(up, 1, 2)) /\ up' = SubSeq(up, 3, Len(up))
  /\ LET m == up[1]
         i == [info EXCEPT !.cur_size = m.size, !.cur_progress = 0]
     IN  IF Body(m) = "next"
         THEN FileProxied([i EXCEPT !.cur_progress = IF m.kind = "dir" THEN m.size ELSE 0])
         ELSE /\ info' = i
              /\ srv' = [at |-> Body(m), meta |-> m, progress |-> 0]
              /\ ProgressSend(FALSE, info')
  /\ UNCHANGED <<files, snd, clock, rcv>>

\* async_read returns at least one byte, at most what is left of the file. The
\* speed is computed once any time has passed, in whole milliseconds: the
\* division by zero ends the server.
ProxyBytes ==
  /\ Proxying("byte") /\ up # <<>> /\ up[1].unit = "byte"
  /\ \E n \in 1..SmallerOf(Buf, srv.meta.size - srv.progress) :
       /\ n <= Len(up) /\ \A j \in 1..n : up[j].unit = "byte"
       /\ WriteDown(SubSeq(up, 1, n)) /\ up' = SubSeq(up, n + 1, Len(up))
       /\ LET i == [info EXCEPT !.cur_progress = srv.progress + n, !.progress = @ + n] IN
          IF clock = "below_ms"
          THEN srv' = [srv EXCEPT !.at = "crashed"] /\ info' = i /\ UNCHANGED view
          ELSE IF srv.progress + n < srv.meta.size
          THEN /\ info' = i
               /\ srv' = [srv EXCEPT !.progress = @ + n]
               /\ ProgressSend(FALSE, info')
          ELSE FileProxied(i)
  /\ UNCHANGED <<files, snd, clock, rcv>>

\* Mutant: the target of a link is read and not passed on.
ProxyLinkSwallowed ==
  /\ Proxying("link") /\ up # <<>> /\ up[1].unit = "link"
  /\ up' = Tail(up) /\ UNCHANGED down
  /\ FileProxied([info EXCEPT !.cur_progress = srv.meta.size])
  /\ UNCHANGED <<files, snd, clock, rcv>>

ProxyLink ==
  /\ Proxying("link") /\ up # <<>> /\ up[1].unit = "link"
  /\ WriteDown(<<up[1]>>) /\ up' = Tail(up)
  /\ FileProxied([info EXCEPT !.cur_progress = srv.meta.size])
  /\ UNCHANGED <<files, snd, clock, rcv>>

\* Mutant: the failure is logged only.
ProxyFailsSilently ==
  /\ srv.at \in {"count", "meta", "byte", "link"}
  /\ (up = <<>> /\ snd.at \in {"done", "failed"}) \/ (srv.at # "count" /\ WriteFails)
  /\ srv' = [srv EXCEPT !.at = "failed"]
  /\ UNCHANGED <<files, snd, up, info, clock, down, rcv, view>>

\* The source is at its end, or the receiver's is noticed.
ProxyFails ==
  /\ srv.at \in {"count", "meta", "byte", "link"}
  /\ (up = <<>> /\ snd.at \in {"done", "failed"}) \/ (srv.at # "count" /\ WriteFails)
  /\ srv' = [srv EXCEPT !.at = "failed"]
  /\ view' = "failed"
  /\ UNCHANGED <<files, snd, up, info, clock, down, rcv>>

\* Time passes.
Tick ==
  /\ \/ clock = "same" /\ clock' = "below_ms"
     \/ clock = "below_ms" /\ clock' = "ms"
  /\ UNCHANGED <<files, snd, up, srv, info, down, rcv, view>>

-----------------------------------------------------------------------------
\* CopyReceiver::process.

Receiving(u) == rcv.at = u

\* The file is complete, with n bytes written to it if it is a regular one:
\* apply_attrs, and on to the next one.
FileReceived(m, n) ==
  LET done == Append(rcv.done, IF m.kind = "reg" THEN [m EXCEPT !.size = n] ELSE m) IN
  rcv' = [rcv EXCEPT !.at = IF Len(done) < rcv.all THEN "meta" ELSE "end",
                     !.progress = 0, !.done = done]

ReceiveHeader ==
  /\ Receiving("count") /\ Len(down) >= 2
  /\ rcv' = [rcv EXCEPT !.all = down[1].value,
                        !.at = IF down[1].value > 0 THEN "meta" ELSE "end"]
  /\ down' = SubSeq(down, 3, Len(down))
  /\ UNCHANGED <<files, snd, up, srv, info, clock, view>>

ReceiveMeta ==
  /\ Receiving("meta") /\ Len(down) >= 2
  /\ down[1].unit = "meta" /\ down[2].unit = "path"
  /\ down' = SubSeq(down, 3, Len(down))
  /\ IF Body(down[1]) = "next" THEN FileReceived(down[1], 0)
     ELSE rcv' = [rcv EXCEPT !.at = Body(down[1]), !.meta = down[1], !.progress = 0]
  /\ UNCHANGED <<files, snd, up, srv, info, clock, view>>

\* Mutant: the size of the buffer is asked for, whatever is left of the file.
WantedBuf == IF rcv.at = "byte" THEN Buf ELSE 1

\* How many units async_read waits for.
Wanted == IF rcv.at = "byte" THEN SmallerOf(Buf, rcv.meta.size - rcv.progress) ELSE 1

\* Mutant: one chunk is taken for the whole file.
ReceiveChunk ==
  /\ Receiving("byte")
  /\ Len(down) >= Wanted /\ \A j \in 1..Wanted : down[j].unit = "byte"
  /\ down' = SubSeq(down, Wanted + 1, Len(down))
  /\ FileReceived(rcv.meta, Wanted)
  /\ UNCHANGED <<files, snd, up, srv, info, clock, view>>

ReceiveBytes ==
  /\ Receiving("byte")
  /\ Len(down) >= Wanted /\ \A j \in 1..Wanted : down[j].unit = "byte"
  /\ down' = SubSeq(down, Wanted + 1, Len(down))
  /\ IF rcv.progress + Wanted < rcv.meta.size THEN rcv' = [rcv EXCEPT !.progress = @ + Wanted]
     ELSE FileReceived(rcv.meta, rcv.progress + Wanted)
  /\ UNCHANGED <<files, snd, up, srv, info, clock, view>>

ReceiveLink ==
  /\ Receiving("link") /\ down # <<>> /\ down[1].unit = "link"
  /\ down' = Tail(down)
  /\ FileReceived(rcv.meta, 0)
  /\ UNCHANGED <<files, snd, up, srv, info, clock, view>>

\* create_symlink or create_directory throws, the disk is full, the
\* connection is lost, or the server has given up.
ReceiverFails ==
  /\ rcv.at \in {"count", "meta", "byte", "link"}
  /\ "receiver" \in Failing \/ (Len(down) < Wanted /\ srv.at \in {"failed", "crashed"})
  /\ rcv' = [rcv EXCEPT !.at = "failed"]
  /\ UNCHANGED <<files, snd, up, srv, info, clock, down, view>>

-----------------------------------------------------------------------------
Init ==
  /\ files \in FileLists
  /\ snd = [at |-> "count", file |-> 1, progress |-> 0]
  /\ up = <<>>
  /\ srv = [at |-> "count", meta |-> NoMeta, progress |-> 0]
  /\ info = [all |-> 0, completed |-> 0, total |-> 0, progress |-> 0,
             cur_size |-> 0, cur_progress |-> 0]
  /\ clock \in Clocks
  /\ down = <<>>
  /\ rcv = [at |-> "count", all |-> 0, meta |-> NoMeta, progress |-> 0, done |-> <<>>]
  /\ view = "progress"

Sender   == SendHeader \/ SendMeta \/ SendBytes \/ SendLink
Proxy    == ProxyHeader \/ ProxyMeta \/ ProxyBytes \/ ProxyLink \/ ProxyFails
Receiver == ReceiveHeader \/ ReceiveMeta \/ ReceiveBytes \/ ReceiveLink

Next == Sender \/ SenderFails \/ Proxy \/ Tick \/ Receiver \/ ReceiverFails

Spec == Init /\ [][Next]_vars

\* The three programs run; time passes; nothing makes one of them fail.
FairSpec == Spec /\ WF_vars(Sender) /\ WF_vars(Proxy) /\ WF_vars(Receiver) /\ WF_vars(Tick)

-----------------------------------------------------------------------------
Ats == {"count", "meta", "byte", "link", "end", "failed", "crashed"}
Metas == [unit : {"meta"}, kind : {"reg", "dir", "link"}, size : Nat]
Units == Metas \cup [unit : {"number"}, value : Nat] \cup [unit : {"path", "byte", "link"}]

\* Every variable has its type.
TypeOK ==
  /\ files \in Seq(FileType)
  /\ snd \in [at : {"count", "meta", "byte", "link", "done", "failed"}, file : Nat, progress : Nat]
  /\ up \in Seq(Units) /\ down \in Seq(Units)
  /\ srv \in [at : Ats, meta : Metas, progress : Nat]
  /\ info \in [all : Nat, completed : Nat, total : Nat, progress : Nat,
               cur_size : Nat, cur_progress : Nat]
  /\ clock \in {"same", "below_ms", "ms"}
  /\ rcv \in [at : Ats, all : Nat, meta : Metas, progress : Nat, done : Seq(Metas)]
  /\ view \in {"progress", "completed", "failed"}

\* No file changed between the collection of its metadata and its turn.
Unchanged == \A i \in DOMAIN files : files[i].kind = "reg" => files[i].content = files[i].size

\* The proxy and the receiver find what they read next at the head of their
\* connections, if no file changed: neither ever takes contents for messages,
\* however the bytes are cut up on the way and whoever fails.
Framed(at, stream) ==
  \/ stream = <<>> \/ at \in {"end", "failed", "crashed"}
  \/ stream[1].unit = (IF at = "count" THEN "number" ELSE at)
FramingKept == Unchanged => Framed(srv.at, up) /\ Framed(rcv.at, down)

\* What the receiver has written is the beginning of what was to be sent, file
\* by file and in full; all of it, when the receiver is through.
FilesArrive ==
  LET sent == [i \in DOMAIN files |-> Meta(files[i])] IN
  /\ IsPrefix(rcv.done, sent)
  /\ rcv.at = "end" => rcv.done = sent

\* The watcher's figures: what was proxied is not more than was announced, and
\* it is all of it once the files are.
ProgressSound ==
  /\ info.progress <= info.total /\ info.completed <= info.all
  /\ info.cur_progress <= info.cur_size
  /\ srv.at = "end" => info.progress = info.total /\ info.completed = Len(files)

\* Completion is shown only when the proxy has passed on all the files.
CompletedMeansProxied == view = "completed" => srv.at = "end"

\* The watcher learns how the copy ended, if no file changed and the server
\* survives.
CopyEnds == Unchanged => <>(view \in {"completed", "failed"} \/ srv.at = "crashed")

\* The receiver gets through, if no file changed and nobody fails.
CopyArrives ==
  Unchanged => <>(rcv.at \in {"end", "failed"} \/ snd.at = "failed" \/ srv.at = "crashed")

-----------------------------------------------------------------------------
\* What the documentation promises and the code does not keep.

\* The watcher is told of the progress until the copy is over.
ProgressReported == <>(view \in {"completed", "failed"})

=============================================================================
