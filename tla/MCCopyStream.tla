---------------------------- MODULE MCCopyStream ----------------------------
(***************************************************************************)
(* Small instances of CopyStream.                                          *)
(***************************************************************************)
EXTENDS CopyStream

File(kind, size, content) == [kind |-> kind, size |-> size, content |-> content]

\* Files that do not change while they are copied: of each kind, with sizes
\* below, at and above the size of the buffer.
Stable == {File("dir", 1, 0), File("link", 1, 0)} \cup {File("reg", n, n) : n \in 0..3}
StableLists == {<<>>} \cup {<<f>> : f \in Stable} \cup {<<f, g>> : f, g \in Stable}
\* Files that grow and shrink between the collection of their metadata and
\* their turn to be sent.
Grown == {<<File("reg", 1, 2), File("dir", 1, 0)>>}
Shrunk == {<<File("reg", 2, 1)>>}
AllLists == StableLists \cup Grown \cup Shrunk

OneFile == {<<File("reg", 1, 1)>>}
=============================================================================
