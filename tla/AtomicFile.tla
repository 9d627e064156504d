----------------------------- MODULE AtomicFile -----------------------------
(***************************************************************************)
(* How couswee replaces one auth file: copyFile, writeFileAtomic and       *)
(* WriteAuth all write a temporary file of one fixed name beside it,       *)
(* path.tmp, and rename it.  Neither name is more than a reference to an   *)
(* inode; a writer keeps writing to the inode it opened, at its own        *)
(* offset, whatever happens to the names.                                  *)
(***************************************************************************)
EXTENDS Naturals, Sequences

CONSTANTS
    Writer,     \* threads that replace the file
    Version,    \* what may be written
    Length,     \* how long each version is
    Inode, NoInode,
    OneWriter,  \* TRUE: one writer at a time
    IOFaults    \* TRUE: system calls may fail, the process may die

ASSUME FileAssumption ==
    /\ Length \in [Version -> Nat \ {0}]
    /\ NoInode \notin Inode
    /\ {OneWriter, IOFaults} \subseteq BOOLEAN

VARIABLES
    dst, tmp,   \* the inodes behind the file and its temporary file
    content,    \* what every inode holds, one element per block
    fd,         \* the inode every writer has open
    next,       \* the version it writes
    pc,         \* where it is
    view        \* the inode a reader has open

vars == <<dst, tmp, content, fd, next, pc, view>>

Text(v) == [k \in 1 .. Length[v] |-> v]

Whole(text) == \E v \in Version : text = Text(v)

TypeOK ==
    /\ {dst, tmp, view} \subseteq Inode \cup {NoInode}
    /\ content \in [Inode -> Seq(Version)]
    /\ fd \in [Writer -> Inode \cup {NoInode}]
    /\ next \in [Writer -> Version]
    /\ pc \in [Writer -> {"idle", "write", "rename"}]
    /\ \A w \in Writer : pc[w] = "idle" <=> fd[w] = NoInode

Init ==
    /\ dst = NoInode
    /\ tmp = NoInode
    /\ content = [i \in Inode |-> <<>>]
    /\ fd = [w \in Writer |-> NoInode]
    /\ next \in [Writer -> Version]
    /\ pc = [w \in Writer |-> "idle"]
    /\ view = NoInode

-----------------------------------------------------------------------------
Free == Inode \ ({dst, tmp, view} \cup {fd[w] : w \in Writer})

Go(w, from, to) == pc[w] = from /\ pc' = [pc EXCEPT ![w] = to]

Close(w, from) ==
    /\ Go(w, from, "idle")
    /\ fd' = [fd EXCEPT ![w] = NoInode]
    /\ UNCHANGED next

(* Wrong on purpose: a temporary file left over is not truncated.          *)
WrongEmptied(i) == content

Emptied(i) == [content EXCEPT ![i] = <<>>]

(* The temporary file is created, or truncated if it exists.               *)
Open(w) ==
    /\ Go(w, "idle", "write")
    /\ OneWriter => \A u \in Writer : pc[u] = "idle"
    /\ \E v \in Version : next' = [next EXCEPT ![w] = v]
    /\ \E i \in IF tmp = NoInode THEN Free ELSE {tmp} :
        /\ tmp' = i
        /\ fd' = [fd EXCEPT ![w] = i]
        /\ content' = Emptied(i)
    /\ UNCHANGED <<dst, view>>

(* Blocks are written from the start over what the inode holds.            *)
Overwritten(old, text) == text \o SubSeq(old, Len(text) + 1, Len(old))

Write(w) ==
    /\ Go(w, "write", "rename")
    /\ content' = [content EXCEPT ![fd[w]] = Overwritten(@, Text(next[w]))]
    /\ UNCHANGED <<dst, tmp, fd, next, view>>

(* A write that fails has written a part; copyFile removes the temporary   *)
(* file, the other two leave it.                                           *)
WriteFails(w) ==
    /\ IOFaults
    /\ Close(w, "write")
    /\ \E n \in 0 .. Length[next[w]] - 1 :
        content' = [content EXCEPT ![fd[w]] =
                      Overwritten(@, SubSeq(Text(next[w]), 1, n))]
    /\ tmp' \in {tmp, NoInode}
    /\ UNCHANGED <<dst, view>>

(* Wrong on purpose: the rename does not wait for the write to end.         *)
WrongRename(w) ==
    /\ pc[w] \in {"write", "rename"}
    /\ Close(w, pc[w])
    /\ tmp # NoInode
    /\ dst' = tmp
    /\ tmp' = NoInode
    /\ UNCHANGED <<content, view>>

(* Renaming fails when another writer has renamed or removed the temporary *)
(* file; a failed rename removes it.                                       *)
Rename(w) ==
    /\ Close(w, "rename")
    /\ tmp' = NoInode
    /\ \/ dst' = IF tmp = NoInode THEN dst ELSE tmp
       \/ IOFaults /\ UNCHANGED dst
    /\ UNCHANGED <<content, view>>

(* The managed profile is removed with everything in it.                   *)
RemoveManagedProfile ==
    /\ dst # NoInode
    /\ OneWriter => \A u \in Writer : pc[u] = "idle"
    /\ dst' = NoInode
    /\ tmp' = NoInode
    /\ UNCHANGED <<content, fd, next, pc, view>>

(* os.ReadFile opens the file and reads what its inode then holds.         *)
ReadOpen ==
    /\ view = NoInode /\ dst # NoInode
    /\ view' = dst
    /\ UNCHANGED <<dst, tmp, content, fd, next, pc>>

ReadClose ==
    /\ view # NoInode
    /\ view' = NoInode
    /\ UNCHANGED <<dst, tmp, content, fd, next, pc>>

(* couswee dies; a part of the file may have been written.                 *)
Crash ==
    /\ IOFaults
    /\ \E w \in Writer : pc[w] # "idle"
    /\ pc' = [w \in Writer |-> "idle"]
    /\ fd' = [w \in Writer |-> NoInode]
    /\ view' = NoInode
    /\ UNCHANGED <<dst, tmp, content, next>>

Next ==
    \/ \E w \in Writer : Open(w) \/ Write(w) \/ WriteFails(w) \/ Rename(w)
    \/ RemoveManagedProfile
    \/ ReadOpen \/ ReadClose
    \/ Crash

Spec == Init /\ [][Next]_vars

-----------------------------------------------------------------------------
(* With one writer at a time the file is a register: it changes from one   *)
(* whole version to another at once, also across failed writes, leftover   *)
(* temporary files and crashes (writeFileAtomic).                          *)
Register == INSTANCE FileRegister WITH
    Version <- {Text(v) : v \in Version},
    Absent <- <<>>,
    value <- IF dst = NoInode THEN <<>> ELSE content[dst]

AtomicReplace == Register!Spec

(* What a reader has open stays the whole version it opened, however often *)
(* the file is replaced meanwhile.                                         *)
ReaderKeepsVersion ==
    [][view # NoInode /\ view' = view =>
          Whole(content[view]) /\ content'[view] = content[view]]_vars

(* The file is always a copy of one of the versions written to it (README  *)
(* on switching: the auth file of the account is copied to auth.json).     *)
FileIsWhole == dst # NoInode => Whole(content[dst])
=============================================================================
