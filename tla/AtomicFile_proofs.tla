------------------------- MODULE AtomicFile_proofs -------------------------
(***************************************************************************)
(* Proofs about AtomicFile when one writer is at work at a time: the file  *)
(* implements FileRegister, and a reader keeps the version it opened, for  *)
(* any number of writers, readers' inodes and versions of any length.      *)
(***************************************************************************)
EXTENDS AtomicFile, SequenceTheorems, TLAPS

Busy(w) == pc[w] # "idle"

(* Everything rests on the temporary file being nobody else's inode.       *)
FInv ==
    /\ TypeOK
    /\ \A w, u \in Writer : Busy(w) /\ Busy(u) => w = u
    /\ \A w \in Writer : Busy(w) => tmp # NoInode /\ fd[w] = tmp
    /\ \A w \in Writer : pc[w] = "write" => content[tmp] = <<>>
    /\ \A w \in Writer : pc[w] = "rename" => content[tmp] = Text(next[w])
    /\ tmp # NoInode => tmp # dst /\ tmp # view
    /\ dst # NoInode => Whole(content[dst])
    /\ view # NoInode => Whole(content[view])

(* A version is a sequence of blocks.                                      *)
LEMMA TextSeq ==
    ASSUME NEW v \in Version
    PROVE  Text(v) \in Seq(Version) /\ Len(Text(v)) = Length[v]
  <1>1. Length[v] \in Nat
    BY FileAssumption
  <1> QED BY <1>1 DEF Text

(* A text written over an empty inode is what the inode then holds.        *)
LEMMA WrittenOverNothing ==
    ASSUME NEW v \in Version
    PROVE  Overwritten(<<>>, Text(v)) = Text(v)
  <1>1. Text(v) \in Seq(Version)
    BY TextSeq
  <1>2. Len(Text(v)) \in Nat
    BY <1>1
  <1>3. SubSeq(<<>>, Len(Text(v)) + 1, Len(<<>>)) = <<>>
    BY <1>2
  <1>4. Text(v) \o <<>> = Text(v)
    BY <1>1, ConcatEmptySeq
  <1> QED BY <1>3, <1>4 DEF Overwritten

(* A part of a text over an empty inode is a sequence of blocks.           *)
LEMMA PartSeq ==
    ASSUME NEW v \in Version, NEW n \in 0 .. Length[v] - 1
    PROVE  Overwritten(<<>>, SubSeq(Text(v), 1, n)) \in Seq(Version)
  <1>1. Text(v) \in Seq(Version) /\ Len(Text(v)) = Length[v] /\ Length[v] \in Nat
    BY TextSeq, FileAssumption
  <1>2. SubSeq(Text(v), 1, n) \in Seq(Version)
    BY <1>1
  <1>3. SubSeq(<<>>, Len(SubSeq(Text(v), 1, n)) + 1, Len(<<>>)) = <<>>
    BY <1>2
  <1> QED BY <1>2, <1>3, ConcatEmptySeq DEF Overwritten

-----------------------------------------------------------------------------
(* The invariant holds while there is no file.                             *)
LEMMA InitInv == Init => FInv
  BY DEF Init, FInv, TypeOK, Busy

(* Opening takes an inode no name and no reader refers to, or the          *)
(* temporary file a failed writer left.                                    *)
LEMMA OpenInv ==
    ASSUME FInv, OneWriter, NEW w \in Writer, Open(w)
    PROVE  FInv'
  <1> USE DEF Open, Go, Emptied, FInv, TypeOK, Busy
  <1>1. PICK i \in Inode : /\ i # dst /\ i # view
                           /\ tmp' = i
                           /\ fd' = [fd EXCEPT ![w] = i]
                           /\ content' = [content EXCEPT ![i] = <<>>]
    BY DEF Free
  <1>2. i # NoInode
    BY FileAssumption
  <1>3. \A u \in Writer \ {w} : pc'[u] = "idle"
    OBVIOUS
  <1>4. TypeOK'
    <2>1. content' \in [Inode -> Seq(Version)]
      BY <1>1
    <2> QED BY <1>1, <1>2, <2>1
  <1>5. pc'[w] = "write" /\ fd'[w] = i /\ content'[i] = <<>>
    BY <1>1
  <1>6. /\ dst # NoInode => content'[dst] = content[dst]
        /\ view # NoInode => content'[view] = content[view]
    BY <1>1
  <1> QED BY <1>1, <1>2, <1>3, <1>4, <1>5, <1>6 DEF Whole

(* A writer that is at work owns the temporary file.                       *)
LEMMA WriteInv ==
    ASSUME FInv, NEW w \in Writer, Write(w)
    PROVE  FInv'
  <1> USE DEF Write, Go, FInv, TypeOK, Busy
  <1>1. fd[w] = tmp /\ tmp \in Inode /\ content[tmp] = <<>> /\ next[w] \in Version
    OBVIOUS
  <1>2. content' = [content EXCEPT ![tmp] = Text(next[w])]
    BY <1>1, WrittenOverNothing
  <1>3. content' \in [Inode -> Seq(Version)]
    BY <1>1, <1>2, TextSeq
  <1>4. /\ dst # NoInode => content'[dst] = content[dst]
        /\ view # NoInode => content'[view] = content[view]
        /\ content'[tmp] = Text(next[w])
    BY <1>1, <1>2
  <1>5. \A u \in Writer \ {w} : pc'[u] = "idle"
    OBVIOUS
  <1> QED BY <1>1, <1>3, <1>4, <1>5 DEF Whole

(* A failed write has changed the temporary file alone.                    *)
LEMMA WriteFailsInv ==
    ASSUME FInv, NEW w \in Writer, WriteFails(w)
    PROVE  /\ FInv'
           /\ dst # NoInode => content'[dst] = content[dst]
           /\ view # NoInode => content'[view] = content[view]
  <1> USE DEF WriteFails, Close, Go, FInv, TypeOK, Busy
  <1>1. fd[w] = tmp /\ tmp \in Inode /\ content[tmp] = <<>> /\ next[w] \in Version
    OBVIOUS
  <1>2. PICK n \in 0 .. Length[next[w]] - 1 :
          content' = [content EXCEPT ![tmp] =
                        Overwritten(<<>>, SubSeq(Text(next[w]), 1, n))]
    BY <1>1
  <1>3. content' \in [Inode -> Seq(Version)]
    BY <1>1, <1>2, PartSeq
  <1>4. /\ dst # NoInode => content'[dst] = content[dst]
        /\ view # NoInode => content'[view] = content[view]
    BY <1>1, <1>2
  <1>5. \A u \in Writer : pc'[u] = "idle"
    OBVIOUS
  <1> QED BY <1>1, <1>3, <1>4, <1>5 DEF Whole

(* The renamed file is whole, and the name path.tmp is free again.         *)
LEMMA RenameInv ==
    ASSUME FInv, NEW w \in Writer, Rename(w)
    PROVE  /\ FInv'
           /\ dst' = dst \/ (dst' \in Inode /\ content'[dst'] = Text(next[w]))
  <1> USE DEF Rename, Close, Go, FInv, TypeOK, Busy
  <1>1. tmp \in Inode /\ tmp # NoInode /\ content[tmp] = Text(next[w]) /\ next[w] \in Version
    OBVIOUS
  <1>2. \A u \in Writer : pc'[u] = "idle"
    OBVIOUS
  <1> QED BY <1>1, <1>2 DEF Whole

(* What readers do, the removal of the profile and a crash leave every     *)
(* inode as it is.                                                         *)
LEMMA OtherInv ==
    ASSUME FInv, OneWriter, RemoveManagedProfile \/ ReadOpen \/ ReadClose \/ Crash
    PROVE  FInv'
  <1> USE DEF FInv, TypeOK, Busy
  <1>1. CASE RemoveManagedProfile
    BY <1>1 DEF RemoveManagedProfile, Whole
  <1>2. CASE ReadOpen
    BY <1>2 DEF ReadOpen, Whole
  <1>3. CASE ReadClose
    BY <1>3 DEF ReadClose, Whole
  <1>4. CASE Crash
    BY <1>4 DEF Crash, Whole
  <1> QED BY <1>1, <1>2, <1>3, <1>4

(* The invariant is kept by every step.                                    *)
LEMMA StepInv ==
    ASSUME FInv, OneWriter, [Next]_vars
    PROVE  FInv'
  <1>1. CASE Next
    BY <1>1, OpenInv, WriteInv, WriteFailsInv, RenameInv, OtherInv DEF Next
  <1>2. CASE UNCHANGED vars
    BY <1>2 DEF vars, FInv, TypeOK, Busy, Whole
  <1> QED BY <1>1, <1>2

-----------------------------------------------------------------------------
(* The inductive invariant holds of every reachable state.                 *)
THEOREM FileInvariant == ASSUME OneWriter PROVE Spec => []FInv
  <1>1. FInv /\ [Next]_vars => FInv'
    BY StepInv, OneWriter
  <1> QED BY <1>1, InitInv, PTL DEF Spec

(* The whole-file promise the violation run refutes for two writers holds   *)
(* for one.                                                                *)
THEOREM OneWriterWhole == ASSUME OneWriter PROVE Spec => []FileIsWhole
  <1>1. FInv => FileIsWhole
    BY DEF FInv, FileIsWhole
  <1> QED BY <1>1, FileInvariant, OneWriter, PTL

(* What a reader has open is a whole version, and no step changes it.      *)
THEOREM ReaderSafe == ASSUME OneWriter PROVE Spec => ReaderKeepsVersion
  <1>1. ASSUME FInv, [Next]_vars, view # NoInode, view' = view
        PROVE  Whole(content[view]) /\ content'[view] = content[view]
    <2>1. Whole(content[view])
      BY <1>1 DEF FInv
    <2>2. CASE \E w \in Writer : Open(w)
      <3>1. \E i \in Inode : i # view /\ content' = [content EXCEPT ![i] = <<>>]
        BY <1>1, <2>2 DEF FInv, Open, Free, Emptied, TypeOK
      <3> QED BY <1>1, <2>1, <3>1 DEF FInv, TypeOK
    <2>3. CASE \E w \in Writer : Write(w)
      BY <1>1, <2>1, <2>3 DEF FInv, Write, Go, Busy, TypeOK
    <2>4. CASE \E w \in Writer : WriteFails(w)
      BY <1>1, <2>1, <2>4, WriteFailsInv
    <2>5. CASE UNCHANGED content
      BY <2>1, <2>5
    <2> QED
      BY <1>1, <2>2, <2>3, <2>4, <2>5
      DEF Next, Rename, RemoveManagedProfile, ReadOpen, ReadClose, Crash, vars
  <1>2. FInv /\ [Next]_vars
          => [view # NoInode /\ view' = view =>
                Whole(content[view]) /\ content'[view] = content[view]]_vars
    BY <1>1
  <1> QED BY <1>2, FileInvariant, OneWriter, PTL DEF Spec, ReaderKeepsVersion

-----------------------------------------------------------------------------
(* The file as its callers see it.                                         *)
Value == IF dst = NoInode THEN <<>> ELSE content[dst]

(* Every step of the file is one of the register, or none: only a rename   *)
(* puts a version, only the removal of the profile removes it.             *)
LEMMA RegisterStep ==
    ASSUME FInv, OneWriter, [Next]_vars
    PROVE  [Register!Next]_Value
  <1> USE DEF Value
  <1>1. CASE \E w \in Writer : Open(w)
    <2>1. \E i \in Inode : i # dst /\ content' = [content EXCEPT ![i] = <<>>]
      BY <1>1 DEF FInv, Open, Free, Emptied, TypeOK
    <2>2. UNCHANGED dst
      BY <1>1 DEF Open
    <2> QED BY <2>1, <2>2 DEF FInv, TypeOK
  <1>2. CASE \E w \in Writer : Write(w)
    BY <1>2 DEF FInv, Write, Go, Busy, TypeOK
  <1>3. CASE \E w \in Writer : WriteFails(w)
    BY <1>3, WriteFailsInv DEF WriteFails
  <1>4. ASSUME NEW w \in Writer, Rename(w) PROVE [Register!Next]_Value
    <2>1. CASE dst' = dst
      BY <1>4, <2>1 DEF Rename
    <2>2. CASE dst' \in Inode /\ content'[dst'] = Text(next[w])
      <3>1. Value' = Text(next[w])
        BY <2>2, FileAssumption
      <3>2. next[w] \in Version
        BY DEF FInv, TypeOK
      <3> QED BY <3>1, <3>2 DEF Register!Next, Register!Put
    <2> QED BY <1>4, <2>1, <2>2, RenameInv
  <1>5. CASE RemoveManagedProfile
    BY <1>5 DEF RemoveManagedProfile, Register!Next, Register!Remove
  <1>6. CASE UNCHANGED <<dst, content>>
    BY <1>6
  <1> QED
    BY <1>1, <1>2, <1>3, <1>4, <1>5, <1>6
    DEF Next, ReadOpen, ReadClose, Crash, vars

(* With one writer at a time the file implements the register.             *)
THEOREM Implements == ASSUME OneWriter PROVE Spec => AtomicReplace
  <1>1. Init => Register!Init
    BY DEF Init, Register!Init
  <1>2. FInv /\ [Next]_vars => [Register!Next]_Value
    BY RegisterStep, OneWriter
  <1> QED BY <1>1, <1>2, FileInvariant, OneWriter, PTL
      DEF Spec, AtomicReplace, Register!Spec, Value
=============================================================================
