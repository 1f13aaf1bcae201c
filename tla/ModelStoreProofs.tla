-------------------------- MODULE ModelStoreProofs --------------------------
(***************************************************************************)
(* What clients are served is the verified model or nothing, for any       *)
(* number of commands, faults and chunks, unless a command that runs has   *)
(* met another.                                                            *)
(*                                                                         *)
(* The argument: a command that has met no other is the only one that      *)
(* runs, so that the .partial it has verified is the one it renames, and   *)
(* the file it writes is the .partial and not the file clients are served. *)
(***************************************************************************)
EXTENDS ModelStore, FiniteSetTheorems, FunctionTheorems, SequenceTheorems, TLAPS

\* A command that has met no other runs alone.
RunsAlone ==
    \A c \in Command : cmd[c].at # "idle" /\ ~cmd[c].shared =>
        \A k \in Command \ {c} : cmd[k].at = "idle"

\* It writes the .partial, and renames what it has verified.
OwnPartial ==
    \A c \in Command : ~cmd[c].shared =>
        /\ cmd[c].at = "copy" => cmd[c].fd = partial /\ partial # NoFile
        /\ cmd[c].at = "place" => Named(partial) = Model

\* The file clients are served is not the .partial.
TwoFiles == dest = partial => dest = NoFile

\* A command has a file open while it copies.
OpenFile ==
    \A c \in Command : IF cmd[c].at = "copy" THEN cmd[c].fd \in Inode ELSE cmd[c].fd = NoFile

IInv == TypeOK /\ RunsAlone /\ OwnPartial /\ TwoFiles /\ OpenFile

At == {"idle", "remove", "resume", "ask", "open", "copy", "check", "place"}
Cmd == [at : At, fd : Inode \cup {NoFile}, offset : 0 .. Bytes + 1, shared : BOOLEAN]

-----------------------------------------------------------------------------
LEMMA InodeIs == Cardinality(Command) \in Nat /\ Inode \subseteq Nat \ {0} /\ 1 \in Inode /\ 2 \in Inode
<1>1. Cardinality(Command) \in Nat
  BY SizesAssumption, FS_CardinalityType
<1> QED
  BY <1>1 DEF Inode

\* There is one file more than names and commands refer to.
LEMMA FreeIs ==
  ASSUME TypeOK, partial = NoFile
  PROVE  Free \in Inode /\ Free # dest /\ \A c \in Command : cmd[c].fd # Free
<1> DEFINE fds == {cmd[c].fd : c \in Command}
           n == Cardinality(Command)
           refs == fds \cup {dest}
<1>1. n \in Nat
  BY InodeIs
<1>2. IsFiniteSet(fds) /\ Cardinality(fds) <= n
  <2> DEFINE f == [c \in Command |-> cmd[c].fd]
  <2>1. f \in Surjection(Command, fds)
    BY DEF Surjection
  <2> QED
    BY <2>1, SizesAssumption, FS_Surjection DEF ExistsSurjection
<1>3. IsFiniteSet(refs) /\ Cardinality(refs) <= n + 1
  BY <1>1, <1>2, FS_AddElement, FS_CardinalityType
<1>4. Cardinality(Inode) = n + 2
  BY <1>1, FS_Interval DEF Inode
<1>5. ~(Inode \subseteq refs)
  <2> SUFFICES ASSUME Inode \subseteq refs PROVE FALSE
    OBVIOUS
  <2>1. Cardinality(Inode) <= Cardinality(refs)
    BY <1>3, FS_Subset
  <2>2. Cardinality(refs) \in Nat
    BY <1>3, FS_CardinalityType
  <2> QED
    BY <1>1, <1>3, <1>4, <2>1, <2>2
<1>6. PICK i \in Inode : i \notin refs
  BY <1>5
<1>7. i \notin {dest, partial} \cup fds
  BY <1>6, InodeIs DEF NoFile
<1>8. Free \in Inode /\ Free \notin {dest, partial} \cup fds
  BY <1>7 DEF Free
<1> QED
  BY <1>8

\* Writing a chunk, at most one place past the size, leaves a content.
LEMMA WriteIs ==
  ASSUME NEW content \in Contents, NEW i \in 1 .. Bytes + 1, NEW chunk \in Chunk
  PROVE  Write(content, i, chunk) \in Contents
<1>1. PICK n \in 0 .. Bytes + 1 : content \in [1 .. n -> Chunk]
  BY DEF Contents
<1>2. n \in Nat /\ Bytes \in Nat
  BY SizesAssumption
<1>3. content \in Seq(Chunk)
  BY <1>1, <1>2
<1>4. Len(content) = n
  BY <1>1, <1>2, <1>3
<1> DEFINE m == IF i > n THEN i ELSE n
<1>5. m \in 0 .. Bytes + 1
  BY <1>2
<1>6. Write(content, i, chunk) \in [1 .. m -> Chunk]
  BY <1>1, <1>2, <1>4 DEF Write, Chunk
<1> QED
  BY <1>5, <1>6 DEF Contents

LEMMA LengthIs ==
  ASSUME NEW content \in Contents
  PROVE  Len(content) \in 0 .. Bytes + 1
<1>1. PICK n \in 0 .. Bytes + 1 : content \in [1 .. n -> Chunk]
  BY DEF Contents
<1>2. n \in Nat /\ Bytes \in Nat
  BY SizesAssumption
<1>3. content \in Seq(Chunk)
  BY <1>1, <1>2
<1> QED
  BY <1>1, <1>2, <1>3

LEMMA EmptyIs == <<>> \in Contents
<1>1. 0 \in 0 .. Bytes + 1
  BY SizesAssumption
<1>2. <<>> \in [1 .. 0 -> Chunk]
  OBVIOUS
<1> QED
  BY <1>1, <1>2 DEF Contents

LEMMA InitHolds == Init => IInv
<1> SUFFICES ASSUME Init PROVE IInv
  OBVIOUS
<1>1. disk \in [Inode -> Contents]
  BY EmptyIs DEF Init
<1>2. TypeOK
  BY <1>1, InodeIs, SizesAssumption DEF TypeOK, Init, Idle, NoFile
<1>3. \A c \in Command : cmd[c] = Idle
  BY DEF Init
<1> QED
  BY <1>2, <1>3 DEF IInv, RunsAlone, OwnPartial, TwoFiles, OpenFile, Init, Idle, NoFile

-----------------------------------------------------------------------------
\* A command that runs does something next.
LEMMA MoveKeeps ==
  ASSUME IInv, NEW c \in Command, cmd[c].at # "idle",
         NEW n \in Cmd, cmd' = [cmd EXCEPT ![c] = n],
         n.at # "idle" => n.shared = cmd[c].shared,
         IF n.at = "copy" THEN n.fd \in Inode ELSE n.fd = NoFile,
         ~n.shared => /\ n.at = "copy" => n.fd = partial' /\ partial' # NoFile
                      /\ n.at = "place" => Named(partial)' = Model,
         disk' \in [Inode -> Contents], dest' \in Inode \cup {NoFile},
         partial' \in Inode \cup {NoFile}, faults' \in 0 .. MaxFault, TwoFiles'
  PROVE  IInv'
<1>1. cmd \in [Command -> Cmd]
  BY DEF IInv, TypeOK, Cmd, At
<1>2. cmd' \in [Command -> Cmd] /\ \A k \in Command : cmd'[k] = IF k = c THEN n ELSE cmd[k]
  BY <1>1
<1>3. TypeOK'
  BY <1>2 DEF TypeOK, Cmd, At
<1>4. RunsAlone'
  BY <1>2 DEF IInv, RunsAlone
<1>5. OwnPartial'
  <2> SUFFICES ASSUME NEW k \in Command, ~cmd'[k].shared
               PROVE  /\ cmd'[k].at = "copy" => cmd'[k].fd = partial' /\ partial' # NoFile
                      /\ cmd'[k].at = "place" => Named(partial)' = Model
    BY DEF OwnPartial
  <2>1. CASE k = c
    BY <1>2, <2>1
  <2>2. CASE k # c
    <3>1. cmd'[k] = cmd[k] /\ cmd[k].at = "idle"
      BY <1>2, <2>2 DEF IInv, RunsAlone
    <3> QED
      BY <3>1
  <2> QED
    BY <2>1, <2>2
<1>6. OpenFile'
  BY <1>2 DEF IInv, OpenFile
<1> QED
  BY <1>3, <1>4, <1>5, <1>6 DEF IInv

\* What a step may do to what clients are served.
ServedWell == Served' # Served => \/ Served' \in {Model, Nothing}
                                  \/ \E c \in Command : cmd[c].shared

LEMMA CmdIs ==
  ASSUME IInv, NEW c \in Command
  PROVE  /\ cmd[c] \in Cmd
         /\ cmd[c].at # "copy" => cmd[c].fd = NoFile
         /\ cmd[c].at = "copy" => cmd[c].fd \in Inode
         /\ disk \in [Inode -> Contents] /\ dest \in Inode \cup {NoFile}
         /\ partial \in Inode \cup {NoFile} /\ faults \in 0 .. MaxFault
         /\ TwoFiles
  BY DEF IInv, TypeOK, OpenFile, Cmd, At

LEMMA EndIs == Idle \in Cmd /\ Idle.at = "idle" /\ Idle.fd = NoFile /\ ~Idle.shared
<1>1. 0 \in 0 .. Bytes + 1
  BY SizesAssumption
<1> QED
  BY <1>1 DEF Idle, Cmd, At

LEMMA FaultIs == ASSUME IInv, Fault PROVE faults' \in 0 .. MaxFault
  BY SizesAssumption DEF IInv, TypeOK, Fault

\* The command is over, and nothing else has changed.
LEMMA EndKeeps ==
  ASSUME IInv, NEW c \in Command, cmd[c].at # "idle", End(c), Fault,
         UNCHANGED <<disk, dest, partial>>
  PROVE  IInv' /\ ServedWell
<1>1. cmd' = [cmd EXCEPT ![c] = Idle]
  BY DEF End
<1>2. IInv'
  BY <1>1, CmdIs, EndIs, FaultIs, MoveKeeps DEF TwoFiles
<1> QED
  BY <1>2 DEF ServedWell, Served, Named

LEMMA BeginKeeps ==
  ASSUME IInv, NEW c \in Command, Begin(c) PROVE IInv' /\ ServedWell
<1>1. PICK at \in {"remove", "resume"} :
         cmd' = [k \in Command |->
                   IF k = c THEN [Idle EXCEPT !.at = at, !.shared = (Running # {})]
                   ELSE IF k \in Running THEN [cmd[k] EXCEPT !.shared = TRUE]
                   ELSE cmd[k]]
  BY DEF Begin
<1>2. cmd[c].at = "idle" /\ UNCHANGED <<disk, dest, partial, faults>>
  BY DEF Begin
<1> DEFINE new == [Idle EXCEPT !.at = at, !.shared = (Running # {})]
<1>3. new \in Cmd /\ new.at = at /\ new.fd = NoFile /\ new.shared = (Running # {})
  BY EndIs DEF Idle, Cmd, At
<1>4. \A k \in Command \ {c} :
         /\ cmd'[k] \in Cmd /\ cmd'[k].at = cmd[k].at /\ cmd'[k].fd = cmd[k].fd
         /\ ~cmd'[k].shared => cmd[k].at = "idle"
  BY <1>1, CmdIs DEF Running, Cmd
<1>5. cmd'[c] = new /\ DOMAIN cmd' = Command
  BY <1>1
<1> HIDE DEF new
<1>6. cmd' \in [Command -> Cmd]
  BY <1>1, <1>3, <1>4, <1>5
<1>7. TypeOK'
  BY <1>2, <1>6 DEF IInv, TypeOK, Cmd, At
<1>8. RunsAlone'
  BY <1>3, <1>4, <1>5 DEF RunsAlone, Running
<1>9. OwnPartial'
  <2> SUFFICES ASSUME NEW k \in Command, ~cmd'[k].shared
               PROVE  cmd'[k].at # "copy" /\ cmd'[k].at # "place"
    BY DEF OwnPartial
  <2> QED
    BY <1>3, <1>4, <1>5
<1>10. OpenFile'
  BY <1>3, <1>4, <1>5, CmdIs DEF OpenFile
<1>11. IInv' 
  BY <1>2, <1>7, <1>8, <1>9, <1>10 DEF IInv, TwoFiles
<1> QED
  BY <1>2, <1>11 DEF ServedWell, Served, Named

-----------------------------------------------------------------------------
LEMMA RemoveBadKeeps ==
  ASSUME IInv, NEW c \in Command, RemoveBad(c) PROVE IInv' /\ ServedWell
<1> DEFINE n == [cmd[c] EXCEPT !.at = "resume"]
<1>1. cmd[c].at = "remove" /\ dest' = NoFile /\ UNCHANGED <<disk, partial, faults>>
  BY DEF RemoveBad
<1>2. cmd' = [cmd EXCEPT ![c] = n]
  BY DEF RemoveBad, Go
<1>3. n \in Cmd /\ n.at = "resume" /\ n.fd = NoFile /\ n.shared = cmd[c].shared
  BY <1>1, CmdIs DEF Cmd, At
<1> HIDE DEF n
<1>4. IInv'
  BY <1>1, <1>2, <1>3, CmdIs, MoveKeeps DEF TwoFiles
<1> QED
  BY <1>1, <1>4 DEF ServedWell, Served, Named

LEMMA AskingKeeps ==
  ASSUME IInv, NEW c \in Command, Resume(c) \/ AnswerFull(c) \/ AnswerRange(c)
  PROVE  IInv' /\ ServedWell
<1>1. PICK offset \in 0 .. Bytes + 1, at \in {"ask", "open"} :
         cmd' = [cmd EXCEPT ![c] = [cmd[c] EXCEPT !.at = at, !.offset = offset]]
  <2>0. 0 \in 0 .. Bytes + 1 /\ cmd \in [Command -> Cmd]
    BY SizesAssumption DEF IInv, TypeOK, Cmd, At
  <2>1. CASE Resume(c)
    <3> DEFINE o == IF partial # NoFile /\ Len(Named(partial)) < Bytes
                       THEN Len(disk[partial]) ELSE 0
    <3>1. o \in 0 .. Bytes + 1
      BY <2>0, CmdIs, LengthIs
    <3>2. cmd' = [cmd EXCEPT ![c] = [cmd[c] EXCEPT !.at = "ask", !.offset = o]]
      BY <2>0, <2>1 DEF Resume
    <3> HIDE DEF o
    <3> QED
      BY <3>1, <3>2
  <2>2. CASE AnswerFull(c)
    <3>1. cmd' = [cmd EXCEPT ![c] = [cmd[c] EXCEPT !.at = "open", !.offset = 0]]
      BY <2>0, <2>2 DEF AnswerFull
    <3> QED
      BY <2>0, <3>1
  <2>3. CASE AnswerRange(c)
    <3>1. cmd' = [cmd EXCEPT ![c] = [cmd[c] EXCEPT !.at = "open", !.offset = cmd[c].offset]]
      BY <2>0, <2>3 DEF AnswerRange, Go, Cmd
    <3>2. cmd[c].offset \in 0 .. Bytes + 1
      BY <2>0 DEF Cmd
    <3> QED
      BY <3>1, <3>2
  <2> QED
    BY <2>1, <2>2, <2>3
<1>2. /\ cmd[c].at \in {"resume", "ask"} /\ partial' \in {partial, NoFile}
      /\ UNCHANGED <<disk, dest, faults>>
  BY DEF Resume, AnswerFull, AnswerRange
<1> DEFINE n == [cmd[c] EXCEPT !.at = at, !.offset = offset]
<1>3. n \in Cmd /\ n.at = at /\ n.fd = NoFile /\ n.shared = cmd[c].shared
  BY <1>2, CmdIs DEF Cmd, At
<1>4. cmd' = [cmd EXCEPT ![c] = n]
  BY <1>1
<1> HIDE DEF n
<1>5. IInv'
  BY <1>2, <1>3, <1>4, CmdIs, MoveKeeps DEF TwoFiles
<1> QED
  BY <1>2, <1>5 DEF ServedWell, Served, Named

LEMMA OpenKeeps ==
  ASSUME IInv, NEW c \in Command, Open(c) PROVE IInv' /\ ServedWell
<1> DEFINE file == IF partial = NoFile THEN Free ELSE partial
           n == [cmd[c] EXCEPT !.at = "copy", !.fd = file]
<1>1. /\ cmd[c].at = "open" /\ partial' = file /\ UNCHANGED <<dest, faults>>
      /\ disk' = IF partial = NoFile THEN [disk EXCEPT ![file] = <<>>] ELSE disk
      /\ cmd' = [cmd EXCEPT ![c] = n]
  BY DEF Open
<1>2. file \in Inode /\ file # dest
  BY CmdIs, FreeIs DEF IInv, TwoFiles
<1>3. file # NoFile
  BY <1>2, InodeIs DEF NoFile
<1>4. n \in Cmd /\ n.at = "copy" /\ n.fd = file /\ n.shared = cmd[c].shared
  BY <1>2, CmdIs DEF Cmd, At
<1> HIDE DEF n, file
<1>5. disk' \in [Inode -> Contents] /\ \A i \in Inode \ {file} : disk'[i] = disk[i]
  BY <1>1, CmdIs, EmptyIs
<1>6. IInv'
  BY <1>1, <1>2, <1>3, <1>4, <1>5, CmdIs, MoveKeeps DEF TwoFiles
<1> QED
  BY <1>1, <1>2, <1>5, <1>6, CmdIs DEF ServedWell, Served, Named

\* The file a command writes that has met no other is the .partial.
LEMMA ReceiveKeeps ==
  ASSUME IInv, NEW c \in Command, NEW chunk \in Chunk, Receive(c, chunk),
         cmd[c].offset <= Bytes, UNCHANGED <<dest, partial>>, faults' \in 0 .. MaxFault
  PROVE  IInv' /\ ServedWell
<1> DEFINE i == cmd[c].offset + 1
           fd == cmd[c].fd
           n == [cmd[c] EXCEPT !.offset = i]
<1>1. /\ cmd[c].at = "copy" /\ cmd' = [cmd EXCEPT ![c] = n]
      /\ disk' = [disk EXCEPT ![fd] = Write(disk[fd], i, chunk)]
  BY DEF Receive
<1>2. fd \in Inode /\ disk[fd] \in Contents
  BY <1>1, CmdIs
<1>3. i \in 1 .. Bytes + 1 /\ i \in 0 .. Bytes + 1
  BY CmdIs, SizesAssumption DEF Cmd
<1>4. Write(disk[fd], i, chunk) \in Contents
  BY <1>2, <1>3, WriteIs
<1>5. n \in Cmd /\ n.at = "copy" /\ n.fd = fd /\ n.shared = cmd[c].shared
  BY <1>1, <1>3, CmdIs DEF Cmd
<1>6. ~cmd[c].shared => fd = partial /\ partial # NoFile
  BY <1>1 DEF IInv, OwnPartial
<1> HIDE DEF n, i, fd
<1>7. disk' \in [Inode -> Contents] /\ \A k \in Inode \ {fd} : disk'[k] = disk[k]
  BY <1>1, <1>4, CmdIs
<1>8. IInv'
  BY <1>1, <1>2, <1>5, <1>6, <1>7, CmdIs, MoveKeeps DEF TwoFiles
<1>9. ServedWell
  BY <1>6, <1>7, CmdIs DEF ServedWell, Served, Named, TwoFiles
<1> QED
  BY <1>8, <1>9

LEMMA CopyKeeps ==
  ASSUME IInv, NEW c \in Command, Copy(c) \/ CopyBad(c) PROVE IInv' /\ ServedWell
<1>1. cmd[c].offset \in Nat /\ Bytes \in Nat
  BY CmdIs, SizesAssumption DEF Cmd
<1>2. CASE Copy(c)
  <2>1. cmd[c].offset <= Bytes
    BY <1>1, <1>2 DEF Copy
  <2> QED
    BY <1>2, <2>1, CmdIs, ReceiveKeeps DEF Copy, Chunk
<1>3. CASE CopyBad(c)
  BY <1>3, FaultIs, ReceiveKeeps DEF CopyBad, Chunk
<1> QED
  BY <1>2, <1>3

\* The body is over.
LEMMA ClosingKeeps ==
  ASSUME IInv, NEW c \in Command, EndBody(c) \/ CutShort(c) PROVE IInv' /\ ServedWell
<1> DEFINE n == [cmd[c] EXCEPT !.at = "check", !.fd = NoFile]
<1>1. cmd[c].at = "copy" /\ UNCHANGED <<disk, dest, partial>> /\ faults' \in 0 .. MaxFault
  BY CmdIs, FaultIs DEF EndBody, CutShort
<1>2. cmd' = [cmd EXCEPT ![c] = n] \/ (End(c) /\ Fault)
  BY DEF EndBody, CutShort
<1>3. n \in Cmd /\ n.at = "check" /\ n.fd = NoFile /\ n.shared = cmd[c].shared
  BY CmdIs DEF Cmd, At
<1> HIDE DEF n
<1>4. CASE cmd' = [cmd EXCEPT ![c] = n]
  <2>1. IInv'
    BY <1>1, <1>3, <1>4, CmdIs, MoveKeeps DEF TwoFiles
  <2> QED
    BY <1>1, <2>1 DEF ServedWell, Served, Named
<1> QED
  BY <1>1, <1>2, <1>4, EndKeeps

\* What is renamed is what has been verified, for a command that runs alone.
LEMMA CheckKeeps ==
  ASSUME IInv, NEW c \in Command, Check(c) PROVE IInv' /\ ServedWell
<1> DEFINE n == IF Named(partial) = Model THEN [cmd[c] EXCEPT !.at = "place"] ELSE Idle
<1>1. /\ cmd[c].at = "check" /\ UNCHANGED <<disk, dest, faults>>
      /\ cmd' = [cmd EXCEPT ![c] = n]
      /\ partial' \in {partial, NoFile}
      /\ Named(partial) = Model => partial' = partial
  BY DEF Check, Go, End
<1>2. /\ n \in Cmd /\ n.at \in {"place", "idle"} /\ n.fd = NoFile
      /\ n.at # "idle" => n.shared = cmd[c].shared /\ Named(partial) = Model
  BY <1>1, CmdIs, EndIs DEF Cmd, At
<1> HIDE DEF n
<1>3. n.at = "place" => Named(partial)' = Model
  BY <1>1, <1>2 DEF Named
<1>4. IInv'
  BY <1>1, <1>2, <1>3, CmdIs, MoveKeeps DEF TwoFiles
<1> QED
  BY <1>1, <1>4 DEF ServedWell, Served, Named

LEMMA PlaceKeeps ==
  ASSUME IInv, NEW c \in Command, Place(c) PROVE IInv' /\ ServedWell
<1>1. /\ cmd[c].at = "place" /\ cmd' = [cmd EXCEPT ![c] = Idle]
      /\ dest' = (IF partial = NoFile THEN dest ELSE partial) /\ partial' = NoFile
      /\ UNCHANGED <<disk, faults>>
  BY DEF Place, End
<1>2. IInv'
  BY <1>1, CmdIs, EndIs, MoveKeeps DEF TwoFiles
<1>3. cmd[c].shared \/ Named(partial) = Model
  BY <1>1 DEF IInv, OwnPartial
<1>4. ServedWell
  BY <1>1, <1>3 DEF ServedWell, Served, Named
<1> QED
  BY <1>2, <1>4

LEMMA NextKeeps == ASSUME IInv, [Next]_vars PROVE IInv' /\ (ServedWell \/ UNCHANGED vars)
<1>1. CASE UNCHANGED vars
  <2>1. IInv'
    BY <1>1 DEF vars, IInv, TypeOK, RunsAlone, OwnPartial, TwoFiles, OpenFile, Named
  <2> QED
    BY <1>1, <2>1
<1>2. ASSUME NEW c \in Command, Begin(c) \/ Step(c) \/ Disturb(c)
      PROVE  IInv' /\ ServedWell
  <2>1. CASE Begin(c)
    BY <2>1, BeginKeeps
  <2>2. CASE Step(c)
    BY <2>2, RemoveBadKeeps, AskingKeeps, OpenKeeps, CopyKeeps, ClosingKeeps, CheckKeeps,
       PlaceKeeps DEF Step
  <2>3. CASE AnswerError(c) \/ Kill(c)
    BY <2>3, EndKeeps DEF AnswerError, Kill, Running
  <2>4. CASE CopyBad(c) \/ CutShort(c)
    BY <2>4, CopyKeeps, ClosingKeeps
  <2> QED
    BY <1>2, <2>1, <2>2, <2>3, <2>4 DEF Disturb
<1> QED
  BY <1>1, <1>2 DEF Next

LEMMA Inductive == Spec => []IInv
<1>1. IInv /\ [Next]_vars => IInv'
  BY NextKeeps
<1> QED
  BY InitHolds, <1>1, PTL DEF Spec

\* A command never writes more than one chunk past the size (the check of what it has
\* written in downloadOne), and what it writes is always a file of its own kind.
THEOREM ModelTypes == Spec => []TypeOK
<1>1. IInv => TypeOK
  BY DEF IInv
<1> QED
  BY Inductive, <1>1, PTL

\* A server file is only ever complete (fileVerifies, os.Rename): whatever upstreams
\* send and wherever commands die, what clients are served changes to the verified
\* model or to nothing, unless a command that runs has met another.
THEOREM OnlyComplete == Spec => ServesVerified
<1>1. IInv /\ [Next]_vars =>
         [Served' # Served => \/ Served' \in {Model, Nothing}
                              \/ \E c \in Command : cmd[c].shared]_vars
  BY NextKeeps DEF ServedWell
<1> QED
  BY Inductive, <1>1, PTL DEF Spec, ServesVerified
=============================================================================
