------------------------------ MODULE ModelStore ------------------------------
(***************************************************************************)
(* Downloading the client models (internal/modelstore/modelstore.go).      *)
(*                                                                         *)
(* The command download-models fetches a model from its upstream into a    *)
(* file .partial, compares size and hash, and renames it into place.  A    *)
(* command that was cut off leaves its .partial to the next one, which     *)
(* asks for the rest of it.  Nothing keeps two commands apart: they share  *)
(* the .partial, by name and, once it is open, by what the name stood for. *)
(* One model; a file is the sequence of its chunks.                        *)
(***************************************************************************)
EXTENDS Naturals, Sequences, FiniteSets

CONSTANTS
    Command,    \* runs of download-models, each repeated when it has failed
    Bytes,      \* the size of the model
    MaxFault    \* faults of upstreams, connections and processes

ASSUME SizesAssumption == IsFiniteSet(Command) /\ Bytes \in Nat /\ MaxFault \in Nat

Chunk == {"good", "bad"}

\* The content whose hash the catalog holds.
Model == [i \in 1 .. Bytes |-> "good"]

Contents == UNION {[1 .. n -> Chunk] : n \in 0 .. Bytes + 1}

NoFile == 0

\* What a name without a file stands for.
Nothing == <<"nothing">>

\* Two names, and one file more for every command that writes one without a name.
Inode == 1 .. Cardinality(Command) + 2

VARIABLES
    disk,       \* what every file holds
    dest,       \* the file under the model's name, or NoFile
    partial,    \* the file under that name with .partial, or NoFile
    cmd,        \* per command, [at, fd, offset, shared]: what it does next, the
                \*   file it writes, where, and whether another ran meanwhile
    faults      \* faults so far

vars == <<disk, dest, partial, cmd, faults>>

Idle == [at |-> "idle", fd |-> NoFile, offset |-> 0, shared |-> FALSE]

Named(name) == IF name = NoFile THEN Nothing ELSE disk[name]

\* What clients are served.
Served == Named(dest)

Running == {c \in Command : cmd[c].at # "idle"}

\* A file nothing refers to.
Free == CHOOSE i \in Inode :
            i \notin {dest, partial} \cup {cmd[c].fd : c \in Command}

Fault == faults < MaxFault /\ faults' = faults + 1

Go(c, at) == cmd' = [cmd EXCEPT ![c].at = at]
End(c)    == cmd' = [cmd EXCEPT ![c] = Idle]

\* Mutant: the file is opened to append.
Write_Append(content, i, chunk) == Append(content, chunk)

\* content with chunk at place i; what a file lacks before it reads as zeros.
Write(content, i, chunk) ==
    [j \in 1 .. (IF i > Len(content) THEN i ELSE Len(content)) |->
        IF j = i THEN chunk ELSE IF j <= Len(content) THEN content[j] ELSE "bad"]

-----------------------------------------------------------------------------
\* DownloadAll: nothing to do when the model is installed and verifies; a file of
\* the right size that does not is removed first, any other is replaced.
Begin(c) ==
    /\ cmd[c].at = "idle"
    /\ Served # Model
    /\ LET others == Running
           at == IF dest # NoFile /\ Len(Served) = Bytes THEN "remove" ELSE "resume"
       IN  cmd' = [k \in Command |->
                     IF k = c THEN [Idle EXCEPT !.at = at, !.shared = (others # {})]
                     ELSE IF k \in others THEN [cmd[k] EXCEPT !.shared = TRUE]
                     ELSE cmd[k]]
    /\ UNCHANGED <<disk, dest, partial, faults>>

RemoveBad(c) ==
    /\ cmd[c].at = "remove"
    /\ dest' = NoFile
    /\ Go(c, "resume")
    /\ UNCHANGED <<disk, partial, faults>>

\* Mutant: a .partial as large as the model is kept.
Resume_KeepFull(c) ==
    /\ cmd[c].at = "resume"
    /\ cmd' = [cmd EXCEPT ![c].at = "ask",
                          ![c].offset = IF partial = NoFile THEN 0
                                        ELSE Len(disk[partial])]
    /\ UNCHANGED <<disk, dest, partial, faults>>

\* A .partial smaller than the model is resumed, any other removed.
Resume(c) ==
    /\ cmd[c].at = "resume"
    /\ LET keep == partial # NoFile /\ Len(Named(partial)) < Bytes
       IN  /\ cmd' = [cmd EXCEPT ![c].at = "ask",
                                 ![c].offset = IF keep THEN Len(disk[partial]) ELSE 0]
           /\ partial' = IF keep THEN partial ELSE NoFile
    /\ UNCHANGED <<disk, dest, faults>>

\* 200: the whole model, whatever was asked for.
AnswerFull(c) ==
    /\ cmd[c].at = "ask"
    /\ partial' = NoFile
    /\ cmd' = [cmd EXCEPT ![c].at = "open", ![c].offset = 0]
    /\ UNCHANGED <<disk, dest, faults>>

\* 206: the range asked for.
AnswerRange(c) ==
    /\ cmd[c].at = "ask"
    /\ cmd[c].offset > 0
    /\ Go(c, "open")
    /\ UNCHANGED <<disk, dest, partial, faults>>

\* Any other status, or no answer.
AnswerError(c) ==
    /\ cmd[c].at = "ask"
    /\ Fault
    /\ End(c)
    /\ UNCHANGED <<disk, dest, partial>>

\* The .partial is opened, or created; it is not truncated.
Open(c) ==
    /\ cmd[c].at = "open"
    /\ LET file == IF partial = NoFile THEN Free ELSE partial
       IN  /\ partial' = file
           /\ cmd' = [cmd EXCEPT ![c].at = "copy", ![c].fd = file]
           /\ disk' = IF partial = NoFile THEN [disk EXCEPT ![file] = <<>>] ELSE disk
    /\ UNCHANGED <<dest, faults>>

\* The next chunk of the body.
Receive(c, chunk) ==
    /\ cmd[c].at = "copy"
    /\ disk' = [disk EXCEPT ![cmd[c].fd] = Write(@, cmd[c].offset + 1, chunk)]
    /\ cmd' = [cmd EXCEPT ![c].offset = @ + 1]

Copy(c) ==
    /\ cmd[c].offset < Bytes
    /\ Receive(c, "good")
    /\ UNCHANGED <<dest, partial, faults>>

\* The upstream sends what is not the model's, or more than it.
CopyBad(c) ==
    /\ cmd[c].offset <= Bytes
    /\ Fault
    /\ Receive(c, "bad")
    /\ UNCHANGED <<dest, partial>>

EndBody(c) ==
    /\ cmd[c].at = "copy"
    /\ cmd[c].offset >= Bytes
    /\ cmd' = [cmd EXCEPT ![c].at = "check", ![c].fd = NoFile]
    /\ UNCHANGED <<disk, dest, partial, faults>>

\* The body ends early, with an error or as if it were complete.
CutShort(c) ==
    /\ cmd[c].at = "copy"
    /\ cmd[c].offset < Bytes
    /\ Fault
    /\ \/ End(c)
       \/ cmd' = [cmd EXCEPT ![c].at = "check", ![c].fd = NoFile]
    /\ UNCHANGED <<disk, dest, partial>>

\* Mutant: only the size is compared.
Check_SizeOnly(c) ==
    /\ cmd[c].at = "check"
    /\ IF partial # NoFile /\ Len(Named(partial)) = Bytes THEN Go(c, "place") ELSE End(c)
    /\ UNCHANGED <<disk, dest, partial, faults>>

\* Size and hash of what .partial now stands for; with the right size and the
\* wrong hash it is removed.
Check(c) ==
    /\ cmd[c].at = "check"
    /\ IF Named(partial) = Model THEN Go(c, "place") ELSE End(c)
    /\ partial' = IF partial # NoFile /\ Len(Named(partial)) = Bytes /\ Named(partial) # Model
                  THEN NoFile ELSE partial
    /\ UNCHANGED <<disk, dest, faults>>

\* The rename; it fails when .partial is gone.
Place(c) ==
    /\ cmd[c].at = "place"
    /\ dest' = IF partial = NoFile THEN dest ELSE partial
    /\ partial' = NoFile
    /\ End(c)
    /\ UNCHANGED <<disk, faults>>

\* The process is killed, or the machine restarts.
Kill(c) ==
    /\ c \in Running
    /\ Fault
    /\ End(c)
    /\ UNCHANGED <<disk, dest, partial>>

-----------------------------------------------------------------------------
\* Whatever an earlier command, or a hand, has left.
Init ==
    /\ dest \in {NoFile, 1}
    /\ partial \in {NoFile, 2}
    /\ \E d, p \in Contents :
          disk = [i \in Inode |-> IF i = dest THEN d ELSE IF i = partial THEN p ELSE <<>>]
    /\ cmd = [c \in Command |-> Idle]
    /\ faults = 0

Step(c) ==
    \/ RemoveBad(c) \/ Resume(c) \/ AnswerFull(c) \/ AnswerRange(c) \/ Open(c)
    \/ Copy(c) \/ EndBody(c) \/ Check(c) \/ Place(c)

Disturb(c) == AnswerError(c) \/ CopyBad(c) \/ CutShort(c) \/ Kill(c)

Next == \E c \in Command : Begin(c) \/ Step(c) \/ Disturb(c)

Spec == Init /\ [][Next]_vars

\* A command runs to its end, and the operator repeats one that has failed.
FairSpec == Spec /\ \A c \in Command : WF_vars(Begin(c)) /\ WF_vars(Step(c))

-----------------------------------------------------------------------------
(* Properties.                                                              *)

TypeOK ==
    /\ disk \in [Inode -> Contents]
    /\ dest \in Inode \cup {NoFile} /\ partial \in Inode \cup {NoFile}
    /\ cmd \in [Command ->
          [at     : {"idle", "remove", "resume", "ask", "open", "copy", "check", "place"},
           fd     : Inode \cup {NoFile},
           offset : 0 .. Bytes + 1,
           shared : BOOLEAN]]
    /\ faults \in 0 .. MaxFault

\* "A server file is only ever complete": what clients are served changes to the
\* verified model or to nothing, whatever an upstream sends and wherever a command
\* dies, as long as the command that runs has run alone.
ServesVerified ==
    [][Served' # Served => \/ Served' \in {Model, Nothing}
                           \/ \E c \in Command : cmd[c].shared]_vars

\* The same of two commands at once: the one renames what the other has begun anew.
AlwaysVerified == [][Served' # Served => Served' \in {Model, Nothing}]_vars

\* Once upstreams and processes behave and no two commands run at once any more,
\* repeating the command installs the model, whatever .partial the failures left.
Installs == <>[](\A c \in Command : ~cmd[c].shared) => <>[](Served = Model)
=============================================================================
