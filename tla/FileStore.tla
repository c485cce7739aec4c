----------------------------- MODULE FileStore -----------------------------
(***************************************************************************)
(* What a flat file system promises: every file has a body of its own, a   *)
(* call changes the one file it names, and a descriptor stays on the file  *)
(* it was opened on.  There is no memory and no allocation here.           *)
(***************************************************************************)
EXTENDS Integers, SequencesExt

CONSTANTS
    Names,      \* the names programs use
    Texts,      \* the texts they write
    Bytes,      \* what a cell of memory can hold
    Fds,        \* the descriptors of a user program
    MaxSeek     \* bound on the offsets sought

VARIABLES
    files,      \* the files, oldest first: name, kind and body
    open,       \* per descriptor the file's number, 0 when closed, and offset
    served      \* the file the VFS service has open for its client, 0 if none

vars == <<files, open, served>>

Kinds == {"file", "dir"}
NewFile(n, k, b) == [name |-> n, kind |-> k, body |-> b]
Closed == [at |-> 0, off |-> 0]

\* The number of the first file called n, 0 when there is none.
Lookup(n) == SelectInSeq(files, LAMBDA f : f.name = n)

Init ==
    /\ files \in {<<NewFile(n, "file", t)>> : n \in Names, t \in Texts}
    /\ open = [f \in Fds |-> Closed]
    /\ served = 0

----------------------------------------------------------------------------
Add(file) == files' = Append(files, file) /\ UNCHANGED <<open, served>>
SetBody(i, b) ==
    files' = [files EXCEPT ![i].body = b] /\ UNCHANGED <<open, served>>

Create(n, k) == Lookup(n) = 0 /\ Add(NewFile(n, k, <<>>))
Write(n, t) ==
    IF Lookup(n) = 0 THEN Add(NewFile(n, "file", t)) ELSE SetBody(Lookup(n), t)
Extend(n, t) ==
    Lookup(n) # 0 /\ SetBody(Lookup(n), files[Lookup(n)].body \o t)
Copy(n, m) ==
    Lookup(n) # 0 /\ Add(NewFile(m, "file", files[Lookup(n)].body))
Move(n, m) ==
    /\ Lookup(n) # 0
    /\ files' = [files EXCEPT ![Lookup(n)].name = m]
    /\ UNCHANGED <<open, served>>

\* The descriptors above a removed file follow their file down, those on it
\* are closed.
After(at, gone) == IF at = gone THEN 0 ELSE IF at > gone THEN at - 1 ELSE at
Delete(n) ==
    LET gone == Lookup(n)
    IN  /\ gone # 0
        /\ files' = RemoveAt(files, gone)
        /\ open' = [f \in Fds |-> [open[f] EXCEPT !.at = After(@, gone)]]
        /\ served' = After(served, gone)

\* A file that loses its name keeps its descriptors.
Unlink(n) ==
    /\ Lookup(n) # 0
    /\ files' = [files EXCEPT ![Lookup(n)] = NewFile("", "none", <<>>)]
    /\ UNCHANGED <<open, served>>

----------------------------------------------------------------------------
Open(f, n, trunc) ==
    /\ open[f] = Closed
    /\ IF Lookup(n) = 0
       THEN /\ files' = Append(files, NewFile(n, "file", <<>>))
            /\ open' = [open EXCEPT ![f] = [at |-> Len(files) + 1, off |-> 0]]
       ELSE /\ files' = IF trunc THEN [files EXCEPT ![Lookup(n)].body = <<>>]
                                 ELSE files
            /\ open' = [open EXCEPT ![f] = [at |-> Lookup(n), off |-> 0]]
    /\ UNCHANGED served
Close(f) ==
    /\ open' = [open EXCEPT ![f] = Closed]
    /\ UNCHANGED <<files, served>>

\* Cells between the end of the body and the offset hold anything.
Put(f, t) ==
    LET i == open[f].at
        off == open[f].off
        body == files[i].body
        before == IF off < Len(body) THEN off ELSE Len(body)
    IN  /\ i # 0
        /\ \E gap \in [1 .. off - Len(body) -> Bytes] :
              files' = [files EXCEPT ![i].body =
                  SubSeq(body, 1, before) \o gap \o t
                     \o SubSeq(body, off + Len(t) + 1, Len(body))]
        /\ open' = [open EXCEPT ![f].off = off + Len(t)]
        /\ UNCHANGED served
Read(f) ==
    /\ open[f].at # 0
    /\ \E off \in open[f].off + 1 .. Len(files[open[f].at].body) :
          open' = [open EXCEPT ![f].off = off]
    /\ UNCHANGED <<files, served>>
Seek(f, off) ==
    /\ open[f].at # 0
    /\ open' = [open EXCEPT ![f].off = off]
    /\ UNCHANGED <<files, served>>

Serve(n) ==
    /\ Lookup(n) # 0
    /\ served' = Lookup(n)
    /\ UNCHANGED <<files, open>>
EndService == served' = 0 /\ UNCHANGED <<files, open>>
ServeWrite(t) ==
    /\ served # 0
    /\ files' = [files EXCEPT ![served].body = t, ![served].kind = "file"]
    /\ UNCHANGED <<open, served>>

----------------------------------------------------------------------------
Next ==
    \/ \E n \in Names, k \in Kinds : Create(n, k)
    \/ \E n \in Names, t \in Texts : Write(n, t) \/ Extend(n, t)
    \/ \E n, m \in Names : Copy(n, m) \/ Move(n, m)
    \/ \E n \in Names : Delete(n) \/ Unlink(n) \/ Serve(n)
    \/ \E f \in Fds, n \in Names, trunc \in BOOLEAN : Open(f, n, trunc)
    \/ \E f \in Fds : Close(f) \/ Read(f) \/ (\E t \in Texts : Put(f, t))
                  \/ (\E off \in 0 .. MaxSeek : Seek(f, off))
    \/ EndService
    \/ \E t \in Texts : ServeWrite(t)

Spec == Init /\ [][Next]_vars
============================================================================
