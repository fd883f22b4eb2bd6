----------------------------- MODULE FileStore -----------------------------
(***************************************************************************)
(* What a ReplicatedFS promises to the callers of WriteFile, ReadFile,     *)
(* DeleteFile and ListFiles, independently of its chunks, of BadgerDB and  *)
(* of the documents: a write gives a file all of its new content at one    *)
(* moment, or fails and leaves each file with the content it had; nothing  *)
(* but a deletion or the end of the process takes a content away.          *)
(*                                                                         *)
(* Two promises are weaker than one would expect of files, because the     *)
(* code is: a file is there, and empty, once its first write has begun,    *)
(* even if that fails; and a file that was deleted can be written, but     *)
(* not read, ever after.                                                   *)
(***************************************************************************)
EXTENDS Sequences

CONSTANTS
  Path,
  Data     \* contents of files

VARIABLES
  content,  \* of the files that are listed, what a reader gets
  deleted,  \* the files that are not, any more
  writing   \* the write that holds the lock, if there is one

fvars == <<content, deleted, writing>>

FInit ==
  /\ content = [p \in {} |-> <<>>]
  /\ deleted = {}
  /\ writing = {}

Listed == DOMAIN content

Begin(p, data) ==
  /\ writing = {}
  /\ writing' = {[path |-> p, data |-> data]}
  /\ content' = IF p \in Listed \cup deleted THEN content
                ELSE [q \in Listed \cup {p} |-> IF q = p THEN <<>> ELSE content[q]]
  /\ UNCHANGED deleted

Succeed ==
  /\ \E w \in writing :
       content' = [q \in Listed |-> IF q = w.path THEN w.data ELSE content[q]]
  /\ writing' = {}
  /\ UNCHANGED deleted

Fail ==
  /\ writing # {}
  /\ writing' = {}
  /\ UNCHANGED <<content, deleted>>

Delete(p) ==
  /\ writing = {}
  /\ p \in Listed
  /\ content' = [q \in Listed \ {p} |-> content[q]]
  /\ deleted' = deleted \cup {p}
  /\ UNCHANGED writing

(* Another process has none of the files.                                  *)
Forget ==
  /\ content' = [p \in {} |-> <<>>]
  /\ deleted' = {}
  /\ writing' = {}

FNext ==
  \/ \E p \in Path, data \in Data : Begin(p, data)
  \/ Succeed
  \/ Fail
  \/ \E p \in Path : Delete(p)
  \/ Forget

FSpec == FInit /\ [][FNext]_fvars

=============================================================================
