------------------------------ MODULE SafeWrite ------------------------------
(***************************************************************************)
(* A file that is replaced by writing a temporary file beside it and       *)
(* renaming that: .okf/manifest.json (src/src/manifest/store.rs) and every *)
(* wiki page (apply_operations in src/src/compiler/operations.rs).  The    *)
(* temporary file's name is a function of the file's own, so two saves of  *)
(* one file share it.                                                      *)
(*                                                                         *)
(* One action per system call.  A name refers to an inode and so does an   *)
(* open descriptor: renaming the one does not disturb the other.           *)
(***************************************************************************)
EXTENDS Naturals, FiniteSets

CONSTANTS
    Writer,     \* processes, and tasks of one process, that save the file
    Content,    \* what they may save
    Inode,
    None,       \* no inode, no content
    Empty,      \* a file just created or truncated
    Garbled,    \* the start of one content and the end of another
    Exclusive   \* whether a save starts only when no other is under way

ASSUME ExclusiveAssumption == Exclusive \in BOOLEAN
ASSUME ContentAssumption == {None, Empty, Garbled} \cap Content = {}
ASSUME DistinctAssumption == Empty # None /\ Garbled # None
ASSUME InodeAssumption == None \notin Inode

VARIABLES
    file,       \* the inode the file's name refers to, or None
    tmp,        \* the inode the temporary name refers to, or None
    data,       \* what every inode holds
    writer      \* every writer: where it is, its descriptor, what it saves

writeVars == <<file, tmp, data, writer>>

WriterAt == {"idle", "open", "write", "rename", "unlink"}

Resting == [at |-> "idle", fd |-> None, content |-> None]

WriterStep(p, at, fd, content) ==
    writer' = [writer EXCEPT ![p] = [at |-> at, fd |-> fd, content |-> content]]

Free(i) == i # file /\ i # tmp /\ \A p \in Writer : writer[p].fd # i

WriteInit == /\ file = None
             /\ tmp = None
             /\ data = [i \in Inode |-> Empty]
             /\ writer = [p \in Writer |-> Resting]

-----------------------------------------------------------------------------
MayStart(p) == /\ writer[p] = Resting
               /\ Exclusive => \A q \in Writer : writer[q] = Resting

Save(p, c) == /\ MayStart(p)
              /\ WriterStep(p, "open", None, c)
              /\ UNCHANGED <<file, tmp, data>>

\* Wrong on purpose: the file itself is opened when there is one.
OpenInPlace(p) ==
    /\ writer[p].at = "open"
    /\ \E i \in Inode : /\ IF file # None THEN i = file ELSE Free(i)
                        /\ tmp' = IF file # None THEN tmp ELSE i
                        /\ data' = [data EXCEPT ![i] = Empty]
                        /\ WriterStep(p, "write", i, writer[p].content)
    /\ UNCHANGED file

(***************************************************************************)
(* fs::write opens the temporary file: the one that is there, emptied, or  *)
(* a new one.                                                              *)
(***************************************************************************)
OpenTmp(p) ==
    /\ writer[p].at = "open"
    /\ \E i \in Inode : /\ IF tmp # None THEN i = tmp ELSE Free(i)
                        /\ tmp' = i
                        /\ data' = [data EXCEPT ![i] = Empty]
                        /\ WriterStep(p, "write", i, writer[p].content)
    /\ UNCHANGED file

(***************************************************************************)
(* fs::write writes from the start of the file.  Another writer may have   *)
(* written there since this one emptied it: if what it wrote is longer,    *)
(* its end stays.                                                          *)
(***************************************************************************)
Overwritten(old, new) == {new} \cup (IF old \in {Empty, new} THEN {} ELSE {Garbled})

WriteTmp(p) ==
    /\ writer[p].at = "write"
    /\ \E d \in Overwritten(data[writer[p].fd], writer[p].content) :
           data' = [data EXCEPT ![writer[p].fd] = d]
    /\ WriterStep(p, "rename", None, writer[p].content)
    /\ UNCHANGED <<file, tmp>>

(***************************************************************************)
(* rename replaces the file in one step; it fails if the temporary file    *)
(* is gone.                                                                *)
(***************************************************************************)
Rename(p) ==
    /\ writer[p].at = "rename"
    /\ \/ tmp # None /\ file' = tmp /\ tmp' = None
       \/ tmp = None /\ UNCHANGED <<file, tmp>>
    /\ writer' = [writer EXCEPT ![p] = Resting]
    /\ UNCHANGED data

(***************************************************************************)
(* A DELETE operation: `if full_path.is_file() { remove_file }`.           *)
(***************************************************************************)
Delete(p) == /\ MayStart(p)
             /\ file # None
             /\ WriterStep(p, "unlink", None, None)
             /\ UNCHANGED <<file, tmp, data>>

Unlink(p) == /\ writer[p].at = "unlink"
             /\ file' = None
             /\ writer' = [writer EXCEPT ![p] = Resting]
             /\ UNCHANGED <<tmp, data>>

(***************************************************************************)
(* A kill, or an I/O error, anywhere in a save; part of the content may    *)
(* have been written.                                                      *)
(***************************************************************************)
Interrupt(p) ==
    /\ writer[p] # Resting
    /\ \/ UNCHANGED data
       \/ /\ writer[p].at = "write"
          /\ data' = [data EXCEPT ![writer[p].fd] = Garbled]
    /\ writer' = [writer EXCEPT ![p] = Resting]
    /\ UNCHANGED <<file, tmp>>

WriteNext == \E p \in Writer :
            \/ \E c \in Content : Save(p, c)
            \/ OpenTmp(p) \/ WriteTmp(p) \/ Rename(p)
            \/ Delete(p) \/ Unlink(p)
            \/ Interrupt(p)

WriteSpec == WriteInit /\ [][WriteNext]_writeVars

-----------------------------------------------------------------------------

WriterTypeOK == /\ file \in Inode \cup {None}
                /\ tmp \in Inode \cup {None}
                /\ data \in [Inode -> Content \cup {Empty, Garbled}]
                /\ writer \in [Writer -> [at : WriterAt, fd : Inode \cup {None}, content : Content \cup {None}]]
                /\ \A p \in Writer : writer[p].at = "write" <=> writer[p].fd # None

Visible == IF file = None THEN None ELSE data[file]

(***************************************************************************)
(* "A crash or concurrent read mid-write never observes a truncated /      *)
(* partial manifest.json".                                                 *)
(***************************************************************************)
NeverPartial == Visible \in Content \cup {None}

(***************************************************************************)
(* Saves and removals that do not overlap take effect in one step or not   *)
(* at all, wherever they are interrupted.                                  *)
(***************************************************************************)
File == INSTANCE Register
            WITH value <- Visible,
                 todo <- [p \in Writer |-> [want |-> writer[p] # Resting,
                                            content |-> writer[p].content]]

IsAtomic == File!Spec
=============================================================================
