-------------------------- MODULE ProjectRegister --------------------------
(***************************************************************************)
(* What the project store and the writer lock promise together, whatever   *)
(* the programs do: a saved project is a register with one writer.  Only   *)
(* the workspace that holds the lock commits over an existing project, a   *)
(* commit raises the revision by one and contains everything the previous  *)
(* revision contained, and a new project never takes the place of another. *)
(* A workspace can go astray, and only when one did is a project           *)
(* overwritten by other means: whoever holds its lock is astray from then  *)
(* on.                                                                     *)
(* The contents of a project are the set of edits it is made of.           *)
(***************************************************************************)
EXTENDS Naturals

CONSTANTS Roots,      \* the directories a project can be saved to
          Edits,      \* the edits a user can make
          Writers,    \* the workspaces that can hold a writer lock
          NoWriter,   \* nobody holds the lock
          NoProject,  \* nothing is saved at a directory
          Saved       \* the directories that hold a project at the start

VARIABLES project,    \* the committed manifest of each directory
          writer,     \* the workspace that holds each directory's lock
          stray       \* the workspaces that went astray

register == <<project, writer, stray>>

Manifests == [rev : Nat \ {0}, edits : SUBSET Edits]

RegisterTypeOK ==
    /\ project \in [Roots -> Manifests \cup {NoProject}]
    /\ writer \in [Roots -> Writers \cup {NoWriter}]
    /\ stray \subseteq Writers

RegisterInit ==
    /\ project = [r \in Roots |->
                    IF r \in Saved THEN [rev |-> 1, edits |-> {}] ELSE NoProject]
    /\ writer = [r \in Roots |-> NoWriter]
    /\ stray = {}

\* First Save and Save As: a directory that holds nothing gets revision 1.
Create(r) ==
    /\ project[r] = NoProject
    /\ \E e \in SUBSET Edits :
          project' = [project EXCEPT ![r] = [rev |-> 1, edits |-> e]]
    /\ UNCHANGED <<writer, stray>>

\* Save: the holder of the lock, and nobody else, adds to what is there.
Commit(r) ==
    /\ project[r] # NoProject
    /\ writer[r] \in Writers \ stray
    /\ \E e \in SUBSET Edits :
          /\ project[r].edits \subseteq e
          /\ project' = [project EXCEPT ![r] =
                            [rev |-> project[r].rev + 1, edits |-> e]]
    /\ UNCHANGED <<writer, stray>>

\* A workspace that went astray writes what it has, whoever holds the lock.
Overwrite(r) ==
    /\ project[r] # NoProject
    /\ stray # {}
    /\ project' = [project EXCEPT ![r] = project'[r]] /\ project'[r] \in Manifests
    /\ stray \subseteq stray' /\ stray' \subseteq Writers
    /\ writer[r] # NoWriter => writer[r] \in stray'
    /\ UNCHANGED writer

\* A workspace that takes a lock may give back others it holds.
Acquire(r, w) ==
    /\ project[r] # NoProject
    /\ writer[r] = NoWriter /\ writer' \in [Roots -> Writers \cup {NoWriter}]
    /\ writer'[r] = w
    /\ \A s \in Roots \ {r} :
          writer'[s] = writer[s] \/ (writer[s] = w /\ writer'[s] = NoWriter)
    /\ UNCHANGED <<project, stray>>

\* Closing a workspace, or its death, gives back every lock it holds; what it
\* leaves behind, or meets, can make workspaces go astray.
Release ==
    /\ writer' \in [Roots -> Writers \cup {NoWriter}]
    /\ \A r \in Roots : writer'[r] \in {writer[r], NoWriter}
    /\ stray \subseteq stray' /\ stray' \subseteq Writers
    /\ UNCHANGED project

RegisterNext ==
    \/ Release
    \/ \E r \in Roots : \/ Create(r) \/ Commit(r) \/ Overwrite(r)
                        \/ \E w \in Writers : Acquire(r, w)

RegisterSpec == RegisterInit /\ [][RegisterNext]_register
=============================================================================
