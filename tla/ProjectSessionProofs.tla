------------------------ MODULE ProjectSessionProofs ------------------------
(***************************************************************************)
(* What holds of the projects of any programs, directories, edits, saves   *)
(* and revisions: a workspace that is not adrift holds the lock of what it *)
(* edits and saves, what it shows as saved is saved, and store and lock    *)
(* implement a register with one writer.  Workspaces that are adrift are   *)
(* there all the time: they save, overwrite, take locks and hand their     *)
(* results to others.                                                      *)
(*                                                                         *)
(* The invariant is a statement about each program.  A step changes the    *)
(* workspace of one program at most; the others are untouched by it, which *)
(* keeps the statement about them, whatever the step does to the disk.     *)
(***************************************************************************)
EXTENDS ProjectSession, TLAPS

(* What any workspace record looks like.                                   *)
Basic(x) ==
    /\ x.phase = "home" <=> x.gen = 0
    /\ x.phase \in {"opening", "conflict", "loading"} => x.root \in Roots
    /\ x.phase = "timeline" /\ x.session = "saved" => x.root \in Roots
    /\ x.root \in Roots => disk[x.root] # NoProject

(* One that is not adrift, by itself.                                      *)
Local(x) ==
    /\ x.phase # "timeline" => x.save = "Clean" /\ ~x.picking
    /\ x.phase = "loading" => x.access # "none"
    /\ x.save # "Saving" => x.slot = NoRoot
    /\ x.phase = "timeline" =>
          /\ x.session = "saved" <=> x.access # "none"
          /\ x.session = "saved" => x.frames
          /\ x.save = "Saving" => x.frames
          /\ x.access = "readonly" => x.save = "Clean" /\ ~x.picking
          /\ x.save = "Clean" => x.session = "saved"

(* What was read or written as a revision is still there, or was followed  *)
(* by others, which contain it.                                            *)
Reaches(r, rev, edits) ==
    /\ disk[r] # NoProject
    /\ rev <= disk[r].rev
    /\ rev = disk[r].rev => disk[r].edits \subseteq edits

Contains(r, edits) == disk[r] # NoProject /\ edits \subseteq disk[r].edits

(* A workspace against the lock and the disk.                              *)
SessionOK(x) ==
    /\ x.phase \in {"loading", "timeline"} /\ x.access = "writable" => lock[x.root] = x.gen
    /\ x.phase = "timeline" /\ x.session = "saved" => Reaches(x.root, x.base, x.edits)
    /\ x.phase = "timeline" /\ x.save = "Clean" => Contains(x.root, x.edits)

(* A save in flight belongs to a workspace that waits for it.              *)
InFlight(x, f) == x.phase = "timeline" /\ x.save = "Saving" /\ x.gen = f.gen

WorkerOK(x, w) ==
    /\ InFlight(x, w)
    /\ w.edits = x.edits /\ x.slot = NoRoot
    /\ IF w.pc \in {"preflight", "recheck", "commit"}
       THEN x.session = "saved" /\ x.root = w.root /\ x.base = w.base
       ELSE ~x.picking
    /\ w.pc = "commit" => disk[w.root].rev = w.base
    /\ w.pc = "lock" => Reaches(w.root, 1, w.edits) /\ Contains(w.root, w.edits)

ResultOK(x, m) ==
    /\ InFlight(x, m)
    /\ m.kind = "ExistingSaved" => x.session = "saved" /\ x.root = m.root
    /\ m.kind # "Failed" => Reaches(m.root, m.rev, x.edits) /\ Contains(m.root, x.edits)
    /\ m.kind \in {"NewWritable", "NewReadOnly"} => ~x.picking
    /\ IF m.kind = "NewWritable" THEN x.slot = m.root /\ lock[m.root] = m.gen
                                 ELSE x.slot = NoRoot

(* One save at a time: a worker or its result.                             *)
Alone(g) ==
    /\ \A v, w \in workers : v.gen = g /\ w.gen = g => v = w
    /\ \A m, n \in inbox : m.gen = g /\ n.gen = g => m = n
    /\ \A w \in workers, m \in inbox : ~(w.gen = g /\ m.gen = g)

FineInv(a) ==
    /\ Local(ws[a])
    /\ SessionOK(ws[a])
    /\ \A w \in workers : w.gen = ws[a].gen => WorkerOK(ws[a], w)
    /\ \A m \in inbox : m.gen = ws[a].gen => ResultOK(ws[a], m)
    /\ Alone(ws[a].gen)

AppInv(a) == Basic(ws[a]) /\ (ws[a].gen \notin adrift => FineInv(a))

(* No two workspaces are the same one, and each was opened.                *)
Gens ==
    /\ \A a \in Apps : ws[a].gen <= opened
    /\ \A a, b \in Apps : a # b /\ ws[a].gen = ws[b].gen => ws[a].gen = 0
    /\ \A f \in workers \cup inbox : f.gen <= opened
    /\ \A g \in adrift : g <= opened
    /\ \A r \in Roots : lock[r] \in Writers => lock[r] <= opened

(* What is in flight is of the workspace shown, or of one adrift.          *)
Owned == \A f \in workers \cup inbox : f.gen \in adrift \/ ws[f.app].gen = f.gen

LockedIsSaved == \A r \in Roots : lock[r] # NoWriter => disk[r] # NoProject

InFlightIsSaved ==
    /\ \A w \in workers :
          w.pc \in {"preflight", "recheck", "commit", "lock"} => disk[w.root] # NoProject
    /\ \A m \in inbox : m.kind \in {"NewWritable", "NewReadOnly"} => disk[m.root] # NoProject

IInv == /\ TypeOK /\ Gens /\ Owned /\ LockedIsSaved /\ InFlightIsSaved
        /\ \A a \in Apps : AppInv(a)

-----------------------------------------------------------------------------
(* What a step that is not of workspace b does to it.                      *)

(* A project comes into being, or a commit raises the revision and keeps   *)
(* the edits.                                                              *)
Grows(r) ==
    \/ disk'[r] = disk[r]
    \/ disk[r] = NoProject /\ disk'[r] # NoProject
    \/ /\ disk[r] # NoProject /\ disk'[r] # NoProject
       /\ disk'[r].rev = disk[r].rev + 1
       /\ disk[r].edits \subseteq disk'[r].edits

Stays(r) == disk[r] # NoProject => disk'[r] # NoProject

Untouched(b) ==
    /\ ws'[b] = ws[b] /\ adrift \subseteq adrift'
    /\ \A r \in Roots : Stays(r)
    /\ ws[b].gen \notin adrift' =>
          /\ \A w \in workers' : w.gen = ws[b].gen => w \in workers
          /\ \A m \in inbox' : m.gen = ws[b].gen => m \in inbox
          /\ \A r \in Roots :
                /\ lock[r] = ws[b].gen => lock'[r] = ws[b].gen
                /\ \/ disk'[r] = disk[r]
                   \/ Grows(r) /\ lock[r] # ws[b].gen
                   \/ Concerned(r) \subseteq adrift'

(* Revisions are reached for ever.                                         *)
LEMMA ReachesOn ==
  ASSUME TypeOK, NEW r \in Roots, Grows(r), NEW rev \in Nat, NEW edits, Reaches(r, rev, edits)
  PROVE  Reaches(r, rev, edits)'
  BY DEF TypeOK, Grows, Reaches, Manifest

LEMMA ContainsOn ==
  ASSUME NEW r \in Roots, Grows(r), NEW edits, Contains(r, edits)
  PROVE  Contains(r, edits)'
  BY DEF Grows, Contains

(* The projects a workspace that is not adrift has to do with grow.        *)
LEMMA UntouchedKeeps ==
  ASSUME IInv, NEW b \in Apps, Untouched(b)
  PROVE  AppInv(b)'
<1> DEFINE x == ws[b]
<1>1. ws'[b] = x /\ x \in Workspace /\ adrift \subseteq adrift'
  BY DEF Untouched, IInv, TypeOK
<1>2. Basic(x)'
  BY <1>1 DEF IInv, AppInv, Basic, Untouched, Stays
<1> SUFFICES ASSUME x.gen \notin adrift' PROVE FineInv(b)'
  BY <1>1, <1>2 DEF AppInv, Basic
<1>3. FineInv(b) /\ TypeOK /\ Basic(x)
  BY <1>1 DEF IInv, AppInv
<1>4. x.gen # 0 => x.gen \in Writers
  BY <1>1, SessionAssumption DEF Workspace, Writers
<1>5. ASSUME NEW r \in Roots, x.gen # 0, Concerned(r) \subseteq adrift' PROVE
        /\ x.root # r
        /\ \A w \in workers \cup inbox : w.gen = x.gen => w.root # r
  BY <1>4, <1>5 DEF Concerned
<1>6. ASSUME NEW r \in Roots, x.gen # 0,
             x.root = r \/ \E f \in workers \cup inbox : f.gen = x.gen /\ f.root = r
      PROVE  Grows(r) /\ (disk'[r] = disk[r] \/ lock[r] # x.gen)
  BY <1>5, <1>6 DEF Untouched, Grows
<1>7. SessionOK(x)'
  <2>1. ASSUME x.phase \in {"loading", "timeline"} /\ x.access = "writable"
        PROVE  lock'[x.root] = x.gen
    <3>1. x.root \in Roots /\ lock[x.root] = x.gen
      BY <1>3, <2>1 DEF Basic, FineInv, Local, SessionOK
    <3> QED BY <3>1 DEF Untouched
  <2>2. ASSUME x.phase = "timeline" /\ x.session = "saved" PROVE Reaches(x.root, x.base, x.edits)'
    <3>1. x.root \in Roots /\ Reaches(x.root, x.base, x.edits) /\ x.base \in Nat /\ x.gen # 0
      BY <1>1, <1>3, <2>2 DEF Basic, FineInv, SessionOK, Workspace
    <3>2. Grows(x.root)
      BY <1>6, <3>1
    <3> QED BY <1>1, <1>3, <3>1, <3>2, ReachesOn
  <2>3. ASSUME x.phase = "timeline" /\ x.save = "Clean" PROVE Contains(x.root, x.edits)'
    <3>1. x.root \in Roots /\ Contains(x.root, x.edits) /\ x.gen # 0
      BY <1>3, <2>3 DEF Basic, FineInv, Local, SessionOK
    <3>2. Grows(x.root)
      BY <1>6, <3>1
    <3> QED BY <1>1, <3>1, <3>2, ContainsOn
  <2> QED BY <1>1, <2>1, <2>2, <2>3 DEF SessionOK, Reaches, Contains
<1>8. ASSUME NEW w \in workers', w.gen = x.gen PROVE WorkerOK(x, w)'
  <2>1. w \in workers
    BY <1>8 DEF Untouched
  <2>2. /\ WorkerOK(x, w) /\ w \in Worker /\ w.root \in Roots /\ w.base \in Nat /\ x.gen # 0
    BY <1>3, <1>8, <2>1 DEF FineInv, TypeOK, Worker, WorkerOK, InFlight, Basic
  <2>3. Grows(w.root) /\ (disk'[w.root] = disk[w.root] \/ lock[w.root] # x.gen)
    BY <1>6, <1>8, <2>1, <2>2
  <2>4. ASSUME w.pc = "commit" PROVE disk'[w.root].rev = w.base
    <3>1. x.session = "saved" /\ x.root = w.root /\ x.save = "Saving" /\ x.phase = "timeline"
          /\ disk[w.root].rev = w.base
      BY <2>2, <2>4 DEF WorkerOK, InFlight
    <3>2. x.access = "writable"
      BY <1>1, <1>3, <3>1 DEF FineInv, Local, Workspace, Accesses
    <3>3. lock[w.root] = x.gen
      BY <1>3, <3>1, <3>2 DEF FineInv, SessionOK
    <3> QED BY <2>3, <3>1, <3>3
  <2>5. ASSUME w.pc = "lock" PROVE Reaches(w.root, 1, w.edits)' /\ Contains(w.root, w.edits)'
    <3>1. Reaches(w.root, 1, w.edits) /\ Contains(w.root, w.edits)
      BY <2>2, <2>5 DEF WorkerOK
    <3> QED BY <1>3, <2>2, <2>3, <3>1, ReachesOn, ContainsOn
  <2> QED BY <1>1, <2>2, <2>4, <2>5 DEF WorkerOK, InFlight, Reaches, Contains
<1>9. ASSUME NEW m \in inbox', m.gen = x.gen PROVE ResultOK(x, m)'
  <2>1. m \in inbox
    BY <1>9 DEF Untouched
  <2>2. ResultOK(x, m) /\ m \in Result /\ m.root \in Roots /\ m.rev \in Nat /\ x.gen # 0
    BY <1>3, <1>9, <2>1 DEF FineInv, TypeOK, Result, ResultOK, InFlight, Basic
  <2>3. Grows(m.root)
    BY <1>6, <1>9, <2>1, <2>2
  <2>4. ASSUME m.kind # "Failed" PROVE Reaches(m.root, m.rev, x.edits)' /\ Contains(m.root, x.edits)'
    <3>1. Reaches(m.root, m.rev, x.edits) /\ Contains(m.root, x.edits)
      BY <2>2, <2>4 DEF ResultOK
    <3> QED BY <1>1, <1>3, <2>2, <2>3, <3>1, ReachesOn, ContainsOn
  <2>5. ASSUME m.kind = "NewWritable" PROVE lock'[m.root] = m.gen
    BY <1>9, <2>2, <2>5 DEF ResultOK, Untouched
  <2> QED BY <1>1, <2>2, <2>4, <2>5 DEF ResultOK, InFlight, Reaches, Contains
<1>10. Alone(x.gen)'
  BY <1>1, <1>3 DEF Untouched, FineInv, Alone
<1>11. Local(x)'
  BY <1>1, <1>3 DEF FineInv, Local
<1>12. Local(ws[b])' /\ SessionOK(ws[b])' /\ Alone(ws[b].gen)'
  BY <1>1, <1>7, <1>10, <1>11 DEF Local, SessionOK, Reaches, Contains, Alone
<1>13. /\ \A w \in workers' : w.gen = ws'[b].gen => WorkerOK(ws[b], w)'
       /\ \A m \in inbox' : m.gen = ws'[b].gen => ResultOK(ws[b], m)'
  BY <1>1, <1>8, <1>9 DEF WorkerOK, ResultOK, InFlight, Reaches, Contains
<1> QED BY <1>12, <1>13 DEF FineInv

LEMMA InitInv == Init => IInv
<1> SUFFICES ASSUME Init PROVE IInv
  OBVIOUS
<1>1. Home \in Workspace /\ Home.gen = 0 /\ Local(Home) /\ Home.phase = "home" /\ Basic(Home)
  BY SessionAssumption
  DEF Home, NewWorkspace, Workspace, Phases, SaveStates, Accesses, Local, Basic
<1>2. TypeOK
  BY <1>1, SessionAssumption DEF Init, TypeOK, Manifest
<1>3. Gens /\ LockedIsSaved /\ Owned /\ InFlightIsSaved
  BY <1>1, SessionAssumption DEF Init, Gens, LockedIsSaved, Owned, InFlightIsSaved, Writers
<1>4. ASSUME NEW a \in Apps PROVE AppInv(a)
  BY <1>1 DEF Init, AppInv, FineInv, SessionOK, Alone
<1> QED BY <1>2, <1>3, <1>4 DEF IInv

LEMMA Shape ==
  ASSUME IInv, NEW a \in Apps
  PROVE  /\ ws[a] \in Workspace /\ Basic(ws[a])
         /\ ws[a].gen \notin adrift => FineInv(a) /\ Local(ws[a]) /\ SessionOK(ws[a])
         /\ ws[a].gen # 0 => ws[a].gen \in Writers
         /\ 0 \notin adrift /\ adrift \subseteq Writers /\ NoWriter \notin Writers
         /\ made \in 0..MaxEdits /\ opened \in 0..MaxOpens /\ saves \in 0..MaxSaves
         /\ lock \in [Roots -> Writers \cup {NoWriter}]
         /\ disk \in [Roots -> Manifest \cup {NoProject}]
  BY SessionAssumption DEF IInv, TypeOK, AppInv, FineInv, Workspace, Writers

(* Nothing is in flight for workspace g.                                   *)
NoneFor(g) == \A f \in workers \cup inbox : f.gen # g

LEMMA PendingType ==
  ASSUME IInv, NEW f \in workers \cup inbox
  PROVE  f.app \in Apps /\ f.gen \in Writers /\ f.gen # 0 /\ f.root \in Roots
  BY SessionAssumption DEF IInv, TypeOK, Worker, Result, Writers

(* A workspace that does not wait for a save has none in flight.           *)
LEMMA Idle ==
  ASSUME IInv, NEW a \in Apps, ws[a].gen \notin adrift, ws[a].save # "Saving" \/ ws[a].phase # "timeline"
  PROVE  NoneFor(ws[a].gen)
  BY Shape DEF NoneFor, FineInv, WorkerOK, ResultOK, InFlight

LEMMA NoneForNone ==
  ASSUME IInv PROVE NoneFor(0) /\ NoneFor(opened + 1)
  BY PendingType, SessionAssumption DEF NoneFor, IInv, Gens, TypeOK, Writers

(* One workspace for another, as far as saves in flight can tell.          *)
Alike(x, y) ==
    /\ y.phase = x.phase /\ y.gen = x.gen /\ y.session = x.session /\ y.root = x.root
    /\ y.base = x.base /\ y.save = x.save /\ y.edits = x.edits /\ y.slot = x.slot
    /\ y.picking => x.picking

LocksMove(a) ==
    \A r \in Roots : \/ lock'[r] = lock[r]
                     \/ lock[r] = NoWriter /\ lock'[r] = ws[a].gen /\ disk[r] # NoProject
                     \/ lock[r] = ws[a].gen /\ lock'[r] = NoWriter

GenMoves(a, y) ==
    \/ opened' = opened /\ y.gen \in {0, ws[a].gen}
    \/ opened' = opened + 1 /\ y.gen = opened'

(* A step that changes the workspace of one program, perhaps its locks, and *)
(* takes saves in flight away.                                             *)
LEMMA OwnStep ==
  ASSUME IInv, NEW a \in Apps, NEW y \in Workspace,
         ws' = [ws EXCEPT ![a] = y], UNCHANGED <<disk, saves>>,
         workers' \subseteq workers, inbox' \subseteq inbox,
         made' \in 0..MaxEdits, opened' \in 0..MaxOpens,
         lock' \in [Roots -> Writers \cup {NoWriter}], LocksMove(a),
         adrift \subseteq adrift', adrift' \subseteq adrift \cup ({ws[a].gen} \ {0}),
         GenMoves(a, y),
         y.gen # ws[a].gen => \A f \in workers' \cup inbox' : f.app = a => f.gen \in adrift',
         Basic(y),
         y.gen \notin adrift' =>
            Local(y) /\ SessionOK(y)' /\ (NoneFor(y.gen)' \/ (Alike(ws[a], y) /\ lock' = lock))
  PROVE  IInv'
<1>0. ws'[a] = y /\ \A b \in Apps : b # a => ws'[b] = ws[b]
  BY DEF IInv, TypeOK
<1>1. TypeOK'
  BY Shape DEF IInv, TypeOK
<1>2. Gens'
  <2>1. \A b \in Apps : ws[b].gen \in 0..opened /\ ws[b] \in Workspace /\ opened \in Nat
    BY SessionAssumption DEF IInv, TypeOK, Gens, Workspace
  <2>2. Gens /\ \A g \in adrift' : g \in adrift \/ g = ws[a].gen
    BY DEF IInv
  <2>3. \A g \in adrift \cup Writers : g \in Nat
    BY Shape, SessionAssumption DEF Writers
  <2>4. \A f \in workers \cup inbox : f.gen \in Nat
    BY PendingType, <2>3
  <2>7. \A r \in Roots : lock'[r] \in Writers => lock'[r] <= opened
    BY <2>1, <2>2, Shape DEF Gens, LocksMove
  <2>5. CASE opened' = opened /\ y.gen \in {0, ws[a].gen}
    BY <1>0, <2>1, <2>2, <2>5, <2>7 DEF Gens
  <2>6. CASE opened' = opened + 1 /\ y.gen = opened'
    <3>1. (\A b \in Apps : ws'[b].gen <= opened') /\ \A g \in adrift' : g <= opened'
      BY <1>0, <2>1, <2>2, <2>3, <2>6, Shape DEF Gens
    <3>2. \A f \in workers' \cup inbox' : f.gen <= opened'
      BY <2>1, <2>2, <2>4, <2>6 DEF Gens
    <3>3. \A b, c \in Apps : b # c /\ ws'[b].gen = ws'[c].gen => ws'[b].gen = 0
      BY <1>0, <2>1, <2>2, <2>6 DEF Gens
    <3>4. \A r \in Roots : lock'[r] \in Writers => lock'[r] <= opened'
      BY <2>1, <2>3, <2>6, <2>7
    <3> QED BY <3>1, <3>2, <3>3, <3>4 DEF Gens
  <2> QED BY <2>5, <2>6 DEF GenMoves
<1>3. Owned'
  <2> SUFFICES ASSUME NEW f \in workers' \cup inbox', f.gen \notin adrift' PROVE ws'[f.app].gen = f.gen
    BY DEF Owned
  <2>1. f \in workers \cup inbox /\ f.app \in Apps /\ ws[f.app].gen = f.gen
    BY PendingType DEF IInv, Owned
  <2> QED BY <1>0, <2>1
<1>4. LockedIsSaved' /\ InFlightIsSaved'
  BY DEF IInv, LockedIsSaved, InFlightIsSaved, LocksMove
<1>5. ASSUME NEW b \in Apps, b # a PROVE AppInv(b)'
  <2>1. \A r \in Roots : lock[r] = ws[b].gen => lock'[r] = ws[b].gen
    <3> SUFFICES ASSUME NEW r \in Roots, lock[r] = ws[b].gen PROVE lock'[r] = lock[r]
      OBVIOUS
    <3>1. lock[r] # NoWriter /\ ws[b].gen # 0
      BY Shape, SessionAssumption DEF Workspace, Writers
    <3>2. lock[r] # ws[a].gen
      BY <1>5, <3>1 DEF IInv, Gens
    <3> QED BY <3>1, <3>2 DEF LocksMove
  <2>2. Untouched(b)
    BY <1>0, <1>5, <2>1 DEF Untouched, Stays
  <2> QED BY <2>2, UntouchedKeeps
<1>6. AppInv(a)'
  <2>1. Basic(ws[a])'
    BY <1>0 DEF Basic
  <2> SUFFICES ASSUME y.gen \notin adrift' PROVE FineInv(a)'
    BY <1>0, <2>1 DEF AppInv
  <2>2. Local(ws[a])' /\ SessionOK(ws[a])'
    BY <1>0 DEF Local, SessionOK, Reaches, Contains
  <2>3. CASE NoneFor(y.gen)'
    BY <1>0, <2>2, <2>3 DEF NoneFor, FineInv, Alone
  <2>4. CASE Alike(ws[a], y) /\ lock' = lock
    <3>1. FineInv(a) /\ y.gen = ws[a].gen
      BY <2>4, Shape DEF Alike
    <3>2. Alone(ws[a].gen)'
      BY <1>0, <3>1 DEF FineInv, Alone
    <3>3. ASSUME NEW w \in workers', w.gen = y.gen PROVE WorkerOK(ws[a], w)'
      <4>1. WorkerOK(ws[a], w) /\ w \in workers
        BY <3>1, <3>3 DEF FineInv
      <4> QED BY <1>0, <2>4, <4>1 DEF WorkerOK, InFlight, Alike, Reaches, Contains
    <3>4. ASSUME NEW m \in inbox', m.gen = y.gen PROVE ResultOK(ws[a], m)'
      <4>1. ResultOK(ws[a], m) /\ m \in inbox /\ m.root \in Roots
        BY <3>1, <3>4, PendingType DEF FineInv
      <4> QED BY <1>0, <2>4, <4>1 DEF ResultOK, InFlight, Alike, Reaches, Contains
    <3> QED BY <1>0, <2>2, <3>2, <3>3, <3>4 DEF FineInv
  <2> QED BY <2>3, <2>4
<1> QED BY <1>1, <1>2, <1>3, <1>4, <1>5, <1>6 DEF IInv

(* A step that moves nothing but the workspace of one program and its locks. *)
LEMMA QuietStep ==
  ASSUME IInv, NEW a \in Apps, NEW y \in Workspace,
         ws' = [ws EXCEPT ![a] = y], UNCHANGED <<disk, workers, inbox, saves, adrift>>,
         made' \in 0..MaxEdits, opened' \in 0..MaxOpens,
         lock' \in [Roots -> Writers \cup {NoWriter}], LocksMove(a), GenMoves(a, y),
         y.gen # ws[a].gen => \A f \in workers \cup inbox : f.app = a => f.gen \in adrift,
         Basic(y),
         y.gen \notin adrift =>
            Local(y) /\ SessionOK(y)' /\ (NoneFor(y.gen) \/ (Alike(ws[a], y) /\ lock' = lock))
  PROVE  IInv'
<1>1. NoneFor(y.gen)' <=> NoneFor(y.gen)
  BY DEF NoneFor
<1> QED BY <1>1, OwnStep

(* Away from the timeline nothing is in flight but what is adrift.         *)
LEMMA Away ==
  ASSUME IInv, NEW a \in Apps, ws[a].phase # "timeline"
  PROVE  \A f \in workers \cup inbox : f.app = a => f.gen \in adrift
  BY Idle DEF NoneFor, IInv, Owned

LEMMA NewWorkspaceType ==
  ASSUME NEW g \in 0..MaxOpens
  PROVE  NewWorkspace(g) \in Workspace /\ NewWorkspace(g).gen = g
  BY DEF NewWorkspace, Workspace, Phases, SaveStates, Accesses

LEMMA HomeFacts ==
  /\ Home \in Workspace /\ Local(Home) /\ Home.gen = 0 /\ Basic(Home) /\ SessionOK(Home)'
  BY SessionAssumption
  DEF Home, NewWorkspace, Workspace, Phases, SaveStates, Accesses, Local, SessionOK, Basic

LEMMA LocksKept ==
  ASSUME IInv, NEW a \in Apps, UNCHANGED lock
  PROVE  LocksMove(a) /\ lock' \in [Roots -> Writers \cup {NoWriter}]
  BY DEF LocksMove, IInv, TypeOK

LEMMA WithoutOwn ==
  ASSUME IInv, NEW a \in Apps, lock' = Without({ws[a].gen})
  PROVE  LocksMove(a) /\ lock' \in [Roots -> Writers \cup {NoWriter}]
  BY DEF Without, LocksMove, IInv, TypeOK

-----------------------------------------------------------------------------
(* Opening.                                                                *)
LEMMA StartOpenKeeps == ASSUME IInv, NEW a \in Apps, NEW r \in Roots, StartOpen(a, r) PROVE IInv'
<1>1. opened \in 0..MaxOpens /\ opened' = opened + 1 /\ opened' \in 0..MaxOpens
      /\ ws[a].phase = "home" /\ disk[r] # NoProject
  BY SessionAssumption DEF StartOpen, IInv, TypeOK
<1>2. PICK y \in Workspace :
         y = [NewWorkspace(opened + 1) EXCEPT !.phase = "opening", !.root = r]
  BY <1>1, SessionAssumption DEF NewWorkspace, Workspace, Phases, SaveStates, Accesses
<1>3. y.gen = opened + 1 /\ Local(y) /\ y.phase = "opening" /\ y.root = r
  BY <1>1, <1>2 DEF NewWorkspace, Local
<1>4. ws' = [ws EXCEPT ![a] = y] /\ UNCHANGED <<disk, lock, workers, inbox, made, saves, adrift>>
  BY <1>2 DEF StartOpen
<1>5. GenMoves(a, y) /\ Basic(y) /\ SessionOK(y)'
  BY <1>1, <1>3 DEF GenMoves, Basic, SessionOK
<1>6. made' \in 0..MaxEdits
  BY <1>4 DEF IInv, TypeOK
<1> QED BY <1>1, <1>3, <1>4, <1>5, <1>6, NoneForNone, Away, LocksKept, QuietStep

LEMMA NewGuideKeeps ==
  ASSUME IInv, NEW a \in Apps, NEW recorded \in BOOLEAN, NewGuide(a, recorded) PROVE IInv'
<1>1. opened \in 0..MaxOpens /\ opened' = opened + 1 /\ opened' \in 0..MaxOpens
      /\ made' = made + 1 /\ made' \in 0..MaxEdits /\ made + 1 \in Edits /\ ws[a].phase = "home"
  BY SessionAssumption DEF NewGuide, IInv, TypeOK, Edits
<1>2. PICK y \in Workspace :
         y = [NewWorkspace(opened + 1) EXCEPT
                   !.phase = "timeline", !.edits = {made + 1},
                   !.session = IF recorded THEN "none" ELSE "unsaved",
                   !.save = IF recorded THEN "Unsaved" ELSE "Dirty",
                   !.frames = ~recorded]
  BY <1>1, SessionAssumption DEF NewWorkspace, Workspace, Phases, SaveStates, Accesses
<1>3. y.gen = opened + 1 /\ Local(y) /\ y.access = "none" /\ y.session # "saved"
      /\ y.save # "Clean" /\ y.phase = "timeline" /\ y.root = NoRoot
  BY <1>1, <1>2 DEF NewWorkspace, Local
<1>4. ws' = [ws EXCEPT ![a] = y] /\ UNCHANGED <<disk, lock, workers, inbox, saves, adrift>>
  BY <1>2 DEF NewGuide
<1>5. GenMoves(a, y) /\ Basic(y) /\ SessionOK(y)'
  BY <1>1, <1>3, SessionAssumption DEF GenMoves, Basic, SessionOK
<1> QED BY <1>1, <1>3, <1>4, <1>5, NoneForNone, Away, LocksKept, QuietStep

LEMMA OpenLocksKeeps == ASSUME IInv, NEW a \in Apps, OpenLocks(a) PROVE IInv'
<1>0. /\ ws[a] \in Workspace /\ Basic(ws[a]) /\ ws[a].phase = "opening"
      /\ lock \in [Roots -> Writers \cup {NoWriter}] /\ made \in 0..MaxEdits /\ opened \in 0..MaxOpens
      /\ ws[a].gen \in Writers /\ ws[a].root \in Roots /\ disk[ws[a].root] # NoProject
  BY Shape DEF OpenLocks, Basic
<1>1. ws[a].gen \notin adrift => Local(ws[a]) /\ NoneFor(ws[a].gen)
  BY <1>0, Shape, Idle
<1>2. CASE lock[ws[a].root] = NoWriter
  <2>1. PICK y \in Workspace : y = [ws[a] EXCEPT !.phase = "loading", !.access = "writable"]
    BY <1>0 DEF Workspace, Phases, Accesses
  <2>2. Basic(y) /\ y.gen = ws[a].gen /\ y.root = ws[a].root /\ y.phase = "loading"
    BY <1>0, <2>1 DEF Workspace, Basic
  <2>3. ws[a].gen \notin adrift => Local(y)
    BY <1>0, <1>1, <2>1 DEF Workspace, Local
  <2>4. ws' = [ws EXCEPT ![a] = y] /\ lock' = [lock EXCEPT ![ws[a].root] = ws[a].gen]
        /\ UNCHANGED <<disk, workers, inbox, made, opened, saves, adrift>>
    BY <1>2, <2>1 DEF OpenLocks
  <2>5. lock' \in [Roots -> Writers \cup {NoWriter}] /\ lock'[y.root] = y.gen
    BY <1>0, <2>2, <2>4
  <2>6. SessionOK(y)' /\ LocksMove(a) /\ GenMoves(a, y)
    BY <1>0, <1>2, <2>2, <2>4, <2>5 DEF SessionOK, LocksMove, GenMoves
  <2> QED BY <1>0, <1>1, <2>2, <2>3, <2>4, <2>5, <2>6, QuietStep
<1>3. CASE lock[ws[a].root] # NoWriter
  <2>1. PICK y \in Workspace : y = [ws[a] EXCEPT !.phase = "conflict"]
    BY <1>0 DEF Workspace, Phases, Accesses
  <2>2. Basic(y) /\ y.gen = ws[a].gen /\ y.root = ws[a].root /\ y.phase = "conflict"
    BY <1>0, <2>1 DEF Workspace, Basic
  <2>3. ws[a].gen \notin adrift => Local(y)
    BY <1>0, <1>1, <2>1 DEF Workspace, Local
  <2>4. ws' = [ws EXCEPT ![a] = y]
        /\ UNCHANGED <<lock, disk, workers, inbox, made, opened, saves, adrift>>
    BY <1>3, <2>1 DEF OpenLocks
  <2>5. SessionOK(y)' /\ GenMoves(a, y)
    BY <1>0, <2>2, <2>4 DEF SessionOK, GenMoves
  <2> QED BY <1>0, <1>1, <2>2, <2>3, <2>4, <2>5, LocksKept, QuietStep
<1> QED BY <1>2, <1>3

LEMMA OpenReadOnlyKeeps == ASSUME IInv, NEW a \in Apps, OpenReadOnly(a) PROVE IInv'
<1>0. /\ ws[a] \in Workspace /\ Basic(ws[a]) /\ ws[a].phase = "conflict" /\ made \in 0..MaxEdits
      /\ opened \in 0..MaxOpens /\ disk[ws[a].root] # NoProject
  BY Shape DEF OpenReadOnly, Basic
<1>1. ws[a].gen \notin adrift => Local(ws[a]) /\ NoneFor(ws[a].gen)
  BY <1>0, Shape, Idle
<1>2. PICK y \in Workspace : y = [ws[a] EXCEPT !.phase = "loading", !.access = "readonly"]
  BY <1>0 DEF Workspace, Phases, Accesses
<1>3. /\ Basic(y) /\ y.gen = ws[a].gen /\ y.phase = "loading" /\ y.access = "readonly"
      /\ ws[a].gen \notin adrift => Local(y)
  BY <1>0, <1>1, <1>2 DEF Workspace, Local, Basic
<1>4. ws' = [ws EXCEPT ![a] = y]
      /\ UNCHANGED <<lock, disk, workers, inbox, made, opened, saves, adrift>>
  BY <1>2 DEF OpenReadOnly
<1>5. SessionOK(y)' /\ GenMoves(a, y)
  BY <1>3, <1>4 DEF SessionOK, GenMoves
<1> QED BY <1>0, <1>1, <1>3, <1>4, <1>5, LocksKept, QuietStep

LEMMA OpenLoadsKeeps == ASSUME IInv, NEW a \in Apps, OpenLoads(a) PROVE IInv'
<1>0. /\ ws[a] \in Workspace /\ Basic(ws[a]) /\ ws[a].phase = "loading" /\ made \in 0..MaxEdits
      /\ opened \in 0..MaxOpens /\ ws[a].root \in Roots /\ disk[ws[a].root] \in Manifest
      /\ disk[ws[a].root] # NoProject /\ ws[a].gen \in Writers
  BY Shape DEF OpenLoads, Basic
<1>1. ws[a].gen \notin adrift => Local(ws[a]) /\ SessionOK(ws[a]) /\ NoneFor(ws[a].gen)
  BY <1>0, Shape, Idle
<1>2. PICK y \in Workspace :
         y = [ws[a] EXCEPT !.phase = "timeline", !.session = "saved",
                           !.base = disk[ws[a].root].rev, !.edits = disk[ws[a].root].edits,
                           !.frames = TRUE]
  BY <1>0 DEF Workspace, Phases, Accesses, Manifest
<1>3. /\ y.gen = ws[a].gen /\ y.root = ws[a].root /\ y.access = ws[a].access
      /\ y.base = disk[y.root].rev /\ y.edits = disk[y.root].edits /\ y.phase = "timeline"
      /\ y.session = "saved" /\ y.save = ws[a].save /\ y.frames /\ y.picking = ws[a].picking
      /\ y.slot = ws[a].slot
  BY <1>0, <1>2 DEF Workspace
<1>4. Basic(y)
  BY <1>0, <1>3 DEF Basic
<1>5. ws' = [ws EXCEPT ![a] = y]
      /\ UNCHANGED <<lock, disk, workers, inbox, made, opened, saves, adrift>>
  BY <1>2 DEF OpenLoads
<1>6. disk[y.root] # NoProject /\ y.base \in Nat
  BY <1>0, <1>3, SessionAssumption DEF Manifest, Edits
<1>7. ws[a].gen \notin adrift => Local(y) /\ SessionOK(y)'
  <2> SUFFICES ASSUME ws[a].gen \notin adrift PROVE Local(y) /\ SessionOK(y)'
    OBVIOUS
  <2>1. ws[a].save = "Clean" /\ ws[a].access # "none" /\ ws[a].slot = NoRoot /\ ~ws[a].picking
    BY <1>0, <1>1 DEF Local
  <2>2. ws[a].access = "writable" => lock[ws[a].root] = ws[a].gen
    BY <1>0, <1>1 DEF SessionOK
  <2>3. Local(y)
    BY <1>3, <2>1 DEF Local
  <2>4. SessionOK(y)'
    BY <1>0, <1>3, <1>5, <1>6, <2>2 DEF SessionOK, Reaches, Contains
  <2> QED BY <2>3, <2>4
<1>8. GenMoves(a, y)
  BY <1>3, <1>5 DEF GenMoves
<1> QED BY <1>0, <1>1, <1>3, <1>4, <1>5, <1>7, <1>8, LocksKept, QuietStep

LEMMA OpenEndsKeeps ==
  ASSUME IInv, NEW a \in Apps, CancelLockedOpen(a) \/ OpenFails(a) PROVE IInv'
<1>1. /\ ws' = [ws EXCEPT ![a] = Home] /\ ws[a].phase # "timeline"
      /\ UNCHANGED <<disk, workers, inbox, made, opened, saves, adrift>>
      /\ lock' = lock \/ lock' = Without({ws[a].gen})
  BY DEF CancelLockedOpen, OpenFails
<1>2. LocksMove(a) /\ lock' \in [Roots -> Writers \cup {NoWriter}] /\ GenMoves(a, Home)
  BY <1>1, LocksKept, WithoutOwn, HomeFacts DEF GenMoves
<1>3. made' \in 0..MaxEdits /\ opened' \in 0..MaxOpens
  BY <1>1 DEF IInv, TypeOK
<1> QED BY <1>1, <1>2, <1>3, HomeFacts, NoneForNone, Away, QuietStep

(* A workspace that is closed takes its locks with it and leaves its save  *)
(* adrift.                                                                 *)
LEMMA CloseKeeps == ASSUME IInv, NEW a \in Apps, ws[a].phase = "timeline", Close(a) PROVE IInv'
<1>1. ws' = [ws EXCEPT ![a] = Home] /\ lock' = Without({ws[a].gen}) /\ Drifts(a)
      /\ UNCHANGED <<disk, workers, inbox, made, opened, saves>>
  BY DEF Close
<1>2. LocksMove(a) /\ lock' \in [Roots -> Writers \cup {NoWriter}] /\ GenMoves(a, Home)
  BY <1>1, WithoutOwn, HomeFacts DEF GenMoves
<1>3. made' \in 0..MaxEdits /\ opened' \in 0..MaxOpens /\ ws[a].gen # 0
  BY <1>1, Shape DEF IInv, TypeOK, Basic
<1>4. adrift \subseteq adrift' /\ adrift' \subseteq adrift \cup ({ws[a].gen} \ {0})
  BY <1>1, <1>3 DEF Drifts
<1>5. \A f \in workers' \cup inbox' : f.app = a => f.gen \in adrift'
  <2> SUFFICES ASSUME NEW f \in workers \cup inbox, f.app = a, f.gen \notin adrift' PROVE FALSE
    BY <1>1
  <2>1. ws[a].gen = f.gen /\ f.gen \notin adrift
    BY <1>4 DEF IInv, Owned
  <2>2. ws[a].save = "Saving"
    BY <2>1, Idle DEF NoneFor
  <2> QED BY <1>1, <2>1, <2>2 DEF Drifts
<1>6. NoneFor(Home.gen)'
  BY <1>1, HomeFacts, NoneForNone DEF NoneFor
<1> QED BY <1>1, <1>2, <1>3, <1>4, <1>5, <1>6, HomeFacts, OwnStep

LEMMA ClosingKeeps == ASSUME IInv, NEW a \in Apps, CloseRequested(a) \/ Discard(a) PROVE IInv'
<1>1. CASE Close(a)
  BY <1>1, CloseKeeps DEF CloseRequested, Discard
<1>2. CASE ~Close(a)
  <2>0. ws[a] \in Workspace /\ Basic(ws[a]) /\ ws[a].save = "Dirty" /\ ws[a].phase = "timeline"
        /\ made \in 0..MaxEdits /\ opened \in 0..MaxOpens
    BY <1>2, Shape DEF CloseRequested, Discard
  <2>1. PICK y \in Workspace : y = [ws[a] EXCEPT !.closing = FALSE]
    BY <2>0 DEF Workspace
  <2>2. Alike(ws[a], y) /\ Basic(y) /\ (Local(ws[a]) => Local(y)) /\ y.access = ws[a].access
    BY <2>0, <2>1 DEF Workspace, Alike, Basic, Local
  <2>3. ws' = [ws EXCEPT ![a] = y]
        /\ UNCHANGED <<disk, lock, workers, inbox, made, opened, saves, adrift>>
    BY <1>2, <2>0, <2>1 DEF CloseRequested, Discard
  <2>4. SessionOK(ws[a]) => SessionOK(y)'
    BY <2>2, <2>3 DEF SessionOK, Alike, Reaches, Contains
  <2>5. GenMoves(a, y) /\ y.gen = ws[a].gen
    BY <2>2, <2>3 DEF GenMoves, Alike
  <2>6. ws[a].gen \notin adrift => Local(ws[a]) /\ SessionOK(ws[a])
    BY Shape
  <2> QED BY <2>0, <2>2, <2>3, <2>4, <2>5, <2>6, LocksKept, QuietStep
<1> QED BY <1>1, <1>2
-----------------------------------------------------------------------------
(* Editing and saving.                                                     *)
LEMMA EditKeeps == ASSUME IInv, NEW a \in Apps, Edit(a) PROVE IInv'
<1>0. /\ ws[a] \in Workspace /\ Basic(ws[a]) /\ ws[a].phase = "timeline" /\ opened \in 0..MaxOpens
      /\ made' = made + 1 /\ made' \in 0..MaxEdits /\ made + 1 \in Edits
      /\ ws[a].save # "Saving" /\ ws[a].access # "readonly"
  BY Shape, SessionAssumption DEF Edit, CanMutate, Edits
<1>1. ws[a].gen \notin adrift => Local(ws[a]) /\ SessionOK(ws[a]) /\ NoneFor(ws[a].gen)
  BY <1>0, Shape, Idle
<1>2. PICK y \in Workspace :
         y = [ws[a] EXCEPT !.edits = @ \cup {made + 1},
                           !.save = IF @ = "Clean" THEN "Dirty" ELSE @]
  BY <1>0 DEF Workspace, SaveStates
<1>3. /\ Basic(y) /\ y.gen = ws[a].gen /\ y.save # "Clean"
      /\ y.phase = "timeline" /\ y.root = ws[a].root /\ y.access = ws[a].access
      /\ y.session = ws[a].session /\ y.base = ws[a].base /\ ws[a].edits \subseteq y.edits
      /\ Local(ws[a]) => Local(y)
  BY <1>0, <1>2 DEF Workspace, Local, Basic
<1>4. ws' = [ws EXCEPT ![a] = y]
      /\ UNCHANGED <<lock, disk, workers, inbox, opened, saves, adrift>>
  BY <1>2 DEF Edit
<1>5. ws[a].gen \notin adrift => SessionOK(y)'
  BY <1>0, <1>1, <1>3, <1>4 DEF SessionOK, Reaches
<1>6. GenMoves(a, y)
  BY <1>3, <1>4 DEF GenMoves
<1> QED BY <1>0, <1>1, <1>3, <1>4, <1>5, <1>6, LocksKept, QuietStep

(* A picker that opens for a workspace with nothing in flight, or closes.  *)
LEMMA PickingKeeps ==
  ASSUME IInv, NEW a \in Apps, NEW p \in BOOLEAN, NEW c \in BOOLEAN,
         ws[a].phase = "timeline",
         p => ws[a].save # "Saving" /\ (ws[a].gen \notin adrift => ws[a].access # "readonly"),
         ws' = [ws EXCEPT ![a] = [@ EXCEPT !.picking = p, !.closing = c]],
         UNCHANGED <<lock, disk, workers, inbox, made, opened, saves, adrift>>
  PROVE  IInv'
<1>0. ws[a] \in Workspace /\ Basic(ws[a]) /\ made' \in 0..MaxEdits /\ opened' \in 0..MaxOpens
  BY Shape
<1>1. ws[a].gen \notin adrift =>
         Local(ws[a]) /\ SessionOK(ws[a]) /\ (~p \/ NoneFor(ws[a].gen))
  BY <1>0, Shape, Idle
<1>2. PICK y \in Workspace : y = [ws[a] EXCEPT !.picking = p, !.closing = c]
  BY <1>0 DEF Workspace
<1>3. /\ Basic(y) /\ y.gen = ws[a].gen /\ y.access = ws[a].access /\ y.edits = ws[a].edits
      /\ y.phase = ws[a].phase /\ y.root = ws[a].root /\ y.base = ws[a].base
      /\ y.session = ws[a].session /\ y.save = ws[a].save
      /\ ~p => Alike(ws[a], y)
  BY <1>0, <1>2 DEF Workspace, Basic, Alike
<1>4. ws[a].gen \notin adrift => Local(y)
  BY <1>0, <1>1, <1>2 DEF Workspace, Local
<1>5. ws' = [ws EXCEPT ![a] = y]
  BY <1>2
<1>6. ws[a].gen \notin adrift => SessionOK(y)'
  BY <1>1, <1>3 DEF SessionOK, Reaches, Contains
<1>7. GenMoves(a, y)
  BY <1>3 DEF GenMoves
<1> QED BY <1>0, <1>1, <1>3, <1>4, <1>5, <1>6, <1>7, LocksKept, QuietStep

LEMMA PickerKeeps == ASSUME IInv, NEW a \in Apps, SaveAs(a) \/ PickerCancelled(a) PROVE IInv'
<1>0. ws[a] \in Workspace
  BY Shape
<1>1. CASE SaveAs(a)
  <2>1. ws' = [ws EXCEPT ![a] = [@ EXCEPT !.picking = TRUE, !.closing = ws[a].closing]]
        /\ ws[a].closing \in BOOLEAN
    BY <1>0, <1>1 DEF SaveAs, Workspace, IInv, TypeOK
  <2> QED BY <1>1, <2>1, PickingKeeps DEF SaveAs
<1>2. CASE PickerCancelled(a)
  BY <1>2, PickingKeeps DEF PickerCancelled
<1> QED BY <1>1, <1>2

(* A worker that starts; of a workspace that is not adrift it is the only  *)
(* one.                                                                    *)
LEMMA SaveStarts ==
  ASSUME IInv, NEW a \in Apps, NEW y \in Workspace, NEW w \in Worker,
         ws' = [ws EXCEPT ![a] = y], y.gen = ws[a].gen, w.app = a, w.gen = y.gen,
         workers' = workers \cup {w}, UNCHANGED <<disk, lock, inbox, made, opened>>,
         saves' \in 0..MaxSaves,
         adrift \subseteq adrift', adrift' \subseteq adrift \cup {ws[a].gen},
         Basic(y),
         w.pc \in {"preflight", "recheck", "commit", "lock"} => disk[w.root] # NoProject,
         y.gen \notin adrift' =>
            NoneFor(y.gen) /\ Local(y) /\ SessionOK(y) /\ WorkerOK(y, w)
  PROVE  IInv'
<1>0. ws'[a] = y /\ \A b \in Apps : b # a => ws'[b] = ws[b]
  BY DEF IInv, TypeOK
<1>1. ws[a].gen \in Writers /\ ws[a].gen # 0 /\ ws[a].gen <= opened
  BY SessionAssumption DEF Worker, Writers, IInv, Gens
<1>2. TypeOK'
  BY <1>1, Shape DEF IInv, TypeOK
<1>3. Gens'
  BY <1>0, <1>1 DEF IInv, Gens
<1>4. Owned'
  BY <1>0 DEF IInv, Owned
<1>5. LockedIsSaved' /\ InFlightIsSaved'
  BY DEF IInv, LockedIsSaved, InFlightIsSaved
<1>6. ASSUME NEW b \in Apps, b # a PROVE AppInv(b)'
  <2>1. w.gen # ws[b].gen
    BY <1>1, <1>6 DEF IInv, Gens
  <2>2. Untouched(b)
    BY <1>0, <1>6, <2>1 DEF Untouched, Stays
  <2> QED BY <2>2, UntouchedKeeps
<1>7. AppInv(a)'
  <2>1. Basic(ws[a])'
    BY <1>0 DEF Basic
  <2> SUFFICES ASSUME y.gen \notin adrift' PROVE FineInv(a)'
    BY <1>0, <2>1 DEF AppInv
  <2>2. Local(ws[a])' /\ SessionOK(ws[a])'
    BY <1>0 DEF Local, SessionOK, Reaches, Contains
  <2>3. (\A v \in workers' : v.gen = y.gen => v = w) /\ (\A m \in inbox' : m.gen # y.gen)
    BY DEF NoneFor
  <2>4. WorkerOK(ws[a], w)'
    BY <1>0 DEF WorkerOK, InFlight, Reaches, Contains
  <2>5. Alone(ws[a].gen)'
    BY <1>0, <2>3 DEF Alone
  <2> QED BY <1>0, <2>2, <2>3, <2>4, <2>5 DEF FineInv
<1> QED BY <1>2, <1>3, <1>4, <1>5, <1>6, <1>7 DEF IInv

LEMMA SaveKeeps == ASSUME IInv, NEW a \in Apps, NEW c \in BOOLEAN, Save(a, c) PROVE IInv'
<1>0. /\ ws[a] \in Workspace /\ Basic(ws[a]) /\ ws[a].phase = "timeline"
      /\ ws[a].save \in {"Unsaved", "Dirty"} /\ ws[a].gen \in Writers
      /\ saves \in 0..MaxSaves
  BY Shape DEF Save, Basic
<1>1. ws[a].gen \notin adrift =>
         /\ Local(ws[a]) /\ SessionOK(ws[a]) /\ NoneFor(ws[a].gen) /\ ws[a].access # "readonly"
  BY <1>0, Shape, Idle DEF Local
<1>2. CASE ws[a].session = "saved"
  <2>1. PICK y \in Workspace : y = [ws[a] EXCEPT !.save = "Saving", !.closing = ws[a].closing \/ c]
    BY <1>0 DEF Workspace, SaveStates
  <2>2. /\ Basic(y) /\ y.gen = ws[a].gen /\ y.save = "Saving" /\ y.phase = "timeline"
        /\ y.root = ws[a].root /\ y.access = ws[a].access /\ y.session = "saved"
        /\ y.base = ws[a].base /\ ws[a].edits = y.edits /\ y.root \in Roots
        /\ y.slot = ws[a].slot /\ disk[y.root] # NoProject
    BY <1>0, <1>2, <2>1 DEF Workspace, Basic
  <2>3. ws[a].gen \notin adrift => Local(y) /\ SessionOK(y)
    BY <1>0, <1>1, <1>2, <2>1, <2>2 DEF SessionOK, Workspace, Local
  <2>4. PICK w \in Worker : w = SaveWorker(a, ws[a].root, "preflight")
    BY <1>0, <2>2 DEF SaveWorker, Worker, Workspace
  <2>5. w.app = a /\ w.gen = y.gen /\ w.pc = "preflight" /\ w.root = y.root
    BY <2>2, <2>4 DEF SaveWorker
  <2>6. ws[a].gen \notin adrift => WorkerOK(y, w)
    BY <1>0, <1>1, <2>2, <2>4 DEF SaveWorker, WorkerOK, InFlight, Local
  <2>7. /\ ws' = [ws EXCEPT ![a] = y] /\ workers' = workers \cup {w} /\ saves' \in 0..MaxSaves
        /\ UNCHANGED <<disk, lock, inbox, made, opened, adrift>>
    <3>1. ws' = [ws EXCEPT ![a] = y]
      BY <1>2, <2>1, Zenon DEF Save
    <3>2. /\ workers' = workers \cup {w} /\ saves' = saves + 1 /\ saves < MaxSaves
          /\ UNCHANGED <<disk, lock, inbox, made, opened, adrift>>
      BY <1>2, <2>4 DEF Save, Starts
    <3> QED BY <1>0, <3>1, <3>2, SessionAssumption
  <2> QED BY <1>1, <2>2, <2>3, <2>5, <2>6, <2>7, SaveStarts
<1>3. CASE ws[a].session # "saved"
  <2>1. (ws[a].closing \/ c) \in BOOLEAN
    BY <1>0 DEF Workspace
  <2> QED BY <1>0, <1>1, <1>3, <2>1, PickingKeeps DEF Save
<1> QED BY <1>2, <1>3

LEMMA DestinationKeeps ==
  ASSUME IInv, NEW a \in Apps, NEW r \in Roots, DestinationChosen(a, r) PROVE IInv'
<1>0. /\ ws[a] \in Workspace /\ Basic(ws[a]) /\ ws[a].phase = "timeline" /\ ws[a].picking
      /\ ws[a].gen \in Writers /\ made \in 0..MaxEdits /\ opened \in 0..MaxOpens
      /\ saves \in 0..MaxSaves
  BY Shape DEF DestinationChosen, Basic
<1>1. ws[a].gen \notin adrift => Local(ws[a]) /\ SessionOK(ws[a]) /\ ws[a].access # "readonly"
  BY <1>0, Shape DEF Local
<1>2. CASE ws[a].frames
  <2>1. PICK y \in Workspace : y = [ws[a] EXCEPT !.picking = FALSE, !.save = "Saving"]
    BY <1>0 DEF Workspace, SaveStates
  <2>2. /\ Basic(y) /\ y.gen = ws[a].gen /\ y.save = "Saving" /\ y.phase = "timeline"
        /\ y.root = ws[a].root /\ y.access = ws[a].access /\ y.session = ws[a].session
        /\ y.base = ws[a].base /\ ws[a].edits = y.edits /\ y.slot = ws[a].slot /\ ~y.picking
    BY <1>0, <2>1 DEF Workspace, Basic
  <2>3. ws[a].gen \notin adrift => Local(y) /\ SessionOK(y)
    BY <1>0, <1>1, <1>2, <2>1, <2>2 DEF SessionOK, Workspace, Local
  <2>4. PICK w \in Worker : w = SaveWorker(a, r, "create")
    BY <1>0, <2>2 DEF SaveWorker, Worker, Workspace
  <2>5. w.app = a /\ w.gen = y.gen /\ w.pc = "create"
    BY <2>2, <2>4 DEF SaveWorker
  <2>6. /\ ws' = [ws EXCEPT ![a] = y] /\ workers' = workers \cup {w} /\ saves' \in 0..MaxSaves
        /\ Drifts(a) /\ UNCHANGED <<disk, lock, inbox, made, opened>>
    BY <1>0, <1>2, <2>1, <2>4, SessionAssumption DEF DestinationChosen, Starts
  <2>7. adrift \subseteq adrift' /\ adrift' \subseteq adrift \cup {ws[a].gen}
    BY <2>6 DEF Drifts
  <2>8. ASSUME ws[a].gen \notin adrift' PROVE NoneFor(ws[a].gen) /\ WorkerOK(y, w)
    <3>1. ws[a].gen \notin adrift /\ ws[a].save # "Saving"
      BY <2>6, <2>8 DEF Drifts
    <3>2. NoneFor(ws[a].gen) /\ ws[a].slot = NoRoot
      BY <1>1, <3>1, Idle DEF Local
    <3> QED BY <2>2, <2>4, <3>2 DEF SaveWorker, WorkerOK, InFlight
  <2> QED BY <2>2, <2>3, <2>5, <2>6, <2>7, <2>8, SaveStarts
<1>3. CASE ~ws[a].frames
  <2>1. PICK y \in Workspace : y = [ws[a] EXCEPT !.picking = FALSE, !.save = "Dirty"]
    BY <1>0 DEF Workspace, SaveStates
  <2>2. /\ Basic(y) /\ y.gen = ws[a].gen /\ y.save = "Dirty" /\ y.phase = "timeline"
        /\ y.root = ws[a].root /\ y.access = ws[a].access /\ y.session = ws[a].session
        /\ y.base = ws[a].base /\ ws[a].edits = y.edits
    BY <1>0, <2>1 DEF Workspace, Basic
  <2>3. ws' = [ws EXCEPT ![a] = y]
        /\ UNCHANGED <<lock, disk, workers, inbox, made, opened, saves, adrift>>
    BY <1>3, <2>1 DEF DestinationChosen
  <2>4. ASSUME ws[a].gen \notin adrift PROVE Local(y) /\ SessionOK(y)' /\ NoneFor(ws[a].gen)
    <3>1. ws[a].save # "Saving"
      BY <1>0, <1>1, <1>3, <2>4 DEF Local
    <3>2. NoneFor(ws[a].gen)
      BY <2>4, <3>1, Idle
    <3>3. Local(y)
      BY <1>0, <1>1, <1>3, <2>1, <2>4, <3>1 DEF Local, Workspace
    <3>4. SessionOK(y)'
      BY <1>0, <1>1, <2>2, <2>3, <2>4 DEF SessionOK, Reaches
    <3> QED BY <3>2, <3>3, <3>4
  <2>5. GenMoves(a, y)
    BY <2>2, <2>3 DEF GenMoves
  <2> QED BY <1>0, <2>2, <2>3, <2>4, <2>5, LocksKept, QuietStep
<1> QED BY <1>2, <1>3

-----------------------------------------------------------------------------
(* The save worker.                                                        *)
LEMMA OfWorker ==
  ASSUME IInv, NEW w \in workers
  PROVE  /\ w \in Worker /\ w.app \in Apps /\ w.gen \in Writers /\ w.gen # 0 /\ w.root \in Roots
         /\ w.base \in Nat /\ w.edits \in SUBSET Edits /\ w.gen <= opened
         /\ ws[w.app] \in Workspace /\ Basic(ws[w.app])
         /\ w.gen \notin adrift =>
               /\ FineInv(w.app) /\ WorkerOK(ws[w.app], w) /\ Alone(w.gen)
               /\ Local(ws[w.app]) /\ SessionOK(ws[w.app])
               /\ ws[w.app].gen = w.gen /\ ws[w.app].save = "Saving" /\ ws[w.app].phase = "timeline"
<1>1. w \in Worker /\ w.app \in Apps /\ w.gen \in Writers /\ w.gen # 0 /\ w.root \in Roots
  BY PendingType DEF IInv, TypeOK
<1>2. w.base \in Nat /\ w.edits \in SUBSET Edits /\ w.gen <= opened
  BY <1>1 DEF Worker, IInv, Gens
<1>3. ASSUME w.gen \notin adrift
      PROVE  /\ FineInv(w.app) /\ WorkerOK(ws[w.app], w) /\ Alone(w.gen)
             /\ ws[w.app].gen = w.gen /\ ws[w.app].save = "Saving" /\ ws[w.app].phase = "timeline"
  <2>1. ws[w.app].gen = w.gen
    BY <1>3 DEF IInv, Owned
  <2>2. FineInv(w.app)
    BY <1>1, <1>3, <2>1, Shape
  <2> QED BY <2>1, <2>2 DEF FineInv, WorkerOK, InFlight
<1> QED BY <1>1, <1>2, <1>3, Shape DEF FineInv

(* The lock belongs to the workspace of a save over a project.             *)
LEMMA SaverLocks ==
  ASSUME IInv, NEW w \in workers, w.gen \notin adrift,
         w.pc \in {"preflight", "recheck", "commit"}
  PROVE  lock[w.root] = w.gen /\ disk[w.root] \in Manifest
         /\ Reaches(w.root, w.base, w.edits)
<1>1. /\ ws[w.app].session = "saved" /\ ws[w.app].root = w.root /\ ws[w.app].gen = w.gen
      /\ ws[w.app].phase = "timeline" /\ ws[w.app].save = "Saving"
      /\ ws[w.app].base = w.base /\ ws[w.app].edits = w.edits
  BY OfWorker DEF WorkerOK
<1>2. ws[w.app].access = "writable"
  BY <1>1, OfWorker DEF Local, Workspace, Accesses
<1>3. lock[w.root] = w.gen /\ Reaches(w.root, w.base, w.edits)
  BY <1>1, <1>2, OfWorker DEF SessionOK
<1> QED BY <1>3, OfWorker DEF Reaches, IInv, TypeOK

(* What a step of worker w can do, adrift or not.                          *)
Rewrites(w, r) == Stays(r) /\ w.gen \in adrift /\ Concerned(r) \subseteq adrift'

WorkerMoves(w) ==
    /\ \A v \in workers' : v \in workers \/ (v.app = w.app /\ v.gen = w.gen)
    /\ \A m \in inbox' : m \in inbox \/ (m.app = w.app /\ m.gen = w.gen)
    /\ \A b \in Apps : \/ ws'[b] = ws[b]
                       \/ /\ b = w.app /\ ws[b].gen = w.gen
                          /\ ws'[b] = [ws[b] EXCEPT !.slot = w.root]
    /\ adrift \subseteq adrift' /\ (w.gen \notin adrift => adrift' = adrift)
    /\ \A g \in adrift' : g <= opened
    /\ \A r \in Roots :
          /\ \/ lock'[r] = lock[r]
             \/ lock[r] = w.gen /\ lock'[r] = NoWriter
             \/ lock[r] = NoWriter /\ lock'[r] = w.gen /\ disk[r] # NoProject
          /\ \/ disk'[r] = disk[r]
             \/ Grows(r) /\ lock[r] \in {NoWriter, w.gen}
             \/ Rewrites(w, r)

(* Whoever is not adrift and not the workspace of w is left alone.         *)
LEMMA WorkerLeaves ==
  ASSUME IInv, NEW w \in workers, WorkerMoves(w), NEW b \in Apps,
         b # w.app \/ ws[b].gen # w.gen
  PROVE  AppInv(b)'
<1>1. ws'[b] = ws[b] /\ adrift \subseteq adrift' /\ \A r \in Roots : Stays(r)
  BY DEF WorkerMoves, Rewrites, Grows, Stays
<1> SUFFICES ASSUME ws[b].gen \notin adrift'
             PROVE  /\ \A v \in workers' : v.gen = ws[b].gen => v \in workers
                    /\ \A m \in inbox' : m.gen = ws[b].gen => m \in inbox
                    /\ \A r \in Roots :
                          /\ lock[r] = ws[b].gen => lock'[r] = ws[b].gen
                          /\ \/ disk'[r] = disk[r]
                             \/ Grows(r) /\ lock[r] # ws[b].gen
                             \/ Concerned(r) \subseteq adrift'
  BY <1>1, UntouchedKeeps DEF Untouched
<1>2. ws[b].gen # w.gen
  <2> SUFFICES ASSUME ws[b].gen = w.gen PROVE FALSE
    OBVIOUS
  <2>1. w.gen # 0 /\ w.gen \notin adrift /\ ws[w.app].gen = w.gen /\ w.app \in Apps
    BY <1>1, OfWorker
  <2> QED BY <2>1 DEF IInv, Gens
<1>3. ws[b].gen # NoWriter
  BY Shape, SessionAssumption DEF Workspace
<1> QED BY <1>2, <1>3 DEF WorkerMoves, Rewrites

LEMMA WorkerStepKeeps ==
  ASSUME IInv, NEW w \in workers, WorkerMoves(w), TypeOK', opened' = opened, InFlightIsSaved',
         w.gen \notin adrift => FineInv(w.app)'
  PROVE  IInv'
<1>1. \A b \in Apps : /\ ws[b] \in Workspace /\ ws'[b].gen = ws[b].gen /\ ws'[b].phase = ws[b].phase
                      /\ ws'[b].root = ws[b].root /\ ws'[b].session = ws[b].session
  <2> SUFFICES ASSUME NEW b \in Apps
               PROVE  /\ ws[b] \in Workspace /\ ws'[b].gen = ws[b].gen
                      /\ ws'[b].phase = ws[b].phase /\ ws'[b].root = ws[b].root
                      /\ ws'[b].session = ws[b].session
    OBVIOUS
  <2>1. PICK x \in Workspace : x = ws[b]
    BY Shape
  <2>2. ws'[b] = x \/ ws'[b] = [x EXCEPT !.slot = w.root]
    BY <2>1 DEF WorkerMoves
  <2> QED BY <2>1, <2>2 DEF Workspace
<1>2. Gens'
  <2>1. \A f \in workers' \cup inbox' : f.gen <= opened'
    BY OfWorker DEF WorkerMoves, IInv, Gens
  <2>2. \A r \in Roots : lock'[r] \in Writers => lock'[r] <= opened'
    BY OfWorker, SessionAssumption DEF WorkerMoves, IInv, Gens, Writers
  <2>3. \A g \in adrift' : g <= opened'
    BY DEF WorkerMoves
  <2> QED BY <1>1, <2>1, <2>2, <2>3 DEF IInv, Gens
<1>3. Owned'
  <2> SUFFICES ASSUME NEW f \in workers' \cup inbox', f.gen \notin adrift' PROVE ws'[f.app].gen = f.gen
    BY DEF Owned
  <2>1. f.gen \notin adrift
    BY DEF WorkerMoves
  <2>2. CASE f \in workers \cup inbox
    BY <1>1, <2>1, <2>2, PendingType DEF IInv, Owned
  <2>3. CASE f.app = w.app /\ f.gen = w.gen
    BY <1>1, <2>1, <2>3, OfWorker
  <2> QED BY <2>2, <2>3 DEF WorkerMoves
<1>4. LockedIsSaved'
  BY DEF IInv, LockedIsSaved, WorkerMoves, Rewrites, Grows, Stays
<1>5. ASSUME NEW b \in Apps PROVE AppInv(b)'
  <2>1. CASE b # w.app \/ ws[b].gen # w.gen
    BY <2>1, WorkerLeaves
  <2>2. CASE b = w.app /\ ws[b].gen = w.gen
    <3>1. \A r \in Roots : Stays(r)
      BY DEF WorkerMoves, Rewrites, Grows, Stays
    <3>2. Basic(ws[b])'
      BY <1>1, <2>2, <3>1, Shape DEF Basic, Stays
    <3>3. adrift \subseteq adrift'
      BY DEF WorkerMoves
    <3> QED BY <1>1, <2>2, <3>2, <3>3 DEF AppInv
  <2> QED BY <2>1, <2>2
<1> QED BY <1>2, <1>3, <1>4, <1>5 DEF IInv

(* A save that advances, of a workspace that is not adrift.                *)
LEMMA FineAdvances ==
  ASSUME IInv, NEW w \in workers, w.gen \notin adrift, NEW v, v.gen = w.gen,
         workers' = (workers \ {w}) \cup {v}, UNCHANGED <<ws, inbox>>,
         WorkerOK(ws[w.app], v)', SessionOK(ws[w.app])'
  PROVE  FineInv(w.app)'
<1>1. (\A u \in workers' : u.gen = w.gen => u = v) /\ (\A m \in inbox' : m.gen # w.gen)
  BY OfWorker DEF Alone
<1>2. Alone(ws[w.app].gen)'
  BY <1>1, OfWorker DEF Alone
<1>3. Local(ws[w.app])' /\ ws'[w.app].gen = w.gen
  BY OfWorker DEF Local
<1> QED BY <1>1, <1>2, <1>3 DEF FineInv

LEMMA FineEnds ==
  ASSUME IInv, NEW w \in workers, w.gen \notin adrift, NEW m, m.gen = w.gen,
         workers' = workers \ {w}, inbox' = inbox \cup {m},
         ws'[w.app].gen = w.gen, Local(ws[w.app])', SessionOK(ws[w.app])', ResultOK(ws[w.app], m)'
  PROVE  FineInv(w.app)'
<1>1. (\A u \in workers' : u.gen # w.gen) /\ (\A n \in inbox' : n.gen = w.gen => n = m)
  BY OfWorker DEF Alone
<1>2. Alone(ws[w.app].gen)'
  BY <1>1 DEF Alone
<1> QED BY <1>1, <1>2 DEF FineInv

(* What it leaves of the workspace it works for.                           *)
LEMMA StillOK ==
  ASSUME IInv, NEW w \in workers, w.gen \notin adrift, UNCHANGED ws, \A r \in Roots : Grows(r),
         \A r \in Roots : lock'[r] = lock[r] \/ lock'[r] = w.gen
  PROVE  SessionOK(ws[w.app])'
<1>1. PICK x \in Workspace : x = ws[w.app]
  BY OfWorker
<1>2. x.phase = "timeline" /\ x.save = "Saving" /\ x.gen = w.gen /\ Local(x) /\ SessionOK(x) /\ Basic(x)
  BY <1>1, OfWorker
<1>3. ASSUME x.access = "writable" PROVE lock'[x.root] = x.gen
  BY <1>2, <1>3 DEF Local, SessionOK, Basic
<1>4. ASSUME x.session = "saved" PROVE Reaches(x.root, x.base, x.edits)'
  <2>1. x.root \in Roots /\ x.base \in Nat /\ Reaches(x.root, x.base, x.edits)
    BY <1>2, <1>4 DEF Basic, SessionOK, Workspace
  <2> QED BY <2>1, ReachesOn DEF IInv
<1>5. SessionOK(x)'
  BY <1>2, <1>3, <1>4 DEF SessionOK, Reaches
<1> QED BY <1>1, <1>5 DEF SessionOK, Reaches, Contains

(* The result a worker sends.                                              *)
Reported(w, kind, rev) == [app |-> w.app, gen |-> w.gen, root |-> w.root, rev |-> rev, kind |-> kind]

LEMMA ReportedType ==
  ASSUME IInv, NEW w \in workers, NEW rev \in Nat,
         NEW kind \in {"ExistingSaved", "NewWritable", "NewReadOnly", "Failed"}
  PROVE  /\ Reported(w, kind, rev) \in Result
         /\ Reported(w, kind, rev).app = w.app /\ Reported(w, kind, rev).gen = w.gen
         /\ Reported(w, kind, rev).root = w.root /\ Reported(w, kind, rev).rev = rev
         /\ Reported(w, kind, rev).kind = kind
  BY OfWorker DEF Reported, Result, Writers

(* A step that moves only the disk, and the worker.                        *)
DiskMoves(w) ==
    /\ disk' \in [Roots -> Manifest \cup {NoProject}]
    /\ adrift \subseteq adrift' /\ adrift' \subseteq Writers
    /\ (w.gen \notin adrift => adrift' = adrift) /\ \A g \in adrift' : g <= opened
    /\ \A r \in Roots : \/ disk'[r] = disk[r]
                        \/ Grows(r) /\ lock[r] \in {NoWriter, w.gen}
                        \/ Rewrites(w, r)

LEMMA DiskKept ==
  ASSUME IInv, NEW w \in workers, UNCHANGED <<disk, adrift>>
  PROVE  DiskMoves(w)
  BY DEF DiskMoves, IInv, TypeOK, Gens

LEMMA DiskGrows ==
  ASSUME NEW w, DiskMoves(w), w.gen \notin adrift
  PROVE  \A r \in Roots : Grows(r)
  BY DEF DiskMoves, Rewrites, Grows

(* What else is in the invariant.                                          *)
LEMMA SavedStays ==
  ASSUME IInv, NEW w \in workers, DiskMoves(w)
  PROVE  /\ \A r \in Roots : Stays(r)
         /\ \A v \in workers : v.pc \in {"preflight", "recheck", "commit", "lock"} => disk'[v.root] # NoProject
         /\ \A m \in inbox : m.kind \in {"NewWritable", "NewReadOnly"} => disk'[m.root] # NoProject
<1>1. \A r \in Roots : Stays(r)
  BY DEF DiskMoves, Rewrites, Grows, Stays
<1> QED BY <1>1, PendingType DEF Stays, IInv, InFlightIsSaved

LEMMA WorkerAdvances ==
  ASSUME IInv, NEW w \in workers, NEW v \in Worker, v.app = w.app, v.gen = w.gen,
         UNCHANGED <<ws, lock, inbox, made, opened, saves>>, workers' = (workers \ {w}) \cup {v},
         DiskMoves(w), disk'[v.root] # NoProject,
         w.gen \notin adrift => WorkerOK(ws[w.app], v)'
  PROVE  IInv'
<1>1. TypeOK'
  BY DEF IInv, TypeOK, DiskMoves
<1>2. WorkerMoves(w)
  BY DEF DiskMoves, WorkerMoves
<1>3. InFlightIsSaved'
  BY SavedStays DEF InFlightIsSaved
<1>4. ASSUME w.gen \notin adrift PROVE FineInv(w.app)'
  BY <1>4, DiskGrows, StillOK, FineAdvances
<1> QED BY <1>1, <1>2, <1>3, <1>4, WorkerStepKeeps

LEMMA WorkerEnds ==
  ASSUME IInv, NEW w \in workers, NEW m \in Result, m.app = w.app, m.gen = w.gen,
         UNCHANGED <<ws, lock, made, opened, saves>>, workers' = workers \ {w}, inbox' = inbox \cup {m},
         DiskMoves(w), m.kind \in {"NewWritable", "NewReadOnly"} => disk'[m.root] # NoProject,
         w.gen \notin adrift => ResultOK(ws[w.app], m)'
  PROVE  IInv'
<1>1. TypeOK'
  BY DEF IInv, TypeOK, DiskMoves
<1>2. WorkerMoves(w)
  BY DEF DiskMoves, WorkerMoves
<1>3. InFlightIsSaved'
  BY SavedStays DEF InFlightIsSaved
<1>4. ASSUME w.gen \notin adrift PROVE FineInv(w.app)'
  <2>1. Local(ws[w.app])' /\ ws'[w.app].gen = w.gen
    BY <1>4, OfWorker DEF Local
  <2> QED BY <1>4, <2>1, DiskGrows, StillOK, FineEnds
<1> QED BY <1>1, <1>2, <1>3, <1>4, WorkerStepKeeps

(* A failure that may have moved the disk.                                 *)
LEMMA FailureEnds ==
  ASSUME IInv, NEW w \in workers, Finish(w, "Failed", 0), UNCHANGED <<lock, ws, made, opened, saves>>,
         DiskMoves(w)
  PROVE  IInv'
<1>1. PICK m \in Result :
         /\ m = Reported(w, "Failed", 0) /\ m.app = w.app /\ m.gen = w.gen /\ m.kind = "Failed"
  BY ReportedType
<1>2. w.gen \notin adrift => ResultOK(ws[w.app], m)'
  BY <1>1, OfWorker DEF ResultOK, InFlight, WorkerOK
<1>3. workers' = workers \ {w} /\ inbox' = inbox \cup {m}
  BY <1>1 DEF Finish, Reported
<1> QED BY <1>1, <1>2, <1>3, WorkerEnds

LEMMA WorkerFailsKeeps == ASSUME IInv, NEW w \in workers, WorkerFails(w) PROVE IInv'
  BY FailureEnds, DiskKept DEF WorkerFails

LEMMA CheckKeeps ==
  ASSUME IInv, NEW w \in workers,
         CheckRevision(w, "preflight", "recheck") \/ CheckRevision(w, "recheck", "commit")
  PROVE  IInv'
<1>0. UNCHANGED <<disk, lock, ws, made, opened, saves, adrift>> /\ DiskMoves(w)
  BY DiskKept DEF CheckRevision
<1>1. CASE disk[w.root].rev # w.base
  BY <1>0, <1>1, FailureEnds DEF CheckRevision
<1>2. CASE disk[w.root].rev = w.base
  <2>1. PICK pc \in {"recheck", "commit"} : Advance(w, pc)
    BY <1>2 DEF CheckRevision
  <2>2. w.pc \in {"preflight", "recheck"}
    BY DEF CheckRevision
  <2>3. PICK v \in Worker : v = [w EXCEPT !.pc = pc]
    BY OfWorker DEF Worker
  <2>4. v.app = w.app /\ v.gen = w.gen /\ v.root = w.root /\ v.base = w.base
        /\ v.edits = w.edits /\ v.pc \in {"recheck", "commit"}
    BY <2>3, OfWorker DEF Worker
  <2>5. workers' = (workers \ {w}) \cup {v} /\ UNCHANGED inbox
    BY <2>1, <2>3 DEF Advance
  <2>6. w.gen \notin adrift => WorkerOK(ws[w.app], v)'
    BY <1>0, <1>2, <2>2, <2>4, OfWorker DEF WorkerOK, InFlight
  <2>7. disk'[v.root] # NoProject
    BY <1>0, <2>2, <2>4 DEF IInv, InFlightIsSaved
  <2> QED BY <1>0, <2>4, <2>5, <2>6, <2>7, WorkerAdvances
<1> QED BY <1>1, <1>2

(* The rename of a save: what is written, and over what.                   *)
LEMMA CommitWrites ==
  ASSUME IInv, NEW w \in workers, CommitManifest(w)
  PROVE  /\ disk' = [disk EXCEPT ![w.root] = [rev |-> w.base + 1, edits |-> w.edits]]
         /\ disk' \in [Roots -> Manifest \cup {NoProject}]
         /\ disk[w.root] \in Manifest /\ disk[w.root] # NoProject
         /\ disk'[w.root] \in Manifest /\ disk'[w.root] # NoProject
         /\ disk'[w.root].rev = w.base + 1 /\ disk'[w.root].edits = w.edits
         /\ \A r \in Roots : r # w.root => disk'[r] = disk[r]
<1>1. w.pc = "commit" /\ disk' = [disk EXCEPT ![w.root] = [rev |-> w.base + 1, edits |-> w.edits]]
  BY DEF CommitManifest
<1>2. disk[w.root] \in Manifest /\ disk[w.root] # NoProject
  BY <1>1, OfWorker DEF IInv, InFlightIsSaved, TypeOK
<1>3. [rev |-> w.base + 1, edits |-> w.edits] \in Manifest
  BY OfWorker DEF Manifest
<1>4. NoProject \notin Manifest
  BY SessionAssumption DEF Manifest, Edits
<1>5. disk' \in [Roots -> Manifest \cup {NoProject}]
  BY <1>1, <1>3 DEF IInv, TypeOK
<1>6. disk'[w.root] = [rev |-> w.base + 1, edits |-> w.edits]
      /\ \A r \in Roots : r # w.root => disk'[r] = disk[r]
  BY <1>1, OfWorker DEF IInv, TypeOK
<1> QED BY <1>1, <1>2, <1>3, <1>4, <1>5, <1>6

(* Of a workspace that is not adrift: the lock is held and the revision    *)
(* still current.                                                          *)
LEMMA FineCommit ==
  ASSUME IInv, NEW w \in workers, CommitManifest(w), w.gen \notin adrift
  PROVE  /\ lock[w.root] = w.gen /\ adrift' = adrift
         /\ disk[w.root].rev = w.base /\ disk[w.root].edits \subseteq w.edits
<1>1. w.pc = "commit" /\ adrift' = adrift
  BY DEF CommitManifest
<1>2. lock[w.root] = w.gen /\ Reaches(w.root, w.base, w.edits)
  BY <1>1, SaverLocks
<1>3. disk[w.root].rev = w.base
  BY <1>1, OfWorker DEF WorkerOK
<1> QED BY <1>1, <1>2, <1>3 DEF Reaches

LEMMA ConcernedOpened ==
  ASSUME IInv, NEW r \in Roots
  PROVE  Concerned(r) \subseteq Writers /\ \A g \in Concerned(r) : g <= opened
  BY DEF Concerned, IInv, Gens

LEMMA CommitMoves == ASSUME IInv, NEW w \in workers, CommitManifest(w) PROVE DiskMoves(w)
<1>1. CASE w.gen \notin adrift
  <2>1. Grows(w.root) /\ lock[w.root] = w.gen /\ adrift' = adrift
    BY <1>1, CommitWrites, FineCommit DEF Grows
  <2>2. \A g \in adrift' : g <= opened
    BY <2>1 DEF IInv, Gens
  <2> QED BY <1>1, <2>1, <2>2, CommitWrites, Shape, OfWorker DEF DiskMoves
<1>2. CASE w.gen \in adrift
  <2>1. adrift' = adrift \cup Concerned(w.root)
    BY <1>2 DEF CommitManifest
  <2>2. Concerned(w.root) \subseteq Writers /\ \A g \in Concerned(w.root) : g <= opened
    BY ConcernedOpened, OfWorker
  <2>3. Rewrites(w, w.root)
    BY <1>2, <2>1, CommitWrites DEF Rewrites, Stays
  <2>4. adrift \subseteq Writers /\ \A g \in adrift : g <= opened
    BY DEF IInv, TypeOK, Gens
  <2> QED BY <1>2, <2>1, <2>2, <2>3, <2>4, CommitWrites DEF DiskMoves
<1> QED BY <1>1, <1>2

LEMMA CommitKeeps == ASSUME IInv, NEW w \in workers, CommitManifest(w) PROVE IInv'
<1>0. UNCHANGED <<lock, ws, made, opened, saves>> /\ w.pc = "commit" /\ DiskMoves(w)
  BY CommitMoves DEF CommitManifest
<1>1. CASE Finish(w, "Failed", 0)
  BY <1>0, <1>1, FailureEnds
<1>2. CASE Finish(w, "ExistingSaved", w.base + 1)
  <2>1. PICK m \in Result :
           /\ m = Reported(w, "ExistingSaved", w.base + 1)
           /\ m.app = w.app /\ m.gen = w.gen /\ m.kind = "ExistingSaved" /\ m.root = w.root
           /\ m.rev = w.base + 1
    BY ReportedType, OfWorker
  <2>2. Reaches(m.root, m.rev, w.edits)' /\ Contains(m.root, w.edits)'
    <3>1. disk'[m.root] # NoProject /\ disk'[m.root].rev = m.rev /\ disk'[m.root].edits = w.edits
      BY <2>1, CommitWrites
    <3>2. m.rev \in Nat
      BY DEF Result
    <3> QED BY <3>1, <3>2 DEF Reaches, Contains
  <2>3. ASSUME w.gen \notin adrift PROVE ResultOK(ws[w.app], m)'
    <3>1. /\ ws[w.app].session = "saved" /\ ws[w.app].root = m.root /\ ws[w.app].edits = w.edits
          /\ ws[w.app].slot = NoRoot
      BY <1>0, <2>1, <2>3, OfWorker DEF WorkerOK
    <3> QED BY <1>0, <2>1, <2>2, <2>3, <3>1, OfWorker DEF ResultOK, InFlight, Reaches, Contains
  <2>4. workers' = workers \ {w} /\ inbox' = inbox \cup {m}
    BY <1>2, <2>1 DEF Finish, Reported
  <2> QED BY <1>0, <2>1, <2>3, <2>4, WorkerEnds
<1> QED BY <1>1, <1>2 DEF CommitManifest

LEMMA CreateMoves ==
  ASSUME IInv, NEW w \in workers, CommitNewProject(w), disk[w.root] = NoProject
  PROVE  /\ disk' = [disk EXCEPT ![w.root] = [rev |-> 1, edits |-> w.edits]]
         /\ disk'[w.root] # NoProject
         /\ disk'[w.root].rev = 1 /\ disk'[w.root].edits = w.edits
         /\ DiskMoves(w)
<1>1. disk' = [disk EXCEPT ![w.root] = [rev |-> 1, edits |-> w.edits]] /\ adrift' = adrift
  BY DEF CommitNewProject
<1>2. [rev |-> 1, edits |-> w.edits] \in Manifest
  BY OfWorker DEF Manifest
<1>3. NoProject \notin Manifest
  BY SessionAssumption DEF Manifest, Edits
<1>4. disk' \in [Roots -> Manifest \cup {NoProject}]
  BY <1>1, <1>2 DEF IInv, TypeOK
<1>5. disk'[w.root] = [rev |-> 1, edits |-> w.edits] /\ \A r \in Roots : r # w.root => disk'[r] = disk[r]
  BY <1>1, OfWorker DEF IInv, TypeOK
<1>6. Grows(w.root) /\ lock[w.root] = NoWriter
  BY <1>2, <1>3, <1>5, OfWorker DEF Grows, IInv, LockedIsSaved
<1>7. adrift \subseteq Writers /\ \A g \in adrift : g <= opened
  BY DEF IInv, TypeOK, Gens
<1>8. DiskMoves(w)
  BY <1>1, <1>4, <1>5, <1>6, <1>7 DEF DiskMoves
<1> QED BY <1>1, <1>2, <1>3, <1>5, <1>8

LEMMA CreateKeeps == ASSUME IInv, NEW w \in workers, CommitNewProject(w) PROVE IInv'
<1>0. UNCHANGED <<lock, ws, made, opened, saves, adrift>> /\ w.pc = "create"
  BY DEF CommitNewProject
<1>1. CASE disk[w.root] # NoProject
  BY <1>0, <1>1, FailureEnds, DiskKept DEF CommitNewProject
<1>2. CASE disk[w.root] = NoProject /\ Finish(w, "Failed", 0)
  BY <1>0, <1>2, CreateMoves, FailureEnds
<1>3. CASE disk[w.root] = NoProject /\ Advance(w, "lock")
  <2>1. PICK v \in Worker : v = [w EXCEPT !.pc = "lock"]
    BY OfWorker DEF Worker
  <2>2. v.app = w.app /\ v.gen = w.gen /\ v.root = w.root /\ v.base = w.base
        /\ v.edits = w.edits /\ v.pc = "lock"
    BY <2>1, OfWorker DEF Worker
  <2>3. workers' = (workers \ {w}) \cup {v} /\ UNCHANGED inbox
    BY <1>3, <2>1 DEF Advance
  <2>4. disk'[v.root] # NoProject /\ disk'[v.root].rev = 1 /\ disk'[v.root].edits = v.edits
    BY <1>3, <2>2, CreateMoves
  <2>5. ASSUME w.gen \notin adrift PROVE WorkerOK(ws[w.app], v)'
    <3>1. ws[w.app].phase = "timeline" /\ ws[w.app].save = "Saving" /\ ws[w.app].gen = v.gen
          /\ ws[w.app].edits = v.edits /\ ws[w.app].slot = NoRoot /\ ~ws[w.app].picking
      BY <1>0, <2>2, <2>5, OfWorker DEF WorkerOK
    <3> QED BY <1>0, <2>2, <2>4, <3>1 DEF WorkerOK, InFlight, Reaches, Contains
  <2> QED BY <1>0, <1>3, <2>2, <2>3, <2>4, <2>5, CreateMoves, WorkerAdvances
<1> QED BY <1>1, <1>2, <1>3 DEF CommitNewProject

(* The lock of a new project, with the guard for the slot of a workspace.  *)
LEMMA LockNewMoves ==
  ASSUME IInv, NEW w \in workers, LockNewProject(w), lock[w.root] = NoWriter,
         ws[w.app].gen = w.gen
  PROVE  /\ WorkerMoves(w) /\ TypeOK' /\ InFlightIsSaved'
         /\ w.gen \notin adrift => FineInv(w.app)'
<1>1. PICK x \in Workspace : x = ws[w.app]
  BY OfWorker
<1>2. PICK y \in Workspace : y = [x EXCEPT !.slot = w.root]
  BY OfWorker DEF Workspace
<1>3. /\ y.phase = x.phase /\ y.gen = x.gen /\ y.session = x.session /\ y.root = x.root
      /\ y.base = x.base /\ y.access = x.access /\ y.save = x.save /\ y.edits = x.edits
      /\ y.frames = x.frames /\ y.picking = x.picking /\ y.slot = w.root
  BY <1>2 DEF Workspace
<1>4. PICK m \in Result :
         /\ m = Reported(w, "NewWritable", 1) /\ m.app = w.app /\ m.gen = w.gen
         /\ m.root = w.root /\ m.rev = 1 /\ m.kind = "NewWritable"
  BY ReportedType
<1>5. /\ ws' = [ws EXCEPT ![w.app] = y] /\ UNCHANGED <<disk, made, opened, saves, adrift>>
      /\ lock' = [r \in Roots |-> IF r = w.root THEN w.gen
                                  ELSE IF r = x.slot /\ lock[r] = w.gen THEN NoWriter
                                  ELSE lock[r]]
      /\ workers' = workers \ {w} /\ inbox' = inbox \cup {m} /\ w.pc = "lock"
  BY <1>1, <1>2, <1>4 DEF LockNewProject, Guards, Finish, Reported
<1>6. lock' \in [Roots -> Writers \cup {NoWriter}] /\ lock'[w.root] = w.gen
      /\ \A r \in Roots : r # w.root => lock'[r] = lock[r] \/ (lock[r] = w.gen /\ lock'[r] = NoWriter)
  BY <1>5, OfWorker DEF IInv, TypeOK
<1>7. disk[w.root] # NoProject
  BY <1>5 DEF IInv, InFlightIsSaved
<1>8. ws'[w.app] = y /\ \A b \in Apps : b # w.app => ws'[b] = ws[b]
  BY <1>5, OfWorker DEF IInv, TypeOK
<1>9. TypeOK'
  BY <1>5, <1>6 DEF IInv, TypeOK
<1>10. WorkerMoves(w)
  <2>1. \A b \in Apps : \/ ws'[b] = ws[b]
                        \/ b = w.app /\ ws[b].gen = w.gen /\ ws'[b] = [ws[b] EXCEPT !.slot = w.root]
    BY <1>1, <1>2, <1>8
  <2>2. \A g \in adrift' : g <= opened
    BY <1>5 DEF IInv, Gens
  <2>3. \A r \in Roots : \/ lock'[r] = lock[r]
                         \/ lock[r] = w.gen /\ lock'[r] = NoWriter
                         \/ lock[r] = NoWriter /\ lock'[r] = w.gen /\ disk[r] # NoProject
    BY <1>6, <1>7
  <2> QED BY <1>4, <1>5, <2>1, <2>2, <2>3 DEF WorkerMoves
<1>11. InFlightIsSaved'
  BY <1>4, <1>5, <1>7 DEF IInv, InFlightIsSaved
<1>12. ASSUME w.gen \notin adrift PROVE FineInv(w.app)'
  <2>1. /\ x.phase = "timeline" /\ x.save = "Saving" /\ x.gen = w.gen /\ Local(x) /\ SessionOK(x)
        /\ Basic(x) /\ x.slot = NoRoot /\ x.edits = w.edits /\ ~x.picking
        /\ Reaches(w.root, 1, w.edits) /\ Contains(w.root, w.edits)
    BY <1>1, <1>5, <1>12, OfWorker DEF WorkerOK
  <2>2. \A r \in Roots : lock[r] = w.gen => lock'[r] = w.gen
    BY <1>5, <1>6, <2>1, SessionAssumption
  <2>3. Local(y)
    BY <1>3, <2>1 DEF Local
  <2>4. SessionOK(y)'
    BY <1>3, <1>5, <2>1, <2>2 DEF SessionOK, Basic, Local, Reaches
  <2>5. ResultOK(y, m)'
    BY <1>3, <1>4, <1>5, <1>6, <2>1 DEF ResultOK, InFlight, Reaches, Contains
  <2>6. Local(ws[w.app])' /\ SessionOK(ws[w.app])' /\ ResultOK(ws[w.app], m)' /\ ws'[w.app].gen = w.gen
    BY <1>3, <1>8, <2>1, <2>3, <2>4, <2>5 DEF Local, SessionOK, ResultOK, InFlight, Reaches, Contains
  <2> QED BY <1>4, <1>5, <1>12, <2>6, FineEnds
<1> QED BY <1>9, <1>10, <1>11, <1>12

LEMMA LockNewKeeps == ASSUME IInv, NEW w \in workers, LockNewProject(w) PROVE IInv'
<1>0. UNCHANGED <<disk, made, opened, saves, adrift>> /\ w.pc = "lock" /\ disk[w.root] # NoProject
      /\ DiskMoves(w)
  BY DiskKept DEF LockNewProject, IInv, InFlightIsSaved
<1>1. CASE lock[w.root] = NoWriter /\ ws[w.app].gen = w.gen
  BY <1>0, <1>1, LockNewMoves, WorkerStepKeeps
<1>2. CASE lock[w.root] = NoWriter /\ ws[w.app].gen # w.gen
  <2>1. PICK m \in Result :
           /\ m = Reported(w, "NewWritable", 1) /\ m.app = w.app /\ m.gen = w.gen /\ m.root = w.root
    BY ReportedType
  <2>2. UNCHANGED <<ws, lock>> /\ workers' = workers \ {w} /\ inbox' = inbox \cup {m}
    BY <1>2, <2>1 DEF LockNewProject, Guards, Finish, Reported
  <2>3. w.gen \in adrift
    BY <1>2, OfWorker
  <2> QED BY <1>0, <2>1, <2>2, <2>3, WorkerEnds
<1>3. CASE lock[w.root] # NoWriter
  <2>1. PICK m \in Result :
           /\ m = Reported(w, "NewReadOnly", 1) /\ m.app = w.app /\ m.gen = w.gen
           /\ m.kind = "NewReadOnly" /\ m.root = w.root /\ m.rev = 1
    BY ReportedType
  <2>2. UNCHANGED <<ws, lock>> /\ workers' = workers \ {w} /\ inbox' = inbox \cup {m}
    BY <1>3, <2>1 DEF LockNewProject, Finish, Reported
  <2>3. ASSUME w.gen \notin adrift PROVE ResultOK(ws[w.app], m)'
    <3>1. /\ ws[w.app].phase = "timeline" /\ ws[w.app].save = "Saving" /\ ws[w.app].gen = w.gen
          /\ ws[w.app].edits = w.edits /\ ws[w.app].slot = NoRoot /\ ~ws[w.app].picking
          /\ Reaches(w.root, 1, w.edits) /\ Contains(w.root, w.edits)
      BY <1>0, <2>3, OfWorker DEF WorkerOK
    <3> QED BY <1>0, <2>1, <2>2, <3>1 DEF ResultOK, InFlight, Reaches, Contains
  <2> QED BY <1>0, <2>1, <2>2, <2>3, WorkerEnds
<1> QED BY <1>1, <1>2, <1>3

-----------------------------------------------------------------------------
(* Results.                                                                *)
LEMMA OfResult ==
  ASSUME IInv, NEW m \in inbox
  PROVE  /\ m \in Result /\ m.app \in Apps /\ m.root \in Roots /\ m.rev \in Nat /\ m.gen # 0
         /\ m.kind \in {"ExistingSaved", "NewWritable", "NewReadOnly", "Failed"}
         /\ m.kind \in {"NewWritable", "NewReadOnly"} => disk[m.root] # NoProject
         /\ ws[m.app] \in Workspace /\ Basic(ws[m.app])
  BY PendingType, Shape DEF IInv, TypeOK, Result, InFlightIsSaved

(* The result of a workspace that is shown and not adrift.                 *)
LEMMA OwnResult ==
  ASSUME IInv, NEW m \in inbox, m.gen \notin adrift, ws[m.app].gen = m.gen
  PROVE  /\ ResultOK(ws[m.app], m) /\ Local(ws[m.app]) /\ SessionOK(ws[m.app])
         /\ \A w \in workers : w.gen # m.gen
         /\ \A n \in inbox \ {m} : n.gen # m.gen
         /\ ws[m.app].phase = "timeline" /\ ws[m.app].save = "Saving"
         /\ ws[m.app].access # "readonly"
<1>1. FineInv(m.app)
  BY OfResult, Shape
<1>2. ResultOK(ws[m.app], m) /\ Local(ws[m.app]) /\ SessionOK(ws[m.app]) /\ Alone(m.gen)
  BY <1>1 DEF FineInv
<1>3. ws[m.app].phase = "timeline" /\ ws[m.app].save = "Saving"
  BY <1>2 DEF ResultOK, InFlight
<1> QED BY <1>2, <1>3 DEF Alone, Local

(* What an own result leaves of it.                                        *)
LEMMA AppliedFine ==
  ASSUME IInv, NEW m \in inbox, m.gen \notin adrift, ws[m.app].gen = m.gen,
         NEW y \in Workspace, y = Applied(ws[m.app], m),
         lock' = LocksAfter(m.app, m), UNCHANGED disk
  PROVE  Local(y) /\ SessionOK(y)'
<1>1. PICK x \in Workspace : x = ws[m.app]
  BY OfResult
<1>2. /\ ResultOK(x, m) /\ Local(x) /\ SessionOK(x) /\ x.phase = "timeline" /\ x.save = "Saving"
      /\ x.access # "readonly" /\ x.gen = m.gen /\ Basic(x) /\ y = Applied(x, m)
  BY <1>1, OwnResult, OfResult
<1>3. x.slot \in Roots \cup {NoRoot} /\ NoRoot \notin Roots /\ m.root \in Roots
  BY <1>1, OfResult, SessionAssumption DEF Workspace
<1>4. lock' = [r \in Roots |-> IF /\ m.kind \in {"NewWritable", "NewReadOnly"}
                                  /\ lock[r] = x.gen /\ r # x.slot
                               THEN NoWriter ELSE lock[r]]
  BY <1>1 DEF LocksAfter
<1>5. x.session = "saved" => x.root \in Roots /\ Reaches(x.root, x.base, x.edits)
  BY <1>2 DEF Basic, SessionOK
<1>6. CASE m.kind = "Failed"
  <2>1. y = [x EXCEPT !.save = "Dirty", !.closing = FALSE] /\ x.slot = NoRoot
    BY <1>2, <1>6 DEF Applied, ResultOK
  <2>2. /\ y.phase = x.phase /\ y.gen = x.gen /\ y.session = x.session /\ y.root = x.root
        /\ y.base = x.base /\ y.access = x.access /\ y.save = "Dirty" /\ y.edits = x.edits
        /\ y.frames = x.frames /\ y.picking = x.picking /\ y.slot = NoRoot
    BY <2>1 DEF Workspace
  <2>3. Local(y)
    BY <1>2, <2>2 DEF Local
  <2>4. SessionOK(y)'
    BY <1>2, <1>4, <1>5, <1>6, <2>2 DEF Local, SessionOK, Reaches
  <2> QED BY <2>3, <2>4
<1>7. CASE m.kind = "ExistingSaved"
  <2>1. /\ y = [x EXCEPT !.save = "Clean", !.base = IF x.session = "saved" THEN m.rev ELSE @]
        /\ x.slot = NoRoot /\ x.session = "saved" /\ x.root = m.root
        /\ Reaches(m.root, m.rev, x.edits) /\ Contains(m.root, x.edits)
    BY <1>2, <1>7 DEF Applied, ResultOK
  <2>2. /\ y.phase = x.phase /\ y.gen = x.gen /\ y.session = x.session /\ y.root = x.root
        /\ y.base = m.rev /\ y.access = x.access /\ y.save = "Clean" /\ y.edits = x.edits
        /\ y.frames = x.frames /\ y.picking = x.picking /\ y.slot = NoRoot
    BY <2>1 DEF Workspace
  <2>3. Local(y)
    BY <1>2, <2>1, <2>2 DEF Local
  <2>4. SessionOK(y)'
    BY <1>2, <1>3, <1>4, <1>7, <2>1, <2>2 DEF SessionOK, Reaches, Contains
  <2> QED BY <2>3, <2>4
<1>8. CASE m.kind \in {"NewWritable", "NewReadOnly"}
  <2>0. /\ Reaches(m.root, m.rev, x.edits) /\ Contains(m.root, x.edits) /\ ~x.picking
        /\ IF m.kind = "NewWritable" THEN x.slot = m.root /\ lock[m.root] = m.gen ELSE x.slot = NoRoot
    BY <1>2, <1>8 DEF ResultOK
  <2>1. /\ y.phase = x.phase /\ y.gen = x.gen /\ y.session = "saved" /\ y.root = m.root
        /\ y.base = m.rev /\ y.save = "Clean" /\ y.edits = x.edits
        /\ y.frames /\ y.picking = x.picking /\ y.slot = NoRoot
        /\ y.access = IF m.kind = "NewWritable" THEN "writable" ELSE "readonly"
    <3>1. CASE m.kind = "NewWritable"
      <4>1. y = [x EXCEPT !.save = "Clean", !.session = "saved", !.root = m.root,
                          !.base = m.rev, !.frames = TRUE, !.slot = NoRoot, !.access = "writable"]
        BY <1>2, <1>3, <2>0, <3>1 DEF Applied
      <4> QED BY <3>1, <4>1 DEF Workspace
    <3>2. CASE m.kind = "NewReadOnly"
      <4>1. y = [x EXCEPT !.save = "Clean", !.session = "saved", !.root = m.root,
                          !.base = m.rev, !.frames = TRUE, !.access = "readonly"]
        BY <1>2, <3>2 DEF Applied
      <4> QED BY <2>0, <3>2, <4>1 DEF Workspace
    <3> QED BY <1>8, <3>1, <3>2
  <2>2. Local(y)
    BY <1>2, <2>0, <2>1 DEF Local
  <2>3. y.access = "writable" => lock'[y.root] = y.gen
    BY <1>2, <1>3, <1>4, <2>0, <2>1
  <2>4. SessionOK(y)'
    BY <2>0, <2>1, <2>3 DEF SessionOK, Reaches, Contains
  <2> QED BY <2>2, <2>4
<1> QED BY <1>6, <1>7, <1>8, OfResult

LEMMA AppliedType ==
  ASSUME IInv, NEW m \in inbox
  PROVE  /\ Applied(ws[m.app], m) \in Workspace
         /\ Applied(ws[m.app], m).gen = ws[m.app].gen
         /\ Basic(Applied(ws[m.app], m))
<1>1. PICK x \in Workspace : x = ws[m.app] /\ Basic(x)
  BY OfResult
<1>2. m \in Result /\ m.root \in Roots /\ m.rev \in Nat
  BY OfResult
<1>3. CASE m.kind = "Failed"
  <2>1. Applied(x, m) = [x EXCEPT !.save = "Dirty", !.closing = FALSE]
    BY <1>3 DEF Applied
  <2> QED BY <1>1, <2>1 DEF Workspace, SaveStates, Basic
<1>4. CASE m.kind = "ExistingSaved"
  <2>1. Applied(x, m) = [x EXCEPT !.save = "Clean", !.base = IF x.session = "saved" THEN m.rev ELSE @]
    BY <1>4 DEF Applied
  <2> QED BY <1>1, <1>2, <2>1 DEF Workspace, SaveStates, Basic
<1>5. CASE m.kind \in {"NewWritable", "NewReadOnly"}
  <2>1. PICK access \in Accesses, slot \in Roots \cup {NoRoot} :
           Applied(x, m) = [x EXCEPT !.save = "Clean", !.session = "saved", !.root = m.root,
                                     !.base = m.rev, !.frames = TRUE, !.slot = slot, !.access = access]
    <3>1. CASE m.kind = "NewWritable"
      BY <3>1 DEF Applied, Accesses
    <3>2. CASE m.kind = "NewReadOnly"
      <4>1. Applied(x, m) = [x EXCEPT !.save = "Clean", !.session = "saved", !.root = m.root,
                                !.base = m.rev, !.frames = TRUE, !.slot = x.slot, !.access = "readonly"]
        BY <3>2 DEF Applied, Workspace
      <4>2. x.slot \in Roots \cup {NoRoot} /\ "readonly" \in Accesses
        BY DEF Workspace, Accesses
      <4> QED BY <4>1, <4>2
    <3> QED BY <1>5, <3>1, <3>2
  <2>2. /\ Applied(x, m) \in Workspace /\ Applied(x, m).gen = x.gen /\ Applied(x, m).phase = x.phase
        /\ Applied(x, m).root = m.root
    BY <1>2, <2>1 DEF Workspace, SaveStates
  <2>3. disk[m.root] # NoProject
    BY <1>5, OfResult
  <2> QED BY <1>1, <1>2, <2>2, <2>3 DEF Basic
<1> QED BY <1>2, <1>3, <1>4, <1>5, OfResult

LEMMA DeliverKeeps == ASSUME IInv, NEW m \in inbox, Deliver(m) PROVE IInv'
<1> DEFINE a == m.app
<1>0. /\ a \in Apps /\ inbox' = inbox \ {m} /\ UNCHANGED <<disk, workers, made, opened, saves>>
      /\ ws[a] \in Workspace /\ Basic(ws[a]) /\ m.gen \in Writers /\ m.gen # 0
      /\ made' \in 0..MaxEdits /\ opened' \in 0..MaxOpens
  BY OfResult, Shape, PendingType DEF Deliver
<1>1. CASE ws[a].phase # "timeline"
  <2>1. ws' = ws /\ lock' = lock /\ adrift' = adrift
    BY <1>0, <1>1 DEF Deliver, IInv, TypeOK
  <2>2. ws' = [ws EXCEPT ![a] = ws[a]] /\ Alike(ws[a], ws[a]) /\ GenMoves(a, ws[a])
    BY <1>0, <2>1 DEF Alike, GenMoves, IInv, TypeOK
  <2>3. ws[a].gen \notin adrift' => Local(ws[a]) /\ SessionOK(ws[a])'
    <3> SUFFICES ASSUME ws[a].gen \notin adrift PROVE Local(ws[a]) /\ SessionOK(ws[a])'
      BY <2>1
    <3> QED BY <1>0, <2>1, Shape DEF SessionOK, Reaches, Contains
  <2>4. SessionOK(ws[a])' => \A x : x = ws[a] => SessionOK(x)'
    BY <2>1 DEF SessionOK, Reaches, Contains
  <2>5. PICK y \in Workspace : y = ws[a]
    BY <1>0
  <2> QED BY <1>0, <2>1, <2>2, <2>3, <2>4, <2>5, LocksKept, OwnStep
<1>2. CASE ws[a].phase = "timeline"
  <2>1. ws[a].gen # 0 /\ ws[a].gen \in Writers
    BY <1>0, <1>2, Shape DEF Basic
  <2>2. adrift' = IF m.gen # ws[a].gen THEN adrift \cup {ws[a].gen} ELSE adrift
    BY <1>2 DEF Deliver
  <2>3. adrift \subseteq adrift' /\ adrift' \subseteq adrift \cup ({ws[a].gen} \ {0})
    BY <2>1, <2>2
  <2>4. ASSUME ws[a].gen \notin adrift' PROVE m.gen = ws[a].gen /\ m.gen \notin adrift /\ NoneFor(m.gen)'
    <3>1. m.gen = ws[a].gen /\ m.gen \notin adrift
      BY <2>2, <2>4
    <3> QED BY <1>0, <3>1, OwnResult DEF NoneFor
  <2>5. CASE ws[a].closing /\ m.kind # "Failed"
    <3>1. ws' = [ws EXCEPT ![a] = Home] /\ lock' = Without({ws[a].gen})
      BY <1>2, <2>5 DEF Deliver
    <3>2. LocksMove(a) /\ lock' \in [Roots -> Writers \cup {NoWriter}] /\ GenMoves(a, Home)
      BY <1>0, <3>1, WithoutOwn, HomeFacts DEF GenMoves
    <3>3. ASSUME NEW f \in workers' \cup inbox', f.app = a PROVE f.gen \in adrift'
      <4> SUFFICES ASSUME f.gen \notin adrift' PROVE FALSE
        OBVIOUS
      <4>1. ws[a].gen = f.gen
        BY <1>0, <2>3, <3>3 DEF IInv, Owned
      <4> QED BY <1>0, <2>4, <4>1 DEF NoneFor
    <3>4. NoneFor(Home.gen)'
      BY <1>0, HomeFacts, NoneForNone DEF NoneFor
    <3> QED BY <1>0, <2>3, <3>1, <3>2, <3>3, <3>4, HomeFacts, OwnStep
  <2>6. CASE ~(ws[a].closing /\ m.kind # "Failed")
    <3>1. PICK y \in Workspace : y = Applied(ws[a], m) /\ y.gen = ws[a].gen /\ Basic(y)
      BY AppliedType
    <3>2. ws' = [ws EXCEPT ![a] = y] /\ lock' = LocksAfter(a, m)
      BY <1>2, <2>6, <3>1 DEF Deliver
    <3>3. LocksMove(a) /\ lock' \in [Roots -> Writers \cup {NoWriter}] /\ GenMoves(a, y)
      BY <1>0, <3>1, <3>2 DEF LocksAfter, LocksMove, GenMoves, IInv, TypeOK
    <3>4. y.gen \notin adrift' => Local(y) /\ SessionOK(y)' /\ NoneFor(y.gen)'
      BY <1>0, <2>4, <3>1, <3>2, AppliedFine
    <3> QED BY <1>0, <2>3, <3>1, <3>2, <3>3, <3>4, OwnStep
  <2> QED BY <2>5, <2>6
<1> QED BY <1>1, <1>2

LEMMA CrashKeeps == ASSUME IInv, NEW a \in Apps, Crash(a) PROVE IInv'
<1>1. /\ ws' = [ws EXCEPT ![a] = Home] /\ lock' = Without({ws[a].gen})
      /\ workers' = {w \in workers : w.app # a} /\ inbox' = {m \in inbox : m.app # a}
      /\ UNCHANGED <<disk, made, opened, saves, adrift>>
  BY DEF Crash
<1>2. LocksMove(a) /\ lock' \in [Roots -> Writers \cup {NoWriter}] /\ GenMoves(a, Home)
  BY <1>1, WithoutOwn, HomeFacts DEF GenMoves
<1>3. made' \in 0..MaxEdits /\ opened' \in 0..MaxOpens
  BY <1>1 DEF IInv, TypeOK
<1>4. NoneFor(Home.gen)'
  BY <1>1, HomeFacts, NoneForNone DEF NoneFor
<1> QED BY <1>1, <1>2, <1>3, <1>4, HomeFacts, OwnStep

-----------------------------------------------------------------------------
LEMMA StutterKeeps == IInv /\ UNCHANGED vars => IInv'
<1> SUFFICES ASSUME IInv, UNCHANGED vars PROVE IInv'
  OBVIOUS
<1>1. TypeOK' /\ Gens' /\ Owned' /\ LockedIsSaved' /\ InFlightIsSaved'
  BY DEF IInv, vars, TypeOK, Gens, Owned, LockedIsSaved, InFlightIsSaved
<1>2. ASSUME NEW b \in Apps PROVE AppInv(b)'
  <2>1. Untouched(b)
    BY DEF Untouched, vars, Stays
  <2> QED BY <2>1, UntouchedKeeps
<1> QED BY <1>1, <1>2 DEF IInv

LEMMA UserKeeps == ASSUME IInv, NEW a \in Apps, User(a) PROVE IInv'
<1>1. ASSUME NEW r \in Roots, StartOpen(a, r) PROVE IInv'
  BY <1>1, StartOpenKeeps
<1>2. ASSUME NEW r \in Roots, DestinationChosen(a, r) PROVE IInv'
  BY <1>2, DestinationKeeps
<1>3. ASSUME OpenReadOnly(a) PROVE IInv'
  BY <1>3, OpenReadOnlyKeeps
<1>4. ASSUME CancelLockedOpen(a) PROVE IInv'
  BY <1>4, OpenEndsKeeps
<1>5. ASSUME CloseRequested(a) \/ Discard(a) PROVE IInv'
  BY <1>5, ClosingKeeps
<1>6. ASSUME NEW recorded \in BOOLEAN, NewGuide(a, recorded) PROVE IInv'
  BY <1>6, NewGuideKeeps
<1>7. ASSUME Edit(a) PROVE IInv'
  BY <1>7, EditKeeps
<1>8. ASSUME SaveAs(a) \/ PickerCancelled(a) PROVE IInv'
  BY <1>8, PickerKeeps
<1>9. ASSUME NEW close \in BOOLEAN, Save(a, close) PROVE IInv'
  BY <1>9, SaveKeeps
<1> QED BY <1>1, <1>2, <1>3, <1>4, <1>5, <1>6, <1>7, <1>8, <1>9, Zenon DEF User

LEMMA NextKeeps == ASSUME IInv, Next PROVE IInv'
<1>1. PICK a \in Apps : User(a) \/ Open(a) \/ Crash(a) \/ WorkerRuns(a) \/ Delivers(a)
  BY DEF Next
<1>2. CASE User(a)
  BY <1>2, UserKeeps
<1>3. CASE Open(a)
  BY <1>3, OpenLocksKeeps, OpenLoadsKeeps, OpenEndsKeeps DEF Open
<1>4. CASE Crash(a)
  BY <1>4, CrashKeeps
<1>5. CASE WorkerRuns(a)
  BY <1>5, WorkerFailsKeeps, CheckKeeps, CommitKeeps, CreateKeeps, LockNewKeeps, Zenon
  DEF WorkerRuns, WorkerStep
<1>6. CASE Delivers(a)
  BY <1>6, DeliverKeeps DEF Delivers
<1> QED BY <1>1, <1>2, <1>3, <1>4, <1>5, <1>6

(* The invariant of every behaviour, closing during a save, results that   *)
(* meet another workspace and saves of workspaces long closed included.    *)
THEOREM SessionInvariant == Spec => []IInv
<1>1. IInv /\ [Next]_vars => IInv'
  BY NextKeeps, StutterKeeps
<1> QED BY InitInv, <1>1, PTL DEF Spec

(* Every variable keeps its type.                                          *)
THEOREM SessionTypeCorrect == Spec => []TypeOK
<1>1. IInv => TypeOK
  BY DEF IInv
<1> QED BY <1>1, SessionInvariant, PTL

(* Whoever may edit a project holds its lock file, whatever was opened,    *)
(* saved elsewhere or closed in between, unless its own save went adrift   *)
(* or one adrift met it or overwrote its project.                          *)
THEOREM EditorHoldsLock == Spec => []WritableHoldsLock
<1>1. IInv => WritableHoldsLock
  BY DEF IInv, AppInv, FineInv, SessionOK, WritableHoldsLock
<1> QED BY <1>1, SessionInvariant, PTL

(* The lock is held from the first reading of the revision to the rename,  *)
(* and the revision read last is the one that is replaced, for every save  *)
(* whose workspace still waits for it and was not met by another's.        *)
THEOREM SaveIsExclusive == Spec => [](SaverHoldsLock /\ CommitIsCurrent)
<1>1. IInv => SaverHoldsLock /\ CommitIsCurrent
  <2> SUFFICES ASSUME IInv PROVE SaverHoldsLock /\ CommitIsCurrent
    OBVIOUS
  <2>1. SaverHoldsLock
    BY SaverLocks DEF SaverHoldsLock
  <2>2. CommitIsCurrent
    BY SaverLocks, OfWorker DEF CommitIsCurrent, WorkerOK, Reaches
  <2> QED BY <2>1, <2>2
<1> QED BY <1>1, SessionInvariant, PTL

(* What the header of a workspace that is not adrift calls saved is in the *)
(* committed manifest, whatever the workspaces that are adrift write.      *)
THEOREM ShownAsSavedIsSaved == Spec => []CleanIsSaved
<1>1. IInv => CleanIsSaved
  BY DEF IInv, AppInv, FineInv, Local, SessionOK, Contains, CleanIsSaved
<1> QED BY <1>1, SessionInvariant, PTL

-----------------------------------------------------------------------------
(* The store and the lock implement the register.                          *)

(* Giving back locks, some or none, is a release.                          *)
LEMMA ReleasesSome ==
  ASSUME IInv, UNCHANGED disk, adrift \subseteq adrift', adrift' \subseteq Writers,
         lock' \in [Roots -> Writers \cup {NoWriter}],
         \A r \in Roots : lock'[r] \in {lock[r], NoWriter}
  PROVE  Register!RegisterNext
<1>1. Register!Release
  BY DEF Register!Release
<1> QED BY <1>1 DEF Register!RegisterNext

LEMMA NothingMoves ==
  ASSUME IInv, UNCHANGED <<disk, lock>>, adrift \subseteq adrift', adrift' \subseteq Writers
  PROVE  Register!RegisterNext
  BY ReleasesSome DEF IInv, TypeOK

LEMMA AdriftType == IInv => adrift \subseteq Writers
  BY DEF IInv, TypeOK

LEMMA WithoutReleases ==
  ASSUME IInv, NEW H, lock' = Without(H), UNCHANGED disk,
         adrift \subseteq adrift', adrift' \subseteq Writers
  PROVE  Register!RegisterNext
<1>1. lock' \in [Roots -> Writers \cup {NoWriter}] /\ \A r \in Roots : lock'[r] \in {lock[r], NoWriter}
  BY DEF Without, IInv, TypeOK
<1> QED BY <1>1, ReleasesSome

LEMMA CommitCommits ==
  ASSUME IInv, NEW w \in workers, CommitManifest(w) PROVE Register!RegisterNext
<1>0. w.root \in Roots /\ w.gen \in Writers /\ w.edits \in SUBSET Edits /\ UNCHANGED lock
  BY OfWorker DEF CommitManifest
<1>1. CASE w.gen \notin adrift
  <2>1. Register!Commit(w.root)
    BY <1>0, <1>1, CommitWrites, FineCommit DEF Register!Commit
  <2> QED BY <1>0, <2>1 DEF Register!RegisterNext
<1>2. CASE w.gen \in adrift
  <2>1. adrift' = adrift \cup Concerned(w.root) /\ adrift # {}
    BY <1>2 DEF CommitManifest
  <2>2. adrift' \subseteq Writers
    BY <1>0, <2>1, ConcernedOpened, AdriftType
  <2>3. lock[w.root] # NoWriter => lock[w.root] \in adrift'
    BY <1>0, <2>1 DEF Concerned, IInv, TypeOK
  <2>4. disk' = [disk EXCEPT ![w.root] = disk'[w.root]]
    BY <1>0, CommitWrites
  <2>5. disk'[w.root] \in Register!Manifests
    BY CommitWrites DEF Register!Manifests, Manifest
  <2>6. Register!Overwrite(w.root)
    BY <1>0, <2>1, <2>2, <2>3, <2>4, <2>5, CommitWrites DEF Register!Overwrite
  <2> QED BY <1>0, <2>6 DEF Register!RegisterNext
<1> QED BY <1>1, <1>2

LEMMA CreateCreates ==
  ASSUME IInv, NEW w \in workers, CommitNewProject(w), disk[w.root] = NoProject
  PROVE  Register!RegisterNext
<1>1. w.root \in Roots /\ w.edits \in SUBSET Edits
  BY OfWorker
<1>2. Register!Create(w.root)
  BY <1>1, CreateMoves DEF Register!Create, CommitNewProject
<1> QED BY <1>1, <1>2 DEF Register!RegisterNext

LEMMA LocksNew ==
  ASSUME IInv, NEW w \in workers, LockNewProject(w) PROVE Register!RegisterNext
<1>0. /\ UNCHANGED <<disk, adrift>> /\ disk[w.root] # NoProject /\ w.root \in Roots
      /\ w.gen \in Writers /\ adrift \subseteq Writers
  BY OfWorker, AdriftType DEF LockNewProject, IInv, InFlightIsSaved
<1>1. CASE UNCHANGED lock
  BY <1>0, <1>1, NothingMoves
<1>2. CASE ~UNCHANGED lock
  <2>1. /\ lock[w.root] = NoWriter
        /\ lock' = [r \in Roots |->
                       IF r = w.root THEN w.gen
                       ELSE IF r = ws[w.app].slot /\ lock[r] = w.gen THEN NoWriter ELSE lock[r]]
    BY <1>2 DEF LockNewProject, Guards
  <2>2. lock \in [Roots -> Writers \cup {NoWriter}]
    BY DEF IInv, TypeOK
  <2>3. Register!Acquire(w.root, w.gen)
    BY <1>0, <2>1, <2>2 DEF Register!Acquire
  <2> QED BY <1>0, <2>3 DEF Register!RegisterNext
<1> QED BY <1>1, <1>2

LEMMA WorkerImplements ==
  ASSUME IInv, NEW w \in workers, WorkerStep(w) \/ WorkerFails(w)
  PROVE  Register!RegisterNext
<1>1. CASE CommitManifest(w)
  BY <1>1, CommitCommits
<1>2. CASE CommitNewProject(w)
  <2>1. CASE disk[w.root] # NoProject
    BY <1>2, <2>1, NothingMoves, AdriftType DEF CommitNewProject
  <2>2. CASE disk[w.root] = NoProject
    BY <1>2, <2>2, CreateCreates
  <2> QED BY <2>1, <2>2
<1>3. CASE LockNewProject(w)
  BY <1>3, LocksNew
<1>4. CASE CheckRevision(w, "preflight", "recheck") \/ CheckRevision(w, "recheck", "commit")
           \/ WorkerFails(w)
  BY <1>4, NothingMoves, AdriftType DEF CheckRevision, WorkerFails
<1> QED BY <1>1, <1>2, <1>3, <1>4, Zenon DEF WorkerStep

LEMMA DriftType ==
  ASSUME IInv, NEW a \in Apps, ws[a].phase = "timeline"
  PROVE  ws[a].gen \in Writers /\ adrift \cup {ws[a].gen} \subseteq Writers
  BY Shape DEF Basic

LEMMA DeliverImplements == ASSUME IInv, NEW m \in inbox, Deliver(m) PROVE Register!RegisterNext
<1>1. UNCHANGED disk /\ m.app \in Apps /\ adrift \subseteq Writers
  BY OfResult, AdriftType DEF Deliver
<1>2. CASE ws[m.app].phase # "timeline"
  BY <1>1, <1>2, NothingMoves DEF Deliver
<1>3. CASE ws[m.app].phase = "timeline"
  <2>1. adrift \subseteq adrift' /\ adrift' \subseteq Writers
    BY <1>1, <1>3, DriftType DEF Deliver
  <2>2. CASE ws[m.app].closing /\ m.kind # "Failed"
    BY <1>1, <1>3, <2>1, <2>2, WithoutReleases DEF Deliver
  <2>3. CASE ~(ws[m.app].closing /\ m.kind # "Failed")
    <3>1. lock' = LocksAfter(m.app, m)
      BY <1>3, <2>3 DEF Deliver
    <3>2. lock' \in [Roots -> Writers \cup {NoWriter}] /\ \A r \in Roots : lock'[r] \in {lock[r], NoWriter}
      BY <3>1 DEF LocksAfter, IInv, TypeOK
    <3> QED BY <1>1, <2>1, <3>2, ReleasesSome
  <2> QED BY <2>2, <2>3
<1> QED BY <1>2, <1>3

LEMMA CloseReleases ==
  ASSUME IInv, NEW a \in Apps, ws[a].phase = "timeline", Close(a) PROVE Register!RegisterNext
<1>1. adrift \subseteq adrift' /\ adrift' \subseteq Writers
  BY DriftType DEF Close, Drifts
<1> QED BY <1>1, WithoutReleases DEF Close

LEMMA UserImplements == ASSUME IInv, NEW a \in Apps, User(a) PROVE Register!RegisterNext
<1>0. adrift \subseteq Writers
  BY AdriftType
<1>1. ASSUME NEW r \in Roots, StartOpen(a, r) PROVE Register!RegisterNext
  BY <1>0, <1>1, NothingMoves DEF StartOpen
<1>2. ASSUME NEW r \in Roots, DestinationChosen(a, r) PROVE Register!RegisterNext
  <2>1. adrift \subseteq adrift' /\ adrift' \subseteq Writers
    BY <1>0, <1>2, DriftType DEF DestinationChosen, Drifts
  <2> QED BY <1>2, <2>1, NothingMoves DEF DestinationChosen
<1>3. ASSUME OpenReadOnly(a) \/ CancelLockedOpen(a) \/ Edit(a) \/ SaveAs(a) \/ PickerCancelled(a)
      PROVE  Register!RegisterNext
  BY <1>0, <1>3, NothingMoves DEF OpenReadOnly, CancelLockedOpen, Edit, SaveAs, PickerCancelled
<1>4. ASSUME NEW recorded \in BOOLEAN, NewGuide(a, recorded) PROVE Register!RegisterNext
  BY <1>0, <1>4, NothingMoves DEF NewGuide
<1>5. ASSUME NEW close \in BOOLEAN, Save(a, close) PROVE Register!RegisterNext
  BY <1>0, <1>5, NothingMoves DEF Save
<1>6. ASSUME CloseRequested(a) \/ Discard(a) PROVE Register!RegisterNext
  <2>1. CASE Close(a)
    BY <1>6, <2>1, CloseReleases DEF CloseRequested, Discard
  <2>2. CASE ~Close(a)
    BY <1>0, <1>6, <2>2, NothingMoves DEF CloseRequested, Discard
  <2> QED BY <2>1, <2>2
<1> QED BY <1>1, <1>2, <1>3, <1>4, <1>5, <1>6, Zenon DEF User

LEMMA OpenImplements == ASSUME IInv, NEW a \in Apps, Open(a) PROVE Register!RegisterNext
<1>0. adrift \subseteq Writers
  BY AdriftType
<1>1. CASE OpenLocks(a)
  <2>1. /\ ws[a].phase = "opening" /\ ws[a].root \in Roots /\ ws[a].gen \in Writers
        /\ disk[ws[a].root] # NoProject
    BY <1>1, Shape DEF OpenLocks, Basic
  <2>2. CASE lock[ws[a].root] = NoWriter
    <3>1. lock \in [Roots -> Writers \cup {NoWriter}]
          /\ lock' = [lock EXCEPT ![ws[a].root] = ws[a].gen] /\ UNCHANGED <<disk, adrift>>
      BY <1>1, <2>2 DEF OpenLocks, IInv, TypeOK
    <3>2. Register!Acquire(ws[a].root, ws[a].gen)
      BY <2>1, <2>2, <3>1 DEF Register!Acquire
    <3> QED BY <2>1, <3>2 DEF Register!RegisterNext
  <2>3. CASE lock[ws[a].root] # NoWriter
    BY <1>0, <1>1, <2>3, NothingMoves DEF OpenLocks
  <2> QED BY <2>2, <2>3
<1>2. CASE OpenLoads(a)
  BY <1>0, <1>2, NothingMoves DEF OpenLoads
<1>3. CASE OpenFails(a)
  BY <1>0, <1>3, WithoutReleases DEF OpenFails
<1> QED BY <1>1, <1>2, <1>3 DEF Open

LEMMA NextImplements == ASSUME IInv, Next PROVE Register!RegisterNext
<1>1. PICK a \in Apps : User(a) \/ Open(a) \/ Crash(a) \/ WorkerRuns(a) \/ Delivers(a)
  BY DEF Next
<1>2. CASE User(a)
  BY <1>2, UserImplements
<1>3. CASE Open(a)
  BY <1>3, OpenImplements
<1>4. CASE Crash(a)
  BY <1>4, WithoutReleases, AdriftType DEF Crash
<1>5. CASE WorkerRuns(a)
  BY <1>5, WorkerImplements, Zenon DEF WorkerRuns
<1>6. CASE Delivers(a)
  BY <1>6, DeliverImplements DEF Delivers
<1> QED BY <1>1, <1>2, <1>3, <1>4, <1>5, <1>6

(* The save transactions and the advisory lock together are a register     *)
(* with one writer: no commit is lost, no project replaced, no revision    *)
(* skipped, and only the holder of the lock commits.  A save that is adrift *)
(* is the one exception: it can overwrite, and whoever holds the lock it   *)
(* passed by is adrift from then on.                                       *)
THEOREM SessionImplementsRegister == Spec => SingleWriterRegister
<1>1. Init => Register!RegisterInit
  BY DEF Init, Register!RegisterInit
<1>2. IInv /\ [Next]_vars => [Register!RegisterNext]_(Register!register)
  BY NextImplements DEF vars, Register!register
<1> QED BY <1>1, <1>2, SessionInvariant, PTL DEF Spec, SingleWriterRegister, Register!RegisterSpec
=============================================================================
