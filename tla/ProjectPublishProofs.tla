------------------------ MODULE ProjectPublishProofs ------------------------
(***************************************************************************)
(* Proofs about ProjectPublish, for every number of revisions, workspaces, *)
(* operations, workers and derivatives: whatever fails, dies or comes late *)
(* in between, what is called current was rendered from the saved project, *)
(* and what is shown as being updated has a worker.                        *)
(***************************************************************************)
EXTENDS ProjectPublish, FiniteSetTheorems, SequenceTheorems, TLAPS

(* The workspace is one that was opened, an operation that is served is    *)
(* about the revision it is based on, and there is room for what is saved. *)
Opened ==
    /\ ws.open => ws.gen # 0
    /\ ws.op.id # 0 => ws.open
    /\ ws.op.id # 0 /\ ws.op.served => ws.op.rev = ws.base
    /\ \A i \in 1..MaxSaves : saves[i].pc # "none" => saves[i].base < MaxRevision

(* The last thing a worker that is done says is that it has finished.      *)
Ending(w) == w.pc = "done" => w.out # <<>> /\ w.out[Len(w.out)].name = "Finished"

Endings == \A w \in workers : Ending(w)

(* The state file never runs ahead of the files that are there.            *)
Behind(files, state) == \A k \in Kinds : files[k] # 0 => state[k] <= files[k]

Until(files, rev) == \A k \in Kinds : files[k] <= rev

Saved ==
    /\ Behind(publish, recorded)
    /\ Until(publish, project.rev) /\ Until(recorded, project.rev)

(* One worker commits at a time, and what it can put back, or has put      *)
(* there, is of its revision or older.                                     *)
Alone == \A v, w \in workers : v.pc \in Holding /\ w.pc \in Holding => v = w

Commits(w) ==
    /\ w.rev <= project.rev
    /\ Until(publish, w.rev) /\ Until(recorded, w.rev)
    /\ w.pc = "install" => Until(w.old, w.rev) /\ Behind(w.old, recorded)
    /\ w.pc = "gate_install" =>
          /\ publish = Nothing
          /\ Until(w.old, w.rev) /\ Until(w.record, w.rev) /\ Behind(w.old, w.record)
    /\ w.pc = "record" => publish[Core] = w.rev

Committing == \A w \in workers : w.pc \in Holding => Commits(w)
-----------------------------------------------------------------------------
(* Constants, outputs and events.                                          *)
LEMMA Constants ==
    /\ MaxOpens \in Nat /\ MaxRevision \in Nat \ {0} /\ Revisions \subseteq Nat
    /\ Core \in Kinds /\ Derivatives \subseteq Kinds /\ IsFiniteSet(Kinds)
    /\ 0 \in Revisions
    /\ Budgets \subseteq [1..MaxOpens -> Nat]
<1>1. IsFiniteSet(Derivatives)
  BY PublishAssumption DEF PublishAssumption
<1>2. Core \in Kinds /\ Derivatives \subseteq Kinds /\ IsFiniteSet(Kinds)
  BY <1>1, FS_AddElement DEF Kinds
<1> QED
  BY <1>2, PublishAssumption DEF PublishAssumption, Revisions

LEMMA NothingHolds == Nothing \in Outputs /\ \A k \in Kinds : Nothing[k] = 0
BY Constants DEF Nothing, Outputs, Revisions

LEMMA CommittedHolds ==
    ASSUME NEW K \in SUBSET Kinds
    PROVE  Committed(K) \in Seq(Event)
<1>1. PICK S : S = {[name |-> "Committed", kind |-> k] : k \in K}
  OBVIOUS
<1>2. S \subseteq Event
  BY <1>1 DEF Event
<1>3. IsFiniteSet(S)
  <2>1. IsFiniteSet(K)
    BY Constants, FS_Subset
  <2>2. PICK f \in [K -> S] : \A k \in K : f[k] = [name |-> "Committed", kind |-> k]
    <3>1. [k \in K |-> [name |-> "Committed", kind |-> k]] \in [K -> S]
      BY <1>1
    <3> QED
      BY <3>1
  <2>3. f \in Surjection(K, S)
    BY <1>1, <2>2 DEF Surjection
  <2> QED
    BY <2>1, <2>3, FS_Surjection
<1>4. PICK f \in [1..Cardinality(S) -> S] : IsInjective(f)
  <2>1. Cardinality(S) \in Nat /\ \E n \in Nat : ExistsBijection(1..n, S)
    BY <1>3, FS_CardinalityType, FS_NatBijection
  <2>2. ExistsBijection(1..Cardinality(S), S)
    BY <1>3, FS_CardinalityType
  <2> QED
    BY <2>2 DEF ExistsBijection, Bijection, Injection, IsInjective
<1>5. Committed(K) = CHOOSE g \in [1..Cardinality(S) -> S] : IsInjective(g)
  BY <1>1 DEF Committed, SetToSeq
<1>6. Committed(K) \in [1..Cardinality(S) -> S]
  BY <1>4, <1>5
<1>7. Cardinality(S) \in Nat
  BY <1>3, FS_CardinalityType
<1> QED
  BY <1>2, <1>6, <1>7

-----------------------------------------------------------------------------
(* What the workers do.  A worker stays the worker of its operation.       *)
Like(x, w) == x \in Worker /\ x.gen = w.gen /\ x.id = w.id /\ x.rev = w.rev /\ x.gate = w.gate

LEMMA GotoIs ==
    ASSUME NEW w \in Worker, NEW pc \in PCs
    PROVE  LET x == Goto(w, pc) IN
           /\ Like(x, w) /\ x.pc = pc /\ x.old = w.old /\ x.record = w.record /\ x.out = w.out
           /\ x.todo = w.todo
BY DEF Goto, Like, Worker

LEMMA EmitIs ==
    ASSUME NEW w \in Worker, NEW e \in Seq(Event)
    PROVE  LET x == Emit(w, e) IN
           /\ Like(x, w) /\ x.pc = w.pc /\ x.old = w.old /\ x.record = w.record
<1>1. w.out \o e \in Seq(Event)
  BY DEF Worker
<1>2. PICK out : out = w.out \o e
  OBVIOUS
<1>3. Emit(w, e) = [w EXCEPT !.out = out]
  BY <1>2 DEF Emit
<1> QED
  BY <1>1, <1>2, <1>3 DEF Like, Worker

LEMMA PutAsideIs ==
    ASSUME NEW w \in Worker, NEW old \in Outputs
    PROVE  LET x == [w EXCEPT !.old = old] IN
           /\ Like(x, w) /\ x.pc = w.pc /\ x.old = old /\ x.record = w.record
BY DEF Like, Worker

LEMMA EndIs ==
    ASSUME NEW w \in Worker
    PROVE  LET x == End(w) IN Like(x, w) /\ x.pc = "done" /\ Ending(x)
<1>1. PICK e : e = [name |-> "Finished", kind |-> Core]
  OBVIOUS
<1>2. e \in Event /\ e.name = "Finished" /\ Core \in Kinds
  BY <1>1, Constants DEF Event
<1>3. PICK out : out = w.out \o <<e>>
  OBVIOUS
<1>4. w.out \in Seq(Event)
  BY DEF Worker
<1>5. out \in Seq(Event) /\ out # <<>> /\ out[Len(out)] = e
  BY <1>2, <1>3, <1>4
<1>6. PICK x : x = End(w)
  OBVIOUS
<1>7. x = [w EXCEPT !.pc = "done", !.todo = {}, !.kind = Core, !.old = Nothing,
                    !.record = Nothing, !.cancelled = FALSE, !.out = out]
  BY <1>1, <1>3, <1>6 DEF End
<1>8. Like(x, w) /\ x.pc = "done" /\ x.out = out
  BY <1>2, <1>5, <1>7, NothingHolds DEF Like, Worker, PCs
<1> QED
  BY <1>2, <1>5, <1>6, <1>8 DEF Ending

(* What one worker did, seen from the files, the state file and the lock.  *)
Rests(w, x) == x.pc \notin Holding /\ UNCHANGED <<publish, recorded>>

Locks(w, x) ==
    /\ x.pc \in {"aside", "file", "gate_aside"} /\ w.pc \notin Holding
    /\ project.rev = w.rev /\ ~Held(w.gen)
    /\ Prompt => \A v \in workers : v.pc \notin Holding
    /\ UNCHANGED <<publish, recorded>>

Swaps(w, x) ==
    \/ /\ w.pc = "aside" /\ x.pc = "install" /\ x.old = publish
       /\ publish' = Nothing /\ UNCHANGED recorded
    \/ /\ w.pc = "install" /\ x.pc \in {"record", "done"}
       /\ publish' = NewFolder(w) /\ UNCHANGED recorded
    \/ /\ w.pc = "install" /\ x.pc = "done"
       /\ publish' \in {w.old, publish} /\ UNCHANGED recorded

Notes(w, x) ==
    \/ /\ w.pc = "record" /\ x.pc = "outputs" /\ UNCHANGED publish
       /\ Record([Reconciled EXCEPT ![Core] = w.rev])
    \/ /\ w.pc = "file" /\ x.pc = "outputs"
       /\ \E k \in Kinds : /\ publish' = [publish EXCEPT ![k] = w.rev]
                           /\ recorded' \in {recorded, [Reconciled EXCEPT ![k] = w.rev]}

Gates(w, x) ==
    \/ /\ w.pc = "gate_aside" /\ x.pc = "gate_install"
       /\ x.old = publish /\ x.record = recorded
       /\ publish' = Nothing /\ recorded' = Nothing
    \/ /\ w.pc = "gate_install" /\ x.pc = "done"
       /\ publish' = [k \in Kinds |-> IF k \in w.todo THEN w.rev ELSE 0]
       /\ recorded' = publish'
    \/ /\ w.pc = "gate_install" /\ x.pc = "done"
       /\ publish' = (IF publish = Nothing THEN w.old ELSE publish) /\ recorded' = w.record

Moves(w, x) ==
    /\ Step(w, x) /\ Like(x, w) /\ Ending(x) /\ UNCHANGED Disk
    /\ Rests(w, x) \/ Locks(w, x) \/ Swaps(w, x) \/ Notes(w, x) \/ Gates(w, x)

LEMMA FailedHolds ==
    ASSUME NEW k \in Kinds
    PROVE  Failed(k) \in Seq(Event)
<1>1. [name |-> "Failed", kind |-> k] \in Event
  BY DEF Event
<1> QED
  BY <1>1 DEF Failed

LEMMA RenderingIs ==
    ASSUME TypeOK, NEW w \in workers, Start(w) \/ RenderCore(w) \/ RenderGate(w)
    PROVE  \E x : Moves(w, x)
<1>1. w \in Worker /\ Core \in Kinds
  BY Constants DEF TypeOK
<1>2. PICK x : /\ Step(w, x) /\ UNCHANGED <<Disk, publish, recorded>>
               /\ \/ x = End(w) \/ x = End(Emit(w, Failed(Core)))
                  \/ \E pc \in {"core", "outputs", "core_check", "gate_check"} : x = Goto(w, pc)
  <2>1. CASE Start(w)
    BY <2>1 DEF Start
  <2>2. CASE RenderCore(w)
    BY <2>2 DEF RenderCore
  <2>3. CASE RenderGate(w)
    BY <2>3 DEF RenderGate
  <2> QED
    BY <2>1, <2>2, <2>3
<1>3. Like(x, w) /\ Ending(x) /\ x.pc \notin Holding
  <2>1. CASE x = End(w)
    BY <1>1, <2>1, EndIs DEF Holding
  <2>2. CASE x = End(Emit(w, Failed(Core)))
    <3>1. PICK y : y = Emit(w, Failed(Core))
      OBVIOUS
    <3>2. Like(y, w)
      BY <1>1, <3>1, EmitIs, FailedHolds
    <3>3. Like(x, y) /\ x.pc = "done" /\ Ending(x)
      BY <2>2, <3>1, <3>2, EndIs DEF Like
    <3> QED
      BY <3>2, <3>3 DEF Like, Holding
  <2>3. ASSUME NEW pc \in {"core", "outputs", "core_check", "gate_check"}, x = Goto(w, pc)
        PROVE  Like(x, w) /\ Ending(x) /\ x.pc \notin Holding
    <3>1. Like(x, w) /\ x.pc = pc
      BY <1>1, <2>3, GotoIs DEF PCs
    <3> QED
      BY <3>1 DEF Ending, Holding
  <2> QED
    BY <1>2, <2>1, <2>2, <2>3
<1> QED
  BY <1>2, <1>3 DEF Moves, Rests

LEMMA CheckIs ==
    ASSUME TypeOK, NEW w \in workers, NEW from \in PCs \ Holding,
           NEW to \in {"aside", "file", "gate_aside"}, Check(w, from, to)
    PROVE  \E x : Moves(w, x)
<1>1. w \in Worker /\ to \in PCs /\ to # "done"
  BY DEF TypeOK, PCs, Holding
<1>2. /\ w.pc = from /\ ~Held(w.gen) /\ UNCHANGED <<Disk, publish, recorded>>
      /\ Prompt => \A x \in workers : x.pc \notin Holding
      /\ Step(w, IF MayCommit(w) THEN Goto(w, to) ELSE End(w))
  BY DEF Check
<1>3. CASE MayCommit(w)
  <2>1. PICK x : x = Goto(w, to)
    OBVIOUS
  <2>2. Like(x, w) /\ x.pc = to
    BY <1>1, <2>1, GotoIs
  <2>3. Step(w, x)
    BY <1>2, <1>3, <2>1
  <2> QED
    BY <1>1, <1>2, <1>3, <2>2, <2>3 DEF Moves, Locks, Ending, MayCommit
<1>4. CASE ~MayCommit(w)
  <2>1. PICK x : x = End(w)
    OBVIOUS
  <2>2. Like(x, w) /\ x.pc = "done" /\ Ending(x)
    BY <1>1, <2>1, EndIs
  <2>3. Step(w, x)
    BY <1>2, <1>4, <2>1
  <2> QED
    BY <1>2, <2>2, <2>3 DEF Moves, Rests, Holding
<1> QED
  BY <1>3, <1>4

LEMMA SwapAsideIs ==
    ASSUME TypeOK, NEW w \in workers, SwapAside(w)
    PROVE  \E x : Moves(w, x)
<1>1. w \in Worker /\ publish \in Outputs /\ w.pc = "aside" /\ "install" \in PCs
  BY DEF TypeOK, SwapAside, PCs, Holding
<1>2. PICK y, x : y = Goto(w, "install") /\ x = [y EXCEPT !.old = publish]
  OBVIOUS
<1>3. Like(y, w) /\ y.pc = "install"
  BY <1>1, <1>2, GotoIs
<1>4. Like(x, y) /\ x.pc = "install" /\ x.old = publish
  BY <1>1, <1>2, <1>3, PutAsideIs DEF Like
<1>5. CASE publish' = Nothing /\ Step(w, x) /\ UNCHANGED <<Disk, recorded>>
  <2>1. Moves(w, x)
    BY <1>1, <1>3, <1>4, <1>5 DEF Moves, Swaps, Like, Ending
  <2> QED
    BY <2>1
<1>6. CASE Step(w, End(w)) /\ UNCHANGED <<Disk, publish, recorded>>
  BY <1>1, <1>6, EndIs DEF Moves, Rests, Holding
<1> QED
  BY <1>2, <1>5, <1>6 DEF SwapAside

LEMMA SwapInstallIs ==
    ASSUME TypeOK, NEW w \in workers, SwapInstall(w)
    PROVE  \E x : Moves(w, x)
<1>1. w \in Worker /\ w.pc = "install" /\ UNCHANGED <<Disk, recorded>> /\ "record" \in PCs
  BY DEF TypeOK, SwapInstall, PCs, Holding
<1>2. PICK x, z : x = Goto(w, "record") /\ z = End(w)
  OBVIOUS
<1>3. Like(x, w) /\ x.pc = "record" /\ Ending(x)
  BY <1>1, <1>2, GotoIs DEF Ending
<1>4. Like(z, w) /\ z.pc = "done" /\ Ending(z)
  BY <1>1, <1>2, EndIs
<1>5. \/ publish' = NewFolder(w) /\ (Step(w, x) \/ Step(w, z))
      \/ publish' \in {w.old, publish} /\ Step(w, z)
  BY <1>2 DEF SwapInstall
<1>6. CASE publish' = NewFolder(w) /\ Step(w, x)
  <2>1. Moves(w, x)
    BY <1>1, <1>3, <1>6 DEF Moves, Swaps
  <2> QED
    BY <2>1
<1>7. CASE publish' \in {NewFolder(w), w.old, publish} /\ Step(w, z)
  <2>1. Moves(w, z)
    BY <1>1, <1>4, <1>7 DEF Moves, Swaps
  <2> QED
    BY <2>1
<1> QED
  BY <1>5, <1>6, <1>7

LEMMA RecordCoreIs ==
    ASSUME TypeOK, NEW w \in workers, RecordCore(w)
    PROVE  \E x : Moves(w, x)
<1>1. /\ w \in Worker /\ w.pc = "record" /\ UNCHANGED <<Disk, publish>> /\ "outputs" \in PCs
      /\ Record([Reconciled EXCEPT ![Core] = w.rev])
  BY DEF TypeOK, RecordCore, PCs
<1>2. PICK y, z, x : /\ y = Goto(w, "outputs") /\ z = [y EXCEPT !.old = Nothing]
                     /\ x = Emit(z, Committed({Core}))
  OBVIOUS
<1>3. Like(y, w) /\ y.pc = "outputs"
  BY <1>1, <1>2, GotoIs
<1>4. Like(z, y) /\ z.pc = "outputs"
  BY <1>2, <1>3, PutAsideIs, NothingHolds DEF Like
<1>5. Committed({Core}) \in Seq(Event)
  BY CommittedHolds, Constants
<1>6. Like(x, z) /\ x.pc = "outputs"
  BY <1>2, <1>4, <1>5, EmitIs DEF Like
<1>7. Step(w, x)
  BY <1>2 DEF RecordCore
<1>8. Moves(w, x)
  BY <1>1, <1>3, <1>4, <1>6, <1>7 DEF Moves, Notes, Like, Ending
<1> QED
  BY <1>8

LEMMA NextOutputIs ==
    ASSUME TypeOK, NEW w \in workers, NextOutput(w)
    PROVE  \E x : Moves(w, x)
<1>1. w \in Worker /\ w.pc = "outputs" /\ UNCHANGED <<Disk, publish, recorded>>
      /\ "file_check" \in PCs
  BY DEF TypeOK, NextOutput, PCs
<1>2. CASE Step(w, End(w))
  BY <1>1, <1>2, EndIs DEF Moves, Rests, Holding
<1>3. ASSUME NEW k \in w.todo \ {Core}, NEW rest,
             rest = [w EXCEPT !.todo = @ \ {k}, !.kind = k],
             \/ Step(w, rest) \/ Step(w, Goto(rest, "file_check"))
             \/ Step(w, Emit(rest, Failed(k)))
      PROVE  \E x : Moves(w, x)
  <2>1. PICK todo : todo = w.todo \ {k}
    OBVIOUS
  <2>2. w.todo \in SUBSET Kinds
    BY <1>1 DEF Worker
  <2>3. k \in Kinds /\ todo \in SUBSET Kinds
    BY <1>3, <2>1, <2>2
  <2>4. rest = [w EXCEPT !.todo = todo, !.kind = k]
    BY <1>3, <2>1
  <2>5. Like(rest, w) /\ rest.pc = "outputs"
    BY <1>1, <2>3, <2>4 DEF Like, Worker
  <2>6. CASE Step(w, rest)
    BY <1>1, <2>5, <2>6 DEF Moves, Rests, Holding, Ending
  <2>7. CASE Step(w, Goto(rest, "file_check"))
    <3>1. PICK x : x = Goto(rest, "file_check")
      OBVIOUS
    <3>2. Like(x, rest) /\ x.pc = "file_check"
      BY <1>1, <2>5, <3>1, GotoIs DEF Like
    <3>3. Moves(w, x)
      BY <1>1, <2>5, <2>7, <3>1, <3>2 DEF Moves, Rests, Holding, Ending, Like
    <3> QED
      BY <3>3
  <2>8. CASE Step(w, Emit(rest, Failed(k)))
    <3>1. PICK x : x = Emit(rest, Failed(k))
      OBVIOUS
    <3>2. Like(x, rest) /\ x.pc = "outputs"
      BY <2>3, <2>5, <3>1, EmitIs, FailedHolds DEF Like
    <3>3. Moves(w, x)
      BY <1>1, <2>5, <2>8, <3>1, <3>2 DEF Moves, Rests, Holding, Ending, Like
    <3> QED
      BY <3>3
  <2> QED
    BY <1>3, <2>6, <2>7, <2>8
<1>4. CASE ~(w.todo \subseteq {Core} \/ w.cancelled)
  <2>1. PICK k \in w.todo \ {Core} :
             LET rest == [w EXCEPT !.todo = @ \ {k}, !.kind = k]
             IN  \/ Step(w, rest) \/ Step(w, Goto(rest, "file_check"))
                 \/ Step(w, Emit(rest, Failed(k)))
    BY <1>4 DEF NextOutput
  <2> QED
    BY <1>3, <2>1
<1> QED
  BY <1>2, <1>4 DEF NextOutput

LEMMA CommitOutputIs ==
    ASSUME TypeOK, NEW w \in workers, CommitOutput(w)
    PROVE  \E x : Moves(w, x)
<1>1. PICK k : k = w.kind
  OBVIOUS
<1>2. /\ w \in Worker /\ k \in Kinds /\ w.pc = "file" /\ UNCHANGED Disk
      /\ "outputs" \in PCs
  BY <1>1 DEF TypeOK, Worker, CommitOutput, PCs
<1>3. PICK next : next = Goto(w, "outputs")
  OBVIOUS
<1>4. Like(next, w) /\ next.pc = "outputs"
  BY <1>2, <1>3, GotoIs
<1>5. CASE /\ publish' = [publish EXCEPT ![k] = w.rev]
           /\ recorded' \in {recorded, [Reconciled EXCEPT ![k] = w.rev]}
           /\ Step(w, Emit(next, Committed({k})))
  <2>1. PICK x : x = Emit(next, Committed({k}))
    OBVIOUS
  <2>2. Committed({k}) \in Seq(Event)
    BY <1>2, CommittedHolds
  <2>3. Like(x, next) /\ x.pc = "outputs"
    BY <1>4, <2>1, <2>2, EmitIs DEF Like
  <2>4. Moves(w, x)
    BY <1>2, <1>4, <1>5, <2>1, <2>3 DEF Moves, Notes, Like, Ending
  <2> QED
    BY <2>4
<1>6. CASE UNCHANGED <<publish, recorded>> /\ Step(w, Emit(next, Failed(k)))
  <2>1. PICK x : x = Emit(next, Failed(k))
    OBVIOUS
  <2>2. Like(x, next) /\ x.pc = "outputs"
    BY <1>2, <1>4, <2>1, EmitIs, FailedHolds DEF Like
  <2>3. Moves(w, x)
    BY <1>2, <1>4, <1>6, <2>1, <2>2 DEF Moves, Rests, Holding, Like, Ending
  <2> QED
    BY <2>3
<1> QED
  BY <1>1, <1>3, <1>5, <1>6 DEF CommitOutput

LEMMA GateAsideIs ==
    ASSUME TypeOK, NEW w \in workers, GateAside(w)
    PROVE  \E x : Moves(w, x)
<1>1. /\ w \in Worker /\ publish \in Outputs /\ recorded \in Outputs
      /\ w.pc = "gate_aside" /\ UNCHANGED Disk /\ "gate_install" \in PCs
  BY DEF TypeOK, GateAside, PCs, Holding
<1>2. PICK y, x : /\ y = Goto(w, "gate_install")
                  /\ x = [y EXCEPT !.old = publish, !.record = recorded]
  OBVIOUS
<1>3. Like(y, w) /\ y.pc = "gate_install"
  BY <1>1, <1>2, GotoIs
<1>4. Like(x, y) /\ x.pc = "gate_install" /\ x.old = publish /\ x.record = recorded
  BY <1>1, <1>2, <1>3 DEF Like, Worker
<1>5. CASE publish' = Nothing /\ recorded' = Nothing /\ Step(w, x)
  <2>1. Moves(w, x)
    BY <1>1, <1>3, <1>4, <1>5 DEF Moves, Gates, Like, Ending
  <2> QED
    BY <2>1
<1>6. CASE Step(w, End(w)) /\ UNCHANGED <<publish, recorded>>
  BY <1>1, <1>6, EndIs DEF Moves, Rests, Holding
<1> QED
  BY <1>2, <1>5, <1>6 DEF GateAside

LEMMA GateInstallIs ==
    ASSUME TypeOK, NEW w \in workers, GateInstall(w)
    PROVE  \E x : Moves(w, x)
<1>1. PICK new, events :
           /\ new = [k \in Kinds |-> IF k \in w.todo THEN w.rev ELSE 0]
           /\ events = Committed({Core}) \o Committed(w.todo \ {Core})
  OBVIOUS
<1>2. w \in Worker /\ w.pc = "gate_install" /\ UNCHANGED Disk /\ w.todo \in SUBSET Kinds
  BY DEF TypeOK, Worker, GateInstall
<1>3. events \in Seq(Event)
  <2>1. Committed({Core}) \in Seq(Event)
    BY CommittedHolds, Constants
  <2>2. Committed(w.todo \ {Core}) \in Seq(Event)
    BY <1>2, CommittedHolds
  <2>3. PICK s, t : s = Committed({Core}) /\ t = Committed(w.todo \ {Core})
    OBVIOUS
  <2>4. s \o t \in Seq(Event)
    BY <2>1, <2>2, <2>3
  <2> QED
    BY <1>1, <2>3, <2>4
<1>4. CASE publish' = new /\ recorded' = new /\ Step(w, End(Emit(w, events)))
  <2>1. PICK y, x : y = Emit(w, events) /\ x = End(y)
    OBVIOUS
  <2>2. Like(y, w)
    BY <1>2, <1>3, <2>1, EmitIs
  <2>3. Like(x, y) /\ x.pc = "done" /\ Ending(x)
    BY <2>1, <2>2, EndIs DEF Like
  <2>4. Moves(w, x)
    BY <1>1, <1>2, <1>4, <2>1, <2>2, <2>3 DEF Moves, Gates, Like
  <2> QED
    BY <2>4
<1>5. CASE /\ publish' = (IF publish = Nothing THEN w.old ELSE publish)
           /\ recorded' = w.record /\ Step(w, End(w))
  BY <1>2, <1>5, EndIs DEF Moves, Gates
<1> QED
  BY <1>1, <1>4, <1>5 DEF GateInstall

LEMMA WorkerStepIs ==
    ASSUME TypeOK, NEW w \in workers, WorkerStep(w)
    PROVE  \E x : Moves(w, x)
<1>1. /\ "core_check" \in PCs \ Holding /\ "file_check" \in PCs \ Holding
      /\ "gate_check" \in PCs \ Holding
  BY DEF PCs, Holding
<1> QED
  BY <1>1, RenderingIs, CheckIs, SwapAsideIs, SwapInstallIs, RecordCoreIs, NextOutputIs,
     CommitOutputIs, GateAsideIs, GateInstallIs DEF WorkerStep

-----------------------------------------------------------------------------
(* What the workers do to the files and to the state file.                 *)
Records == TypeOK /\ Opened /\ Endings /\ UpdatingHasWorker

OnDisk == Saved /\ Alone /\ Committing

LEMMA MovesKeepRecords ==
    ASSUME Records, NEW w \in workers, NEW x, Moves(w, x), UNCHANGED budget
    PROVE  Records'
<1> USE DEF Records
<1>1. /\ w \in Worker /\ x \in Worker /\ Ending(x) /\ UNCHANGED Disk
      /\ x.gen = w.gen /\ x.id = w.id /\ x.rev = w.rev
      /\ workers' = (workers \ {w}) \cup {x}
  BY DEF TypeOK, Moves, Step, Like
<1>2. w.old \in Outputs /\ w.record \in Outputs /\ w.rev \in Revisions
  BY <1>1 DEF Worker
<1>3. publish \in Outputs /\ recorded \in Outputs /\ Nothing \in Outputs /\ 0 \in Revisions
  BY NothingHolds, Constants DEF TypeOK, Revisions
<1>4. Reconciled \in Outputs
  BY <1>3 DEF Reconciled, Outputs
<1>5. \A k \in Kinds : /\ [publish EXCEPT ![k] = w.rev] \in Outputs
                       /\ [Reconciled EXCEPT ![k] = w.rev] \in Outputs
  BY <1>2, <1>3, <1>4 DEF Outputs
<1>6. NewFolder(w) \in Outputs
  BY <1>2, <1>3, Constants DEF NewFolder, Outputs
<1>7. [k \in Kinds |-> IF k \in w.todo THEN w.rev ELSE 0] \in Outputs
  BY <1>2, <1>3 DEF Outputs
<1>8. publish' \in Outputs /\ recorded' \in Outputs
  <2>1. CASE Rests(w, x) \/ Locks(w, x)
    BY <2>1, <1>3 DEF Rests, Locks
  <2>2. CASE Swaps(w, x)
    BY <2>2, <1>2, <1>3, <1>6 DEF Swaps
  <2>3. CASE Notes(w, x)
    BY <2>3, <1>3, <1>5, Constants DEF Notes, Record
  <2>4. CASE Gates(w, x)
    BY <2>4, <1>2, <1>3, <1>7 DEF Gates
  <2> QED
    BY <2>1, <2>2, <2>3, <2>4 DEF Moves
<1>9. TypeOK'
  BY <1>1, <1>8 DEF TypeOK, Disk
<1>10. Opened'
  BY <1>1 DEF Opened, Disk
<1>11. Endings'
  BY <1>1 DEF Endings, Ending
<1>12. UpdatingHasWorker'
  BY <1>1 DEF UpdatingHasWorker, Disk
<1> QED
  BY <1>9, <1>10, <1>11, <1>12

LEMMA MovesKeepOnDisk ==
    ASSUME Prompt \/ MaxOpens <= 1, Records, OnDisk, NEW w \in workers, NEW x, Moves(w, x)
    PROVE  OnDisk'
<1> USE DEF Records, OnDisk
<1>1. /\ w \in Worker /\ x \in Worker /\ project' = project
      /\ x.gen = w.gen /\ x.rev = w.rev
      /\ workers' = (workers \ {w}) \cup {x}
  BY DEF TypeOK, Moves, Step, Like, Disk
<1>2. /\ w.old \in [Kinds -> Nat] /\ w.record \in [Kinds -> Nat] /\ w.rev \in Nat
      /\ publish \in [Kinds -> Nat] /\ recorded \in [Kinds -> Nat] /\ project.rev \in Nat
      /\ Core \in Kinds
  <2>1. Revisions \subseteq Nat /\ 1..MaxRevision \subseteq Nat
    BY Constants
  <2> QED
    BY <2>1, <1>1, Constants DEF TypeOK, Worker, Outputs
<1>3. CASE Rests(w, x)
  <2>1. Saved'
    BY <1>1, <1>3 DEF Saved, Behind, Until, Rests
  <2>2. Alone'
    BY <1>1, <1>3 DEF Alone, Rests
  <2>3. Committing'
    BY <1>1, <1>3 DEF Committing, Commits, Until, Behind, Rests
  <2> QED
    BY <2>1, <2>2, <2>3
<1>4. CASE Locks(w, x)
  <2>1. \A v \in workers : v.pc \notin Holding
    <3>1. CASE Prompt
      BY <1>4, <3>1 DEF Locks
    <3>2. CASE MaxOpens <= 1
      <4>1. \A v \in workers : v.gen \in 1..MaxOpens
        BY DEF TypeOK, Worker
      <4>2. \A v \in workers : v.gen = w.gen
        BY <3>2, <4>1, Constants
      <4> QED
        BY <1>4, <4>2 DEF Locks, Held
    <3> QED
      BY <3>1, <3>2
  <2>2. Saved'
    BY <1>1, <1>4 DEF Saved, Behind, Until, Locks
  <2>3. Alone'
    BY <1>1, <2>1 DEF Alone
  <2>4. Commits(x)'
    BY <1>1, <1>2, <1>4 DEF Commits, Saved, Locks, Until
  <2>5. Committing'
    BY <1>1, <2>1, <2>4 DEF Committing
  <2> QED
    BY <2>2, <2>3, <2>5
<1>5. ASSUME w.pc \in Holding, Saved', x.pc \in Holding => Commits(x)'
      PROVE  OnDisk'
  <2>1. \A v \in workers \ {w} : v.pc \notin Holding
    BY <1>5 DEF Alone
  <2>2. Alone'
    BY <1>1, <2>1 DEF Alone
  <2>3. Committing'
    BY <1>1, <1>5, <2>1 DEF Committing
  <2> QED
    BY <1>5, <2>2, <2>3
<1>6. w.pc \in Holding => Commits(w)
  BY DEF Committing
<1>7. CASE Swaps(w, x)
  <2>1. w.pc \in Holding /\ Commits(w)
    BY <1>6, <1>7 DEF Swaps, Holding
  <2>2. CASE /\ w.pc = "aside" /\ x.pc = "install" /\ x.old = publish
             /\ publish' = Nothing /\ UNCHANGED recorded
    <3>1. Saved'
      BY <1>1, <1>2, <2>2, NothingHolds DEF Saved, Behind, Until
    <3>2. Commits(x)'
      BY <1>1, <1>2, <2>1, <2>2, NothingHolds DEF Saved, Behind, Until, Commits
    <3> QED
      BY <1>5, <2>1, <3>1, <3>2
  <2>3. CASE /\ w.pc = "install" /\ x.pc \in {"record", "done"}
             /\ publish' = NewFolder(w) /\ UNCHANGED recorded
    <3>1. publish'[Core] = w.rev /\ \A k \in Kinds \ {Core} : publish'[k] = 0
      BY <1>2, <2>3, NothingHolds DEF NewFolder, Nothing
    <3>2. \A k \in Kinds : /\ publish'[k] <= w.rev
                           /\ publish'[k] # 0 => recorded[k] <= publish'[k]
      BY <1>2, <2>1, <3>1 DEF Commits, Until
    <3>3. Saved'
      BY <1>1, <1>2, <2>1, <2>3, <3>1, <3>2 DEF Saved, Behind, Until, Commits
    <3>4. Commits(x)'
      BY <1>1, <1>2, <2>1, <2>3, <3>1, <3>2 DEF Behind, Until, Commits
    <3> QED
      BY <1>5, <2>1, <3>3, <3>4
  <2>4. CASE /\ w.pc = "install" /\ x.pc = "done"
             /\ publish' \in {w.old, publish} /\ UNCHANGED recorded
    <3>1. Saved'
      BY <1>1, <1>2, <2>1, <2>4 DEF Saved, Behind, Until, Commits
    <3>2. x.pc \notin Holding
      BY <2>4 DEF Holding
    <3> QED
      BY <1>5, <2>1, <3>1, <3>2
  <2> QED
    BY <1>7, <2>2, <2>3, <2>4 DEF Swaps
<1>8. CASE Notes(w, x)
  <2>1. w.pc \in Holding /\ Commits(w) /\ x.pc \notin Holding
    BY <1>6, <1>8 DEF Notes, Holding
  <2>2. Reconciled \in [Kinds -> Nat]
        /\ \A k \in Kinds : Reconciled[k] \in {0, recorded[k]}
    BY <1>2 DEF Reconciled
  <2>3. \A k \in Kinds : publish[k] # 0 => Reconciled[k] = recorded[k]
    BY <1>2 DEF Reconciled
  <2>4. CASE /\ w.pc = "record" /\ x.pc = "outputs" /\ UNCHANGED publish
             /\ Record([Reconciled EXCEPT ![Core] = w.rev])
    <3>1. publish[Core] = w.rev
      BY <2>1, <2>4 DEF Commits
    <3>2. CASE UNCHANGED recorded
      <4>1. Saved'
        BY <1>1, <2>4, <3>2 DEF Saved, Behind, Until
      <4> QED
        BY <1>5, <2>1, <4>1
    <3>3. CASE recorded' = [Reconciled EXCEPT ![Core] = w.rev]
      <4>1. recorded'[Core] = w.rev /\ \A k \in Kinds \ {Core} : recorded'[k] = Reconciled[k]
        BY <2>2, <3>3, <1>2
      <4>2. Saved'
        BY <1>1, <1>2, <2>1, <2>2, <2>3, <2>4, <3>1, <4>1 DEF Saved, Behind, Until, Commits
      <4> QED
        BY <1>5, <2>1, <4>2
    <3> QED
      BY <2>4, <3>2, <3>3 DEF Record
  <2>5. ASSUME NEW k \in Kinds, publish' = [publish EXCEPT ![k] = w.rev],
               recorded' \in {recorded, [Reconciled EXCEPT ![k] = w.rev]}
        PROVE  Saved'
    <3>1. publish'[k] = w.rev /\ \A j \in Kinds \ {k} : publish'[j] = publish[j]
      BY <1>2, <2>5
    <3>2. CASE recorded' = recorded
      BY <1>1, <1>2, <2>1, <3>1, <3>2 DEF Saved, Behind, Until, Commits
    <3>3. CASE recorded' = [Reconciled EXCEPT ![k] = w.rev]
      <4>1. recorded'[k] = w.rev /\ \A j \in Kinds \ {k} : recorded'[j] = Reconciled[j]
        BY <2>2, <3>3
      <4> QED
        BY <1>1, <1>2, <2>1, <2>2, <2>3, <3>1, <4>1 DEF Saved, Behind, Until, Commits
    <3> QED
      BY <2>5, <3>2, <3>3
  <2> QED
    BY <1>5, <1>8, <2>1, <2>4, <2>5 DEF Notes
<1>9. CASE Gates(w, x)
  <2>1. w.pc \in Holding /\ Commits(w)
    BY <1>6, <1>9 DEF Gates, Holding
  <2>2. CASE /\ w.pc = "gate_aside" /\ x.pc = "gate_install"
             /\ x.old = publish /\ x.record = recorded
             /\ publish' = Nothing /\ recorded' = Nothing
    <3>1. Saved'
      BY <1>1, <1>2, <2>2, NothingHolds DEF Saved, Behind, Until
    <3>2. Commits(x)'
      BY <1>1, <1>2, <2>1, <2>2, NothingHolds DEF Saved, Behind, Until, Commits
    <3> QED
      BY <1>5, <2>1, <3>1, <3>2
  <2>3. CASE /\ w.pc = "gate_install" /\ x.pc = "done"
             /\ publish' = [k \in Kinds |-> IF k \in w.todo THEN w.rev ELSE 0]
             /\ recorded' = publish'
    <3>1. \A k \in Kinds : publish'[k] \in {0, w.rev} /\ recorded'[k] = publish'[k]
      BY <2>3
    <3>2. Saved'
      BY <1>1, <1>2, <2>1, <3>1 DEF Saved, Behind, Until, Commits
    <3> QED
      BY <1>5, <2>1, <2>3, <3>2 DEF Holding
  <2>4. CASE /\ w.pc = "gate_install" /\ x.pc = "done"
             /\ publish' = (IF publish = Nothing THEN w.old ELSE publish)
             /\ recorded' = w.record
    <3>1. publish' = w.old
      BY <2>1, <2>4 DEF Commits
    <3>2. Saved'
      BY <1>1, <1>2, <2>1, <2>4, <3>1 DEF Saved, Behind, Until, Commits
    <3> QED
      BY <1>5, <2>1, <2>4, <3>2 DEF Holding
  <2> QED
    BY <1>9, <2>2, <2>3, <2>4 DEF Gates
<1> QED
  BY <1>3, <1>4, <1>7, <1>8, <1>9 DEF Moves

-----------------------------------------------------------------------------
(* What the workspace does.  It leaves the files alone, and a worker that  *)
(* commits goes on committing.                                             *)
Tended ==
    /\ UNCHANGED <<publish, recorded>> /\ project.rev <= project'.rev
    /\ \E f : \A x \in workers' : x.pc \in Holding =>
          \E w \in workers : /\ x = f[w] /\ x.pc = w.pc /\ x.rev = w.rev
                             /\ x.old = w.old /\ x.record = w.record

LEMMA TendedKeepsOnDisk ==
    ASSUME Records, Records', OnDisk, Tended
    PROVE  OnDisk'
<1> USE DEF Records, OnDisk
<1>1. PICK f : \A x \in workers' : x.pc \in Holding =>
          \E w \in workers : /\ x = f[w] /\ x.pc = w.pc /\ x.rev = w.rev
                             /\ x.old = w.old /\ x.record = w.record
  BY DEF Tended
<1>2. /\ publish \in [Kinds -> Nat] /\ recorded \in [Kinds -> Nat]
      /\ project.rev \in Nat /\ project'.rev \in Nat /\ project.rev <= project'.rev
      /\ \A w \in workers : w.rev \in Nat
      /\ UNCHANGED <<publish, recorded>>
  <2>1. Revisions \subseteq Nat /\ 1..MaxRevision \subseteq Nat
    BY Constants
  <2> QED
    BY <2>1 DEF Tended, TypeOK, Worker, Outputs
<1>3. Saved'
  BY <1>2 DEF Saved, Behind, Until
<1>4. Alone'
  <2> SUFFICES ASSUME NEW x \in workers', NEW y \in workers', x.pc \in Holding, y.pc \in Holding
               PROVE  x = y
    BY DEF Alone
  <2>1. PICK v, w \in workers : v.pc \in Holding /\ w.pc \in Holding /\ x = f[v] /\ y = f[w]
    BY <1>1
  <2> QED
    BY <2>1 DEF Alone
<1>5. Committing'
  <2> SUFFICES ASSUME NEW x \in workers', x.pc \in Holding
               PROVE  Commits(x)'
    BY DEF Committing
  <2>1. PICK w \in workers : /\ x.pc = w.pc /\ x.rev = w.rev
                             /\ x.old = w.old /\ x.record = w.record
    BY <1>1
  <2>2. Commits(w)
    BY <2>1 DEF Committing
  <2>3. w.rev <= project'.rev
    BY <1>2, <2>2 DEF Commits
  <2> QED
    BY <1>2, <2>1, <2>2, <2>3 DEF Commits, Until, Behind
<1> QED
  BY <1>3, <1>4, <1>5

(* Raising the flag of a worker changes nothing else about it.             *)
Flagged(w) == IF w.gen = ws.gen /\ w.id = ws.op.id /\ w.pc # "done"
              THEN [w EXCEPT !.cancelled = TRUE] ELSE w

AsBefore(x, w) ==
    /\ x.pc = w.pc /\ x.rev = w.rev /\ x.old = w.old /\ x.record = w.record
    /\ x.gen = w.gen /\ x.id = w.id

LEMMA FlaggedIs ==
    ASSUME NEW w \in Worker
    PROVE  Flagged(w) \in Worker /\ AsBefore(Flagged(w), w) /\ Flagged(w).out = w.out
BY DEF Flagged, AsBefore, Worker

LEMMA CancelledAre == Cancelled = {Flagged(w) : w \in workers}
BY DEF Cancelled, Flagged

(* The workers are left alone, or flagged.                                 *)
Left(W) == W = workers \/ W = Cancelled

LEMMA LeftAre ==
    ASSUME TypeOK, NEW W, Left(W)
    PROVE  \E f : /\ \A w \in workers : f[w] \in W /\ AsBefore(f[w], w) /\ f[w].out = w.out
                  /\ \A x \in W : x \in Worker /\ \E w \in workers : x = f[w]
<1>1. \A w \in workers : w \in Worker
  BY DEF TypeOK
<1>2. CASE W = workers
  <2>1. PICK f : f = [w \in workers |-> w]
    OBVIOUS
  <2>2. \A w \in workers : f[w] = w
    BY <2>1
  <2>3. \A w \in workers : f[w] \in W /\ AsBefore(f[w], w) /\ f[w].out = w.out
    BY <1>2, <2>2 DEF AsBefore
  <2> QED
    BY <1>1, <1>2, <2>2, <2>3
<1>3. CASE W = Cancelled
  <2>1. PICK f : f = [w \in workers |-> Flagged(w)]
    OBVIOUS
  <2>2. \A w \in workers : f[w] = Flagged(w)
    BY <2>1
  <2>3. \A w \in workers : f[w] \in W /\ f[w] \in Worker /\ AsBefore(f[w], w) /\ f[w].out = w.out
    BY <1>1, <1>3, <2>2, CancelledAre, FlaggedIs
  <2>4. \A x \in W : \E w \in workers : x = f[w]
    BY <1>3, <2>2, CancelledAre
  <2> QED
    BY <2>3, <2>4
<1> QED
  BY <1>2, <1>3 DEF Left

(* A worker that begins with its operation.                                *)
Begins(x, s) ==
    /\ x \in Worker /\ x.pc \in {"start", "gate"}
    /\ x.gen = s.gen /\ x.id = s.op.id /\ x.rev = s.op.rev

LEMMA LeftTended ==
    ASSUME Records, NEW W, Left(W), NEW B, \A x \in B : Begins(x, ws'),
           workers' = W \cup B,
           UNCHANGED <<publish, recorded>>, project.rev <= project'.rev
    PROVE  workers' \subseteq Worker /\ Endings' /\ Tended
<1>1. PICK f : /\ \A w \in workers : f[w] \in W /\ AsBefore(f[w], w) /\ f[w].out = w.out
               /\ \A x \in W : x \in Worker /\ \E w \in workers : x = f[w]
  BY LeftAre DEF Records
<1>2. workers' \subseteq Worker
  BY <1>1 DEF Begins
<1>3. Endings'
  <2> SUFFICES ASSUME NEW x \in workers', x.pc = "done"
               PROVE  x.out # <<>> /\ x.out[Len(x.out)].name = "Finished"
    BY DEF Endings, Ending
  <2>1. x \in W
    BY DEF Begins
  <2>2. PICK w \in workers : x.pc = w.pc /\ x.out = w.out
    BY <1>1, <2>1 DEF AsBefore
  <2> QED
    BY <2>2 DEF Records, Endings, Ending
<1>4. \A x \in workers' : x.pc \in Holding => x \in W
  BY DEF Begins, Holding
<1>5. \A x \in W : \E w \in workers : x = f[w] /\ AsBefore(x, w)
  BY <1>1
<1>6. \A x \in workers' : x.pc \in Holding =>
        \E w \in workers : /\ x = f[w] /\ x.pc = w.pc /\ x.rev = w.rev
                           /\ x.old = w.old /\ x.record = w.record
  BY <1>4, <1>5 DEF AsBefore
<1>7. Tended
  BY <1>6 DEF Tended
<1> QED
  BY <1>2, <1>3, <1>7

Project == [rev : 1..MaxRevision, enabled : SUBSET Derivatives, imported : BOOLEAN]

(* The screen changes; the operation, if there still is one, is the same.  *)
Shows ==
    /\ ws' \in Workspace /\ Opened'
    /\ ws'.op.id # 0 => /\ ws'.gen = ws.gen /\ ws'.op.id = ws.op.id
                        /\ ws'.op.rev = ws.op.rev /\ (ws'.op.served => ws.op.served)
    /\ project' \in Project /\ project.rev <= project'.rev
    /\ saves' \in [1..MaxSaves -> SaveWorker]
    /\ Left(workers')
    /\ UNCHANGED <<publish, recorded, arbiter>>

LEMMA ShowsKeeps ==
    ASSUME Records, Shows, UNCHANGED budget
    PROVE  Records' /\ Tended
<1>1. workers' \subseteq Worker /\ Endings' /\ Tended
  <2>1. PICK W : W = workers'
    OBVIOUS
  <2>2. PICK B : B = {}
    OBVIOUS
  <2>3. Left(W) /\ workers' = W \cup B /\ \A x \in B : Begins(x, ws')
    BY <2>1, <2>2 DEF Shows
  <2> QED
    BY <2>3, LeftTended DEF Shows
<1>2. TypeOK'
  BY <1>1 DEF Records, TypeOK, Shows, Project
<1>3. UpdatingHasWorker'
  <2> SUFFICES ASSUME ws'.op.id # 0, ws'.op.served
               PROVE  \E w \in workers' : /\ w.gen = ws'.gen /\ w.id = ws'.op.id
                                          /\ w.rev = ws'.op.rev
    BY DEF UpdatingHasWorker
  <2>1. ws'.gen = ws.gen /\ ws'.op.id = ws.op.id /\ ws'.op.rev = ws.op.rev /\ ws.op.served
    BY DEF Shows
  <2>2. PICK w \in workers : w.gen = ws.gen /\ w.id = ws.op.id /\ w.rev = ws.op.rev
    BY <2>1 DEF Records, UpdatingHasWorker
  <2>3. PICK W : W = workers'
    OBVIOUS
  <2>4. TypeOK /\ Left(W)
    BY <2>3 DEF Shows, Records
  <2>5. \E x \in W : AsBefore(x, w)
    BY <2>4, LeftAre
  <2> QED
    BY <2>1, <2>2, <2>3, <2>5 DEF AsBefore
<1> QED
  BY <1>1, <1>2, <1>3 DEF Records, Shows

-----------------------------------------------------------------------------
(* The steps of the user and of the saves.                                 *)
LEMMA ClosedIs == Closed \in Workspace /\ Closed.op.id = 0 /\ ~Closed.open
                  /\ Closed.save = "Clean" /\ NoOperation \in Operation
<1>1. NoOperation \in Operation
  BY Constants DEF NoOperation, Operation, Statuses, Revisions
<1>2. 0 \in Revisions /\ 0 \in 0..MaxOpens
  BY Constants DEF Revisions
<1> QED
  BY <1>1, <1>2 DEF Closed, Workspace, NoOperation

(* Every save that is under way, or whose result is, finds room.           *)
Sound(S) ==
    /\ S \in [1..MaxSaves -> SaveWorker]
    /\ \A i \in 1..MaxSaves : S[i].pc # "none" => S[i].base < MaxRevision

LEMMA ScreenIs ==
    ASSUME Records
    PROVE  /\ ws \in Workspace /\ ws.base \in Nat /\ MaxRevision \in Nat /\ project.rev \in Nat
           /\ project \in Project /\ saves \in [1..MaxSaves -> SaveWorker]
           /\ ws.open => ws.gen # 0 /\ ws.gen \in 1..MaxOpens
BY Constants DEF Records, TypeOK, Opened, Workspace, Revisions, Project

(* Nothing of what Shows speaks of is changed but the screen and a save.   *)
LEMMA ScreenShows ==
    ASSUME Records, ws' \in Workspace, ws'.open = ws.open, ws'.gen = ws.gen, ws'.op = ws.op,
           ws'.base = ws.base, Sound(saves'),
           UNCHANGED <<project, publish, recorded, arbiter, workers>>
    PROVE  Shows
<1>1. Opened'
  BY DEF Records, Opened, Sound
<1> QED
  BY <1>1, ScreenIs DEF Shows, Left, Records, TypeOK, Sound

(* A slot that is given another save.                                      *)
LEMMA SlotIs ==
    ASSUME Records, NEW i \in 1..MaxSaves, NEW s \in SaveWorker,
           s.pc # "none" => s.base < MaxRevision,
           saves' = [saves EXCEPT ![i] = s]
    PROVE  Sound(saves')
<1>1. saves \in [1..MaxSaves -> SaveWorker] /\ Sound(saves)
  BY ScreenIs DEF Records, Opened, Sound
<1>2. saves' \in [1..MaxSaves -> SaveWorker] /\ saves'[i] = s
      /\ \A j \in 1..MaxSaves : j # i => saves'[j] = saves[j]
  BY <1>1
<1> QED
  BY <1>1, <1>2 DEF Sound

LEMMA SavesAre ==
    ASSUME Records
    PROVE  /\ Sound(saves)
           /\ \A i \in 1..MaxSaves : saves[i] \in SaveWorker
           /\ NoSave \in SaveWorker /\ NoSave.pc = "none"
           /\ \A pc \in {"committed", "failed"}, b \in Revisions :
                 LET s == [NoSave EXCEPT !.pc = pc, !.base = b]
                 IN  s \in SaveWorker /\ s.base = b
           /\ [NoSave EXCEPT !.pc = "failed"] \in SaveWorker
           /\ [NoSave EXCEPT !.pc = "failed"].base = 0 /\ 0 < MaxRevision
<1>1. Sound(saves) /\ \A i \in 1..MaxSaves : saves[i] \in SaveWorker
  BY ScreenIs DEF Records, Opened, Sound
<1>2. NoSave \in SaveWorker /\ NoSave.pc = "none" /\ NoSave.base = 0 /\ 0 < MaxRevision
  BY Constants DEF SaveWorker, NoSave
<1>3. ASSUME NEW pc \in {"committed", "failed"}, NEW b \in Revisions
      PROVE  LET s == [NoSave EXCEPT !.pc = pc, !.base = b]
             IN  s \in SaveWorker /\ s.base = b
  BY DEF SaveWorker, NoSave
<1>4. [NoSave EXCEPT !.pc = "failed"] \in SaveWorker /\ [NoSave EXCEPT !.pc = "failed"].base = 0
  BY <1>2 DEF SaveWorker, NoSave
<1> QED
  BY <1>1, <1>2, <1>3, <1>4

LEMMA EditingShows ==
    ASSUME Records,
           Edit \/ (\E k \in Derivatives : TogglePublishOutput(k))
             \/ (\E close \in BOOLEAN : Save(close)) \/ ShareFinishes
    PROVE  Shows
<1>1. CASE Edit
  <2>1. ws' = [ws EXCEPT !.save = "Dirty"]
        /\ UNCHANGED <<project, publish, recorded, arbiter, workers, saves>>
    BY <1>1 DEF Edit
  <2>2. ws' \in Workspace /\ ws'.gen = ws.gen /\ ws'.op = ws.op /\ ws'.open = ws.open
        /\ ws'.base = ws.base
    BY <2>1, ScreenIs DEF Workspace
  <2> QED
    BY <2>1, <2>2, SavesAre, ScreenShows
<1>2. ASSUME NEW k \in Derivatives, TogglePublishOutput(k)
      PROVE  Shows
  <2>1. PICK E : E = IF k \in ws.enabled THEN ws.enabled \ {k} ELSE ws.enabled \cup {k}
    OBVIOUS
  <2>2. ws' = [ws EXCEPT !.save = "Dirty", !.enabled = E]
        /\ UNCHANGED <<project, publish, recorded, arbiter, workers, saves>>
    BY <1>2, <2>1 DEF TogglePublishOutput
  <2>3. E \in SUBSET Derivatives
    BY <2>1, ScreenIs DEF Workspace
  <2>4. ws' \in Workspace /\ ws'.gen = ws.gen /\ ws'.op = ws.op /\ ws'.open = ws.open
        /\ ws'.base = ws.base
    BY <2>2, <2>3, ScreenIs DEF Workspace
  <2> QED
    BY <2>2, <2>4, SavesAre, ScreenShows
<1>3. ASSUME NEW close \in BOOLEAN, Save(close)
      PROVE  Shows
  <2>1. /\ ws' = [ws EXCEPT !.save = "Saving", !.closing = close] /\ ws.base < MaxRevision
        /\ UNCHANGED <<project, publish, recorded, arbiter, workers>>
    BY <1>3 DEF Save
  <2>2. ws' \in Workspace /\ ws'.gen = ws.gen /\ ws'.op = ws.op /\ ws'.open = ws.open
        /\ ws'.base = ws.base
    BY <2>1, ScreenIs DEF Workspace
  <2>3. PICK s : s = [pc |-> "running", base |-> ws.base, enabled |-> ws.enabled]
    OBVIOUS
  <2>4. s \in SaveWorker /\ s.base < MaxRevision
    BY <2>1, <2>3, ScreenIs DEF SaveWorker, Workspace
  <2>5. PICK i \in 1..MaxSaves : saves' = [saves EXCEPT ![i] = s]
    BY <1>3, <2>3 DEF Save
  <2> QED
    BY <2>1, <2>2, <2>4, <2>5, SlotIs, ScreenShows
<1>4. CASE ShareFinishes
  <2>1. ws' = [ws EXCEPT !.share = "none"]
        /\ UNCHANGED <<project, publish, recorded, arbiter, workers, saves>>
    BY <1>4 DEF ShareFinishes
  <2>2. ws' \in Workspace /\ ws'.gen = ws.gen /\ ws'.op = ws.op /\ ws'.open = ws.open
        /\ ws'.base = ws.base
    BY <2>1, ScreenIs DEF Workspace
  <2> QED
    BY <2>1, <2>2, SavesAre, ScreenShows
<1> QED
  BY <1>1, <1>2, <1>3, <1>4

LEMMA SavingShows ==
    ASSUME Records, NEW i \in 1..MaxSaves,
           SaveCommits(i) \/ SaveErrs(i) \/ SaveFails(i) \/ SaveIsUnheard(i)
    PROVE  Shows
<1>1. saves[i] \in SaveWorker /\ saves[i].base \in Revisions
  BY SavesAre DEF SaveWorker
<1>2. CASE SaveCommits(i)
  <2>1. PICK b, E : b = saves[i].base /\ E = saves[i].enabled
    OBVIOUS
  <2>2. /\ saves[i].pc = "running" /\ project.rev = b
        /\ project' = [project EXCEPT !.rev = b + 1, !.enabled = E]
        /\ saves' = [saves EXCEPT ![i] = [NoSave EXCEPT !.pc = "committed", !.base = b]]
        /\ UNCHANGED <<publish, recorded, ws, arbiter, workers>>
    BY <1>2, <2>1 DEF SaveCommits
  <2>3. b < MaxRevision /\ E \in SUBSET Derivatives /\ b \in Revisions
    <3>1. saves[i] \in SaveWorker /\ Sound(saves)
      BY SavesAre
    <3>2. b < MaxRevision
      BY <2>1, <2>2, <3>1 DEF Sound
    <3> QED
      BY <2>1, <3>1, <3>2 DEF SaveWorker
  <2>4. b + 1 \in 1..MaxRevision /\ project.rev <= b + 1
    BY <2>2, <2>3, ScreenIs, Constants DEF Revisions
  <2>5. project' \in Project /\ project.rev <= project'.rev
    BY <2>2, <2>3, <2>4, ScreenIs DEF Project
  <2>6. PICK s : s = [NoSave EXCEPT !.pc = "committed", !.base = b]
    OBVIOUS
  <2>7. s \in SaveWorker /\ s.base < MaxRevision
    BY <2>3, <2>6, SavesAre
  <2>8. Sound(saves')
    BY <2>2, <2>6, <2>7, SlotIs
  <2>9. Opened'
    BY <2>2, <2>8 DEF Records, Opened, Sound
  <2> QED
    BY <2>2, <2>5, <2>8, <2>9, ScreenIs DEF Shows, Left, Sound
<1>3. CASE SaveErrs(i)
  <2>1. saves' = [saves EXCEPT ![i] = [NoSave EXCEPT !.pc = "failed"]]
        /\ UNCHANGED <<project, publish, recorded, ws, arbiter, workers>>
    BY <1>3 DEF SaveErrs
  <2>2. PICK s : s = [NoSave EXCEPT !.pc = "failed"]
    OBVIOUS
  <2>3. Sound(saves')
    BY <2>1, <2>2, SavesAre, SlotIs
  <2> QED
    BY <2>1, <2>3, ScreenIs, ScreenShows
<1>4. CASE SaveFails(i)
  <2>1. saves' = [saves EXCEPT ![i] = NoSave]
        /\ ws' = [ws EXCEPT !.save = "Dirty", !.closing = FALSE]
        /\ UNCHANGED <<project, publish, recorded, arbiter, workers>>
    BY <1>4 DEF SaveFails
  <2>2. ws' \in Workspace /\ ws'.gen = ws.gen /\ ws'.op = ws.op /\ ws'.open = ws.open
        /\ ws'.base = ws.base
    BY <2>1, ScreenIs DEF Workspace
  <2>3. Sound(saves')
    BY <2>1, SavesAre, SlotIs
  <2> QED
    BY <2>1, <2>2, <2>3, ScreenShows
<1>5. CASE SaveIsUnheard(i)
  <2>1. saves' = [saves EXCEPT ![i] = NoSave]
        /\ UNCHANGED <<project, publish, recorded, ws, arbiter, workers>>
    BY <1>5 DEF SaveIsUnheard
  <2>2. Sound(saves')
    BY <2>1, SavesAre, SlotIs
  <2> QED
    BY <2>1, <2>2, ScreenIs, ScreenShows
<1> QED
  BY <1>2, <1>3, <1>4, <1>5

LEMMA LeavingShows ==
    ASSUME Records, Close \/ CancelPublish
    PROVE  Shows
<1>1. CASE Close
  <2>1. ws' = Closed /\ Left(workers') /\ UNCHANGED <<project, publish, recorded, arbiter, saves>>
    BY <1>1 DEF Close, Left
  <2>2. Opened'
    BY <2>1, ClosedIs DEF Records, Opened
  <2> QED
    BY <2>1, <2>2, ClosedIs, ScreenIs DEF Shows
<1>2. CASE CancelPublish
  <2>1. ws' = [ws EXCEPT !.op = NoOperation] /\ Left(workers')
        /\ UNCHANGED <<project, publish, recorded, arbiter, saves>>
    BY <1>2 DEF CancelPublish, Left
  <2>2. ws' \in Workspace /\ ws'.op.id = 0 /\ ws'.open = ws.open /\ ws'.gen = ws.gen
        /\ ws'.base = ws.base
    BY <2>1, ScreenIs, ClosedIs DEF Workspace, NoOperation
  <2>3. Opened'
    BY <2>1, <2>2 DEF Records, Opened
  <2> QED
    BY <2>1, <2>2, <2>3, ScreenIs DEF Shows
<1> QED
  BY <1>1, <1>2

(* A workspace that opens has an arbiter of its own.                       *)
LEMMA OpenKeeps ==
    ASSUME Records, Open, UNCHANGED budget
    PROVE  Records' /\ Tended
<1>1. /\ Len(arbiter) < MaxOpens /\ arbiter' = Append(arbiter, NoSlot)
      /\ ws' = [Closed EXCEPT !.open = TRUE, !.gen = Len(arbiter) + 1,
                              !.base = project.rev, !.enabled = project.enabled,
                              !.fresh = CurrentAt(project.rev, {Core} \cup project.enabled)]
      /\ UNCHANGED <<project, publish, recorded, workers, saves>>
  BY DEF Open
<1>2. PICK gen, fresh : /\ gen = Len(arbiter) + 1
                        /\ fresh = CurrentAt(project.rev, {Core} \cup project.enabled)
  OBVIOUS
<1>3. ws' = [Closed EXCEPT !.open = TRUE, !.gen = gen, !.base = project.rev,
                           !.enabled = project.enabled, !.fresh = fresh]
  BY <1>1, <1>2
<1>4. NoSlot \in Slot
  BY Constants DEF NoSlot, Slot, Revisions
<1>5. arbiter' \in Seq(Slot) /\ Len(arbiter') <= MaxOpens /\ gen \in 1..MaxOpens
  BY <1>1, <1>2, <1>4, Constants DEF Records, TypeOK
<1>6. fresh \in SUBSET Kinds /\ project.rev \in Revisions /\ project.enabled \in SUBSET Derivatives
  BY <1>2, Constants, ScreenIs DEF CurrentAt, Revisions, Project
<1>7. /\ ws' \in Workspace /\ ws'.op.id = 0 /\ ws'.gen = gen /\ ws'.open /\ ws'.save = "Clean"
  <2>1. gen \in 0..MaxOpens
    BY <1>5
  <2>2. ws' \in Workspace
    BY <1>3, <1>6, <2>1, ClosedIs DEF Workspace
  <2>3. ws'.op = Closed.op /\ ws'.gen = gen /\ ws'.open /\ ws'.save = Closed.save
    BY <1>3, <2>1 DEF Closed
  <2> QED
    BY <2>2, <2>3, ClosedIs
<1>8. TypeOK'
  BY <1>1, <1>5, <1>7 DEF Records, TypeOK
<1>9. Opened' /\ UpdatingHasWorker'
  BY <1>1, <1>5, <1>7 DEF Records, Opened, UpdatingHasWorker
<1>10. PICK W, B : W = workers /\ B = {}
  OBVIOUS
<1>11. Left(W) /\ workers' = W \cup B /\ project.rev <= project'.rev
  BY <1>1, <1>10, ScreenIs DEF Left
<1>12. Endings' /\ Tended
  BY <1>1, <1>10, <1>11, LeftTended
<1> QED
  BY <1>8, <1>9, <1>12 DEF Records

LEMMA CrashKeeps ==
    ASSUME Records, Crash, UNCHANGED budget
    PROVE  Records' /\ Tended
<1>1. /\ ws' = Closed /\ workers' = {} /\ UNCHANGED <<project, publish, recorded>>
      /\ saves' = [i \in 1..MaxSaves |-> NoSave]
      /\ arbiter' = [g \in DOMAIN arbiter |-> NoSlot]
  BY DEF Crash
<1>2. arbiter' \in Seq(Slot) /\ Len(arbiter') = Len(arbiter)
  <2>1. NoSlot \in Slot
    BY Constants DEF NoSlot, Slot
  <2>2. PICK n \in Nat : DOMAIN arbiter = 1..n /\ Len(arbiter) = n
    BY DEF Records, TypeOK
  <2>3. arbiter' \in [1..n -> Slot]
    BY <1>1, <2>1, <2>2
  <2> QED
    BY <2>2, <2>3
<1>3. Sound(saves')
  BY <1>1, SavesAre DEF Sound
<1>4. TypeOK'
  BY <1>1, <1>2, <1>3, ClosedIs DEF Records, TypeOK, Sound
<1>5. Opened' /\ UpdatingHasWorker' /\ Endings'
  BY <1>1, <1>3, ClosedIs DEF Opened, UpdatingHasWorker, Endings, Sound
<1>6. Tended
  BY <1>1, ScreenIs DEF Tended
<1> QED
  BY <1>4, <1>5, <1>6 DEF Records

-----------------------------------------------------------------------------
LEMMA SlotsKeep ==
    ASSUME NEW s \in Seq(Slot), NEW g, NEW e \in Slot
    PROVE  LET t == [s EXCEPT ![g] = e] IN t \in Seq(Slot) /\ Len(t) = Len(s)
<1>1. PICK n \in Nat : s \in [1..n -> Slot] /\ Len(s) = n
  OBVIOUS
<1>2. PICK t : t = [s EXCEPT ![g] = e]
  OBVIOUS
<1>3. t \in [1..n -> Slot]
  BY <1>1, <1>2
<1>4. t \in Seq(Slot) /\ Len(t) = n
  BY <1>3
<1> QED
  BY <1>1, <1>2, <1>4

(* A new operation, and the worker it has if it has a task.                *)
LEMMA BeginKeeps ==
    ASSUME Records, NEW after \in Workspace, after.open, after.gen \in 1..MaxOpens,
           NEW todo \in SUBSET Kinds, NEW gate \in BOOLEAN, NEW task \in BOOLEAN,
           Begin(after, todo, gate, task), Sound(saves'),
           UNCHANGED <<project, publish, recorded, budget>>
    PROVE  Records' /\ Tended
<1>1. PICK id, rev, status, x :
           /\ id = after.last + 1 /\ rev = after.base
           /\ status = [k \in Kinds |-> IF k \in todo THEN "Updating" ELSE "Settled"]
           /\ x = [gen |-> after.gen, id |-> id, rev |-> rev, gate |-> gate,
                   todo |-> todo, kind |-> Core, old |-> Nothing, record |-> Nothing,
                   cancelled |-> FALSE, pc |-> IF gate THEN "gate" ELSE "start",
                   out |-> <<>>]
  OBVIOUS
<1>2. PICK op, slot : op = [id |-> id, rev |-> rev, status |-> status, served |-> task]
                      /\ slot = [id |-> id, rev |-> rev]
  OBVIOUS
<1>3. /\ ws' = [after EXCEPT !.last = id, !.op = op]
      /\ arbiter' = [arbiter EXCEPT ![after.gen] = slot]
      /\ workers' = Cancelled \cup (IF task THEN {x} ELSE {})
  BY <1>1, <1>2 DEF Begin
<1>4. id \in Ids /\ id # 0 /\ rev \in Revisions
  BY <1>1 DEF Workspace, Ids
<1>5. op \in Operation /\ op.id = id /\ op.rev = rev /\ op.served = task /\ slot \in Slot
  BY <1>1, <1>2, <1>4 DEF Operation, Statuses, Slot
<1>6. /\ ws' \in Workspace /\ ws'.op = op /\ ws'.gen = after.gen /\ ws'.open = after.open
      /\ ws'.base = after.base
  BY <1>3, <1>4, <1>5 DEF Workspace
<1>7. arbiter' \in Seq(Slot) /\ Len(arbiter') = Len(arbiter)
  BY <1>3, <1>5, SlotsKeep DEF Records, TypeOK
<1>8. x.pc \in {"start", "gate"} /\ x.gen = after.gen /\ x.id = id /\ x.rev = rev
  BY <1>1
<1>9. x \in Worker
  <2>1. (IF gate THEN "gate" ELSE "start") \in PCs
    BY DEF PCs
  <2>2. <<>> \in Seq(Event) /\ Core \in Kinds
    BY Constants
  <2> QED
    BY <1>1, <1>4, <2>1, <2>2, NothingHolds DEF Worker
<1>10. PICK W, B : W = Cancelled /\ B = IF task THEN {x} ELSE {}
  OBVIOUS
<1>11. /\ Left(W) /\ workers' = W \cup B /\ project.rev <= project'.rev
       /\ \A y \in B : Begins(y, ws')
  BY <1>3, <1>5, <1>6, <1>8, <1>9, <1>10, ScreenIs DEF Left, Begins
<1>12. workers' \subseteq Worker /\ Endings' /\ Tended
  BY <1>11, LeftTended
<1>13. TypeOK'
  BY <1>6, <1>7, <1>12 DEF Records, TypeOK, Sound
<1>14. Opened'
  BY <1>1, <1>4, <1>5, <1>6 DEF Opened, Sound
<1>15. UpdatingHasWorker'
  BY <1>3, <1>5, <1>6, <1>8 DEF UpdatingHasWorker
<1> QED
  BY <1>12, <1>13, <1>14, <1>15 DEF Records

LEMMA EnabledAre ==
    ASSUME Records
    PROVE  EnabledKinds \in SUBSET Kinds
BY ScreenIs, Constants DEF EnabledKinds, Workspace

LEMMA SaveCompletesKeeps ==
    ASSUME Records, NEW i \in 1..MaxSaves, SaveCompletes(i), UNCHANGED budget
    PROVE  Records' /\ Tended
<1>1. PICK b : b = saves[i].base
  OBVIOUS
<1>2. PICK saved : saved = [ws EXCEPT !.save = "Clean", !.base = b + 1]
  OBVIOUS
<1>3. /\ ws.open /\ saves[i].pc = "committed" /\ UNCHANGED <<project, publish, recorded>>
      /\ saves' = [saves EXCEPT ![i] = NoSave]
      /\ \/ ws' = Closed /\ UNCHANGED <<arbiter, workers>>
         \/ Begin(saved, EnabledKinds, FALSE, project.imported)
         \/ /\ ws' = [saved EXCEPT !.op.served = @ /\ ws.op.rev = saved.base]
            /\ UNCHANGED <<arbiter, workers>>
  BY <1>1, <1>2 DEF SaveCompletes
<1>4. Sound(saves')
  BY <1>3, SavesAre, SlotIs
<1>5. b + 1 \in Revisions
  <2>1. b \in Revisions /\ b < MaxRevision
    BY <1>1, <1>3, SavesAre DEF Sound, SaveWorker
  <2> QED
    BY <2>1, Constants DEF Revisions
<1>6. saved \in Workspace /\ saved.open = ws.open /\ saved.gen = ws.gen
      /\ saved.base = b + 1 /\ saved.op = ws.op
  BY <1>2, <1>5, ScreenIs DEF Workspace
<1>7. CASE ws' = Closed /\ UNCHANGED <<arbiter, workers>>
  <2>1. Opened'
    BY <1>4, <1>7, ClosedIs DEF Opened, Sound
  <2>2. Shows
    BY <1>3, <1>4, <1>7, <2>1, ClosedIs, ScreenIs DEF Shows, Left, Sound
  <2> QED
    BY <2>2, ShowsKeeps
<1>8. CASE Begin(saved, EnabledKinds, FALSE, project.imported)
  <2>1. project.imported \in BOOLEAN /\ saved.gen \in 1..MaxOpens /\ saved.open
    BY <1>3, <1>6, ScreenIs DEF Project
  <2>2. PICK task : task = project.imported
    OBVIOUS
  <2>3. PICK gate : gate = FALSE
    OBVIOUS
  <2> QED
    BY <1>3, <1>4, <1>6, <1>8, <2>1, <2>2, <2>3, EnabledAre, BeginKeeps
<1>9. CASE /\ ws' = [saved EXCEPT !.op.served = @ /\ ws.op.rev = saved.base]
           /\ UNCHANGED <<arbiter, workers>>
  <2>1. PICK served : served = (ws.op.served /\ ws.op.rev = b + 1)
    OBVIOUS
  <2>2. PICK op : op = [ws.op EXCEPT !.served = served]
    OBVIOUS
  <2>3. ws.op \in Operation /\ served \in BOOLEAN
    BY <2>1, ScreenIs DEF Workspace, Operation
  <2>4. op \in Operation /\ op.id = ws.op.id /\ op.rev = ws.op.rev /\ op.served = served
    BY <2>2, <2>3 DEF Operation
  <2>5. [saved EXCEPT !.op.served = @ /\ ws.op.rev = saved.base] = [saved EXCEPT !.op = op]
    BY <1>6, <2>1, <2>2
  <2>6. ws' \in Workspace /\ ws'.op = op /\ ws'.open = ws.open /\ ws'.gen = ws.gen
        /\ ws'.base = b + 1
    BY <1>6, <1>9, <2>4, <2>5 DEF Workspace
  <2>7. Opened'
    BY <1>4, <2>1, <2>4, <2>6 DEF Records, Opened, Sound
  <2>8. /\ ws'.op.id # 0 => /\ ws'.gen = ws.gen /\ ws'.op.id = ws.op.id
                            /\ ws'.op.rev = ws.op.rev /\ (ws'.op.served => ws.op.served)
        /\ saves' \in [1..MaxSaves -> SaveWorker]
        /\ project' \in Project /\ project.rev <= project'.rev
    <3>1. ws'.op.served => ws.op.served
      BY <2>1, <2>4, <2>6, Zenon
    <3>2. project' = project
      BY <1>3
    <3>3. project \in Project /\ project.rev <= project.rev
      BY ScreenIs
    <3> QED
      BY <1>4, <2>4, <2>6, <3>1, <3>2, <3>3 DEF Sound
  <2>9. Shows
    BY <1>3, <1>9, <2>6, <2>7, <2>8 DEF Shows, Left
  <2> QED
    BY <2>9, ShowsKeeps
<1> QED
  BY <1>3, <1>7, <1>8, <1>9

LEMMA RetryingKeeps ==
    ASSUME Records, (\E k \in Kinds : RetryPublishOutput(k)) \/ RetryAllPublishOutputs, UNCHANGED budget
    PROVE  Records' /\ Tended
<1>1. ws \in Workspace /\ TRUE \in BOOLEAN /\ FALSE \in BOOLEAN
  BY ScreenIs
<1>2. ASSUME NEW todo \in SUBSET Kinds, ws.open,
             Begin(ws, todo, FALSE, TRUE), UNCHANGED <<project, publish, recorded, saves>>
      PROVE  Records' /\ Tended
  <2>1. Sound(saves')
    BY <1>2, SavesAre
  <2> QED
    BY <1>1, <1>2, <2>1, ScreenIs, BeginKeeps
<1>3. ASSUME NEW k \in Kinds, RetryPublishOutput(k)
      PROVE  Records' /\ Tended
  <2>1. {k} \in SUBSET Kinds
    OBVIOUS
  <2> QED
    BY <1>2, <1>3, <2>1 DEF RetryPublishOutput
<1>4. CASE RetryAllPublishOutputs
  <2>1. PICK retry : retry = {k \in EnabledKinds : Stale(k)}
    OBVIOUS
  <2>2. retry \in SUBSET Kinds
    BY <2>1, EnabledAre
  <2>3. /\ ws.open /\ UNCHANGED <<project, publish, recorded, saves>>
        /\ \/ Begin(ws, retry, FALSE, TRUE)
           \/ /\ ws' = [ws EXCEPT !.last = ws.last + 1]
              /\ workers' = Cancelled
              /\ UNCHANGED arbiter
    BY <1>4, <2>1 DEF RetryAllPublishOutputs
  <2>4. CASE Begin(ws, retry, FALSE, TRUE)
    BY <1>2, <2>2, <2>3, <2>4
  <2>5. CASE /\ ws' = [ws EXCEPT !.last = ws.last + 1]
             /\ workers' = Cancelled
             /\ UNCHANGED arbiter
    <3>1. ws.last + 1 \in Ids
      BY ScreenIs DEF Workspace, Ids
    <3>2. ws' \in Workspace /\ ws'.gen = ws.gen /\ ws'.op = ws.op /\ ws'.open = ws.open
          /\ ws'.base = ws.base
      BY <2>5, <3>1, ScreenIs DEF Workspace
    <3>3. Opened'
      BY <2>3, <3>2 DEF Records, Opened
    <3>4. Shows
      BY <2>3, <2>5, <3>2, <3>3, ScreenIs DEF Shows, Left
    <3> QED
      BY <3>4, ShowsKeeps
  <2> QED
    BY <2>3, <2>4, <2>5
<1> QED
  BY <1>3, <1>4

LEMMA ShareSafeCopyKeeps ==
    ASSUME Records, ShareSafeCopyRequested, UNCHANGED budget
    PROVE  Records' /\ Tended
<1>1. PICK asks : asks = [ws EXCEPT !.share = "waiting"]
  OBVIOUS
<1>2. /\ ws.open /\ UNCHANGED <<project, publish, recorded, saves>> /\ Sound(saves')
      /\ \/ ws' = [ws EXCEPT !.share = "copying"] /\ UNCHANGED <<arbiter, workers>>
         \/ Begin(asks, EnabledKinds, TRUE, TRUE)
  BY <1>1, SavesAre DEF ShareSafeCopyRequested
<1>3. CASE ws' = [ws EXCEPT !.share = "copying"] /\ UNCHANGED <<arbiter, workers>>
  <2>1. ws' \in Workspace /\ ws'.gen = ws.gen /\ ws'.op = ws.op /\ ws'.open = ws.open
        /\ ws'.base = ws.base
    BY <1>3, ScreenIs DEF Workspace
  <2> QED
    BY <1>2, <1>3, <2>1, ScreenShows, ShowsKeeps
<1>4. CASE Begin(asks, EnabledKinds, TRUE, TRUE)
  <2>1. asks \in Workspace /\ asks.open = ws.open /\ asks.gen = ws.gen
    BY <1>1, ScreenIs DEF Workspace
  <2>2. asks.open /\ asks.gen \in 1..MaxOpens /\ TRUE \in BOOLEAN
    BY <1>2, <2>1, ScreenIs
  <2> QED
    BY <1>2, <1>4, <2>1, <2>2, EnabledAre, BeginKeeps
<1> QED
  BY <1>2, <1>3, <1>4

-----------------------------------------------------------------------------
(* An event arrives.                                                       *)
LEMMA RefreshedIs ==
    ASSUME Records, NEW s \in Workspace
    PROVE  LET t == Refreshed(s) IN
           /\ t \in Workspace /\ t.open = s.open /\ t.gen = s.gen
           /\ t.base = s.base /\ t.save = s.save /\ t.op = s.op
<1>1. PICK fresh : fresh = CurrentAt(s.base, EnabledKinds)
  OBVIOUS
<1>2. fresh \in SUBSET Kinds
  BY <1>1, EnabledAre DEF CurrentAt
<1>3. Refreshed(s) = [s EXCEPT !.fresh = fresh]
  BY <1>1 DEF Refreshed
<1> QED
  BY <1>2, <1>3 DEF Workspace

SameScreen(t) ==
    t \in Workspace /\ t.open = ws.open /\ t.gen = ws.gen /\ t.base = ws.base /\ t.save = ws.save

LEMMA StatusIs ==
    ASSUME Records, NEW k \in Kinds, NEW st \in Statuses
    PROVE  LET t == [ws EXCEPT !.op.status[k] = st] IN
           /\ SameScreen(t) /\ t.op.id = ws.op.id /\ t.op.rev = ws.op.rev
           /\ t.op.served = ws.op.served
<1>1. PICK status : status = [ws.op.status EXCEPT ![k] = st]
  OBVIOUS
<1>2. ws.op \in Operation
  BY ScreenIs DEF Workspace
<1>3. status \in [Kinds -> Statuses]
  BY <1>1, <1>2 DEF Operation
<1>4. PICK op : op = [ws.op EXCEPT !.status = status]
  OBVIOUS
<1>5. op \in Operation /\ op.id = ws.op.id /\ op.rev = ws.op.rev /\ op.served = ws.op.served
  BY <1>2, <1>3, <1>4 DEF Operation
<1>6. [ws EXCEPT !.op.status[k] = st] = [ws EXCEPT !.op = op]
  BY <1>1, <1>4
<1> QED
  BY <1>5, <1>6, ScreenIs DEF SameScreen, Workspace

LEMMA AfterFinishedIs ==
    ASSUME Records, NEW w
    PROVE  LET t == AfterFinished(w) IN SameScreen(t) /\ t.op.id = 0
<1>1. PICK s, over : s = [ws EXCEPT !.op = NoOperation] /\ over = Refreshed(s)
  OBVIOUS
<1>2. SameScreen(s) /\ s.op.id = 0
  BY <1>1, ScreenIs, ClosedIs DEF SameScreen, Workspace, NoOperation
<1>3. SameScreen(over) /\ over.op.id = 0
  BY <1>1, <1>2, RefreshedIs DEF SameScreen
<1>4. CASE ~w.gate
  BY <1>1, <1>3, <1>4 DEF AfterFinished
<1>5. CASE w.gate
  <2>1. PICK share \in {"copying", "none"} :
             share = IF EnabledKinds \subseteq over.fresh THEN "copying" ELSE "none"
    OBVIOUS
  <2>2. AfterFinished(w) = [over EXCEPT !.share = share]
    BY <1>1, <1>5, <2>1 DEF AfterFinished
  <2>3. over \in Workspace
    BY <1>3 DEF SameScreen
  <2>4. [over EXCEPT !.share = share] \in Workspace
    BY <2>3 DEF Workspace
  <2> QED
    BY <1>3, <2>2, <2>3, <2>4 DEF SameScreen, Workspace
<1> QED
  BY <1>4, <1>5

LEMMA HandledIs ==
    ASSUME Records, NEW w \in Worker, NEW e \in Event
    PROVE  LET t == Handled(w, e) IN
           /\ SameScreen(t)
           /\ t.op.id # 0 => /\ e.name # "Finished" /\ t.op.id = ws.op.id
                             /\ t.op.rev = ws.op.rev /\ t.op.served = ws.op.served
<1>1. e.name \in {"Committed", "Failed", "Finished"} /\ e.kind \in Kinds
  BY DEF Event
<1>2. CASE e.name = "Committed"
  <2>1. PICK s : s = [ws EXCEPT !.op.status[e.kind] = "Settled"]
    OBVIOUS
  <2>2. SameScreen(s) /\ s.op.id = ws.op.id /\ s.op.rev = ws.op.rev
        /\ s.op.served = ws.op.served
    BY <1>1, <2>1, StatusIs DEF Statuses
  <2>3. SameScreen(Refreshed(s)) /\ Refreshed(s).op = s.op
    BY <2>2, RefreshedIs DEF SameScreen
  <2>4. Handled(w, e) = Refreshed(s)
    BY <1>2, <2>1 DEF Handled
  <2> QED
    BY <1>2, <2>2, <2>3, <2>4
<1>3. CASE e.name = "Failed"
  <2>1. Handled(w, e) = [ws EXCEPT !.op.status[e.kind] = "Failed"]
    BY <1>3 DEF Handled
  <2> QED
    BY <1>1, <1>3, <2>1, StatusIs DEF Statuses
<1>4. CASE e.name = "Finished"
  <2>1. Handled(w, e) = AfterFinished(w)
    BY <1>4 DEF Handled
  <2> QED
    BY <2>1, AfterFinishedIs
<1> QED
  BY <1>1, <1>2, <1>3, <1>4

LEMMA DeliverKeeps ==
    ASSUME Records, NEW w \in workers, Deliver(w), UNCHANGED budget
    PROVE  Records' /\ Tended
<1>1. PICK e, tail, left : e = Head(w.out) /\ tail = Tail(w.out) /\ left = [w EXCEPT !.out = tail]
  OBVIOUS
<1>2. w \in Worker /\ w.out \in Seq(Event) /\ w.out # <<>> /\ Ending(w)
  BY DEF Records, TypeOK, Worker, Deliver, Endings
<1>3. /\ e \in Event /\ tail \in Seq(Event)
      /\ tail # <<>> => tail[Len(tail)] = w.out[Len(w.out)]
      /\ tail = <<>> => e = w.out[Len(w.out)]
  <2>1. PICK s \in Seq(Event) : s = w.out /\ s # <<>>
    BY <1>2
  <2>2. /\ Head(s) \in Event /\ Tail(s) \in Seq(Event) /\ Len(s) \in Nat \ {0}
        /\ Len(Tail(s)) = Len(s) - 1 /\ Head(s) = s[1]
    BY <2>1
  <2>3. Tail(s) # <<>> => Tail(s)[Len(Tail(s))] = s[Len(s)]
    BY <2>1, <2>2
  <2>4. Tail(s) = <<>> => Len(s) = 1
    <3>1. ASSUME Tail(s) = <<>> PROVE Len(Tail(s)) = 0
      BY <2>2, <3>1, EmptySeq
    <3> QED
      BY <2>2, <3>1
  <2> QED
    BY <1>1, <2>1, <2>2, <2>3, <2>4
<1>4. /\ left \in Worker /\ left.out = tail /\ AsBefore(left, w)
  BY <1>1, <1>2, <1>3 DEF AsBefore, Worker
<1>5. /\ ws' = IF ForThisOperation(w) THEN Handled(w, e) ELSE ws
      /\ arbiter' \in {arbiter, [arbiter EXCEPT ![ws.gen] = NoSlot]}
      /\ workers' = (workers \ {w}) \cup (IF w.pc = "done" /\ tail = <<>> THEN {} ELSE {left})
      /\ UNCHANGED <<project, publish, recorded, saves>>
  BY <1>1, <1>4 DEF Deliver
<1>6. Ending(left) \/ (w.pc = "done" /\ tail = <<>>)
  BY <1>2, <1>3, <1>4 DEF Ending, AsBefore
<1>7. workers' \subseteq Worker /\ Endings'
  BY <1>4, <1>5, <1>6 DEF Records, TypeOK, Endings, Ending
<1>8. SameScreen(ws')
  BY <1>2, <1>3, <1>5, HandledIs, ScreenIs DEF SameScreen
<1>9. ws'.op.id # 0 => /\ ws'.op.id = ws.op.id /\ ws'.op.rev = ws.op.rev
                       /\ ws'.op.served = ws.op.served
  BY <1>2, <1>3, <1>5, HandledIs
<1>10. arbiter' \in Seq(Slot) /\ Len(arbiter') = Len(arbiter)
  <2>1. NoSlot \in Slot
    BY Constants DEF NoSlot, Slot, Revisions
  <2> QED
    BY <1>5, <2>1, SlotsKeep DEF Records, TypeOK
<1>11. TypeOK'
  BY <1>5, <1>7, <1>8, <1>10 DEF Records, TypeOK, SameScreen
<1>12. Opened'
  BY <1>5, <1>8, <1>9 DEF Records, Opened, SameScreen
<1>13. UpdatingHasWorker'
  <2> SUFFICES ASSUME ws'.op.id # 0, ws'.op.served
               PROVE  \E v \in workers' : /\ v.gen = ws'.gen /\ v.id = ws'.op.id
                                          /\ v.rev = ws'.op.rev
    BY DEF UpdatingHasWorker
  <2>1. ws'.gen = ws.gen /\ ws'.op.id = ws.op.id /\ ws'.op.rev = ws.op.rev /\ ws.op.served
    BY <1>8, <1>9 DEF SameScreen
  <2>2. PICK v \in workers : v.gen = ws.gen /\ v.id = ws.op.id /\ v.rev = ws.op.rev
    BY <2>1 DEF Records, UpdatingHasWorker
  <2>3. CASE v # w
    BY <1>5, <2>1, <2>2, <2>3
  <2>4. CASE v = w /\ ~(w.pc = "done" /\ tail = <<>>)
    BY <1>4, <1>5, <2>1, <2>2, <2>4 DEF AsBefore
  <2>5. CASE v = w /\ w.pc = "done" /\ tail = <<>>
    <3>1. e.name = "Finished"
      BY <1>2, <1>3, <2>5 DEF Ending
    <3>2. ForThisOperation(w)
      BY <2>1, <2>2, <2>5 DEF ForThisOperation, Records, Opened
    <3>3. ws' = Handled(w, e)
      BY <1>5, <3>2
    <3> QED
      BY <1>2, <1>3, <3>1, <3>3, HandledIs
  <2> QED
    BY <2>3, <2>4, <2>5
<1>14. Tended
  <2>1. PICK f : f = [v \in workers |-> IF v = w THEN left ELSE v]
    OBVIOUS
  <2>2. \A x \in workers' : \E v \in workers : x = f[v] /\ AsBefore(x, v)
    <3>1. f[w] = left /\ \A v \in workers \ {w} : f[v] = v
      BY <2>1
    <3> QED
      BY <1>4, <1>5, <3>1 DEF AsBefore
  <2> QED
    BY <1>5, <2>2, ScreenIs DEF Tended, AsBefore
<1> QED
  BY <1>7, <1>11, <1>12, <1>13, <1>14 DEF Records

-----------------------------------------------------------------------------
(* Every step.                                                             *)
LEMMA InitRecords ==
    ASSUME Init
    PROVE  Records /\ OnDisk
<1>1. TypeOK
  <2>1. PICK imported \in BOOLEAN :
             project = [rev |-> 1, enabled |-> Derivatives, imported |-> imported]
    BY DEF Init
  <2>2. /\ publish = Nothing /\ recorded = Nothing /\ ws = Closed /\ arbiter = <<>>
        /\ workers = {} /\ saves = [i \in 1..MaxSaves |-> NoSave] /\ budget \in Budgets
    BY DEF Init
  <2>3. 1 \in 1..MaxRevision /\ Len(<<>>) <= MaxOpens /\ <<>> \in Seq(Slot)
    BY Constants
  <2>4. NoSave \in SaveWorker
    BY Constants DEF NoSave, SaveWorker
  <2> QED
    BY <2>1, <2>2, <2>3, <2>4, ClosedIs, NothingHolds, Constants DEF TypeOK
<1>2. Opened /\ Endings /\ UpdatingHasWorker
  BY ClosedIs DEF Init, Opened, Endings, UpdatingHasWorker, NoSave
<1>3. Saved /\ Alone /\ Committing
  BY NothingHolds DEF Init, Saved, Behind, Until, Alone, Committing
<1> QED
  BY <1>1, <1>2, <1>3 DEF Records, OnDisk

LEMMA WorkspaceStepKeeps ==
    ASSUME Records,
           User \/ Saves \/ ShareFinishes \/ Crash \/ (\E w \in workers : Deliver(w)),
           UNCHANGED budget
    PROVE  Records' /\ Tended
BY EditingShows, SavingShows, LeavingShows, ShowsKeeps, OpenKeeps, CrashKeeps, SaveCompletesKeeps,
   RetryingKeeps, ShareSafeCopyKeeps, DeliverKeeps DEF User, Saves

LEMMA EveryStep ==
    ASSUME Next
    PROVE  \/ User \/ Saves \/ ShareFinishes \/ Crash \/ (\E w \in workers : Deliver(w))
           \/ \E w \in workers : WorkerStep(w)
BY DEF Next, Work

LEMMA RecordsKept ==
    ASSUME Records, [Next]_vars
    PROVE  Records'
<1>1. CASE Next
  BY <1>1, EveryStep, WorkspaceStepKeeps, WorkerStepIs, MovesKeepRecords DEF Records, Next
<1>2. CASE UNCHANGED vars
  BY <1>2 DEF vars, Records, TypeOK, Opened, Endings, Ending, UpdatingHasWorker
<1> QED
  BY <1>1, <1>2

LEMMA OnDiskKept ==
    ASSUME Prompt \/ MaxOpens <= 1, Records, OnDisk, [Next]_vars
    PROVE  OnDisk'
<1>1. CASE Next
  <2>1. CASE \E w \in workers : WorkerStep(w)
    BY <2>1, WorkerStepIs, MovesKeepOnDisk DEF Records
  <2>2. CASE User \/ Saves \/ ShareFinishes \/ Crash \/ (\E w \in workers : Deliver(w))
    BY <1>1, <2>2, WorkspaceStepKeeps, TendedKeepsOnDisk DEF Next
  <2> QED
    BY <1>1, <2>1, <2>2, EveryStep
<1>2. CASE UNCHANGED vars
  BY <1>2 DEF vars, OnDisk, Saved, Behind, Until, Alone, Committing, Commits
<1> QED
  BY <1>1, <1>2

(* The invariant of every step: the types, the operation of the workspace  *)
(* that is shown, what a worker says last, and who works on what is shown. *)
THEOREM RecordsAlwaysHold == Spec => []Records
<1>1. Init => Records
  BY InitRecords
<1>2. Records /\ [Next]_vars => Records'
  BY RecordsKept
<1> QED
  BY <1>1, <1>2, PTL DEF Spec

(* Every variable keeps its type.                                          *)
THEOREM PublishTypeCorrect == Spec => []TypeOK
<1>1. Records => TypeOK
  BY DEF Records
<1> QED
  BY <1>1, RecordsAlwaysHold, PTL

(* What is shown as being updated is being worked on, for the operations   *)
(* that are served: while the host has run the task of the operation that  *)
(* is shown, and no save has moved the workspace to another revision under *)
(* it, a worker will report its end to it, whatever retries, cancels,      *)
(* failed saves, closed workspaces and late events come in between.  It    *)
(* says nothing of the operation a save of a recorded guide begins, whose  *)
(* task the host drops, nor of one a save whose job cannot be built leaves *)
(* behind: those stay "Updating" without a worker.                         *)
THEOREM UpdatingAlwaysHasWorker == Spec => []UpdatingHasWorker
<1>1. Records => UpdatingHasWorker
  BY DEF Records
<1> QED
  BY <1>1, RecordsAlwaysHold, PTL

(* With one arbiter, or workers of two workspaces that do not commit at    *)
(* the same moment, the state file never runs ahead of the files and one   *)
(* worker commits at a time, also when a rename fails half way or the      *)
(* program dies.                                                           *)
THEOREM DiskAlwaysHolds ==
    ASSUME Prompt \/ MaxOpens <= 1
    PROVE  Spec => []OnDisk
<1>1. Init => OnDisk
  BY InitRecords
<1>2. Records /\ OnDisk /\ [Next]_vars => OnDisk'
  BY OnDiskKept
<1> QED
  BY <1>1, <1>2, RecordsAlwaysHold, PTL DEF Spec

(* What the state file and the files together call current was rendered    *)
(* from the revision on the disk.                                          *)
THEOREM CurrentIsAlwaysTrue ==
    ASSUME Prompt \/ MaxOpens <= 1
    PROVE  Spec => []CurrentIsTrue
<1>1. TypeOK /\ OnDisk => CurrentIsTrue
  <2> SUFFICES ASSUME TypeOK, OnDisk, NEW k \in Kinds, IsCurrent(k, project.rev)
               PROVE  publish[k] = project.rev
    BY DEF CurrentIsTrue
  <2>1. publish[k] \in Nat /\ recorded[k] \in Nat /\ project.rev \in Nat
    <3>1. Revisions \subseteq Nat /\ 1..MaxRevision \subseteq Nat
      BY Constants
    <3> QED
      BY <3>1 DEF TypeOK, Outputs
  <2>2. publish[k] # 0 /\ recorded[k] = project.rev
    BY DEF IsCurrent, Reconciled
  <2>3. publish[k] <= project.rev /\ recorded[k] <= publish[k]
    BY <2>2 DEF OnDisk, Saved, Until, Behind
  <2> QED
    BY <2>1, <2>2, <2>3
<1> QED
  BY <1>1, PublishTypeCorrect, DiskAlwaysHolds, PTL

(* A worker that has put the folder aside holds nothing newer than what it *)
(* is about to install: a late worker takes no newer output away.          *)
THEOREM NewerIsAlwaysKept ==
    ASSUME Prompt \/ MaxOpens <= 1
    PROVE  Spec => []NewerIsKept
<1>1. OnDisk => NewerIsKept
  BY DEF OnDisk, Committing, Commits, Until, NewerIsKept, Holding
<1> QED
  BY <1>1, DiskAlwaysHolds, PTL
=============================================================================
