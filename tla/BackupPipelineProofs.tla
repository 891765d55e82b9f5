------------------------ MODULE BackupPipelineProofs ------------------------
(***************************************************************************)
(* Theorems about BackupPipeline, for every number of runs, upload         *)
(* attempts, names and faults, and every retention.                        *)
(***************************************************************************)
EXTENDS BackupPipeline, FiniteSetTheorems, TLAPS

-----------------------------------------------------------------------------
(* The inductive invariant                                                 *)

\* Run r has begun and works on the file named n.
Named(r, n) == run[r].pc # "idle" /\ run[r].name = n

\* Content that lies under the name n is what the run of that name saved.
Sound(n, v) == v = NoRun \/ Collided(n) \/ (v \in Runs /\ Named(v, n))

\* TypeOK without the order of the archive, which BackupArchiveProofs adds.
Types ==
    /\ clock \in Names
    /\ run \in [Runs -> Run]
    /\ router \in [Names -> Runs \cup {NoRun}]
    /\ local \in [Names -> Contents \cup {NoRun}]
    /\ call \in [Calls -> Call]
    /\ r2 \in [Names -> Contents \cup {NoRun}]
    /\ rows \in [Names -> Contents \cup {NoRun}]
    /\ live \in BOOLEAN

Pulled == {"hash", "list", "rotate", "upload", "waiting"}

\* A run has pulled what is on the router under its name, waits for an attempt of
\* its own, and says "uploaded" of what has a row.
RunOK(r) ==
    /\ run[r].pc = "pulling" => run[r].sha \in Runs /\ Sound(run[r].name, run[r].sha)
    /\ run[r].pc \in Pulled \/ (run[r].pc = "cleanup" /\ run[r].result = "none")
           => Sound(run[r].name, local[run[r].name])
    /\ run[r].pc = "waiting" <=> run[r].call # NoCall
    /\ run[r].pc = "waiting" => call[run[r].call].pc # "idle" /\ call[run[r].call].name = run[r].name
    /\ \A s \in Runs \ {r} : run[r].call = NoCall \/ run[s].call # run[r].call
    /\ run[r].uploaded => run[r].pc = "done" /\ (live => rows[run[r].name] # NoRun)

\* An attempt carries a body of its name, has put it before it inserts the row,
\* and is answered well when the row is there.
CallOK(k) ==
    /\ call[k].pc # "idle" => call[k].body # NoRun /\ Sound(call[k].name, call[k].body)
    /\ call[k].pc = "insert" => r2[call[k].name] # NoRun
    /\ call[k].pc = "answered" /\ call[k].ok /\ live => rows[call[k].name] # NoRun

\* What lies under a name, on the router and in the worker.
NameOK(n) ==
    /\ Sound(n, router[n]) /\ Sound(n, r2[n]) /\ Sound(n, rows[n])
    /\ rows[n] # NoRun => r2[n] # NoRun
    /\ router[n] # NoRun => n \in litter
           \/ \E r \in Runs : run[r].name = n /\ run[r].pc \in {"pull", "pulling", "cleanup"}

IInv ==
    /\ Types
    /\ \A r \in Runs : RunOK(r)
    /\ \A k \in Calls : CallOK(k)
    /\ \A n \in Names : NameOK(n)

-----------------------------------------------------------------------------
(* Two runs of one name, and the order a run never goes back in            *)

LEMMA Pair ==
    ASSUME NEW r \in Runs, NEW s \in Runs, r # s, NEW n, Named(r, n), Named(s, n)
    PROVE  Collided(n)
<1> DEFINE Sharing == {q \in Runs : run[q].pc # "idle" /\ run[q].name = n}
<1>1. IsFiniteSet(Sharing) /\ {r, s} \subseteq Sharing
  BY ConstantsAssumption, FS_Subset DEF Named
<1>2. IsFiniteSet({r}) /\ Cardinality({r}) = 1 /\ s \notin {r} /\ {r} \cup {s} = {r, s}
  BY FS_Singleton
<1>3. Cardinality({r, s}) = 2
  BY <1>2, FS_AddElement
<1>4. Cardinality({r, s}) <= Cardinality(Sharing) /\ Cardinality(Sharing) \in Nat
  BY <1>1, FS_Subset, FS_CardinalityType
<1>5. Cardinality(Sharing) > 1
  BY <1>3, <1>4
<1>6. QED
  BY <1>5 DEF Collided

\* Sound, in the state after the step.
SoundNext(n, v) ==
    \/ v = NoRun
    \/ Cardinality({r \in Runs : run'[r].pc # "idle" /\ run'[r].name = n}) > 1
    \/ v \in Runs /\ run'[v].pc # "idle" /\ run'[v].name = n

\* A run that has begun keeps its name, so what was sound stays so.
LEMMA SoundStays ==
    ASSUME \A r \in Runs : run[r].pc # "idle" => run'[r].pc # "idle" /\ run'[r].name = run[r].name
    PROVE  \A n, v : Sound(n, v) => SoundNext(n, v)
<1> SUFFICES ASSUME NEW n, NEW v, Sound(n, v)
             PROVE  SoundNext(n, v)
  OBVIOUS
<1> DEFINE Sharing == {q \in Runs : run[q].pc # "idle" /\ run[q].name = n}
           Later == {q \in Runs : run'[q].pc # "idle" /\ run'[q].name = n}
<1>1. Sharing \subseteq Later /\ IsFiniteSet(Later) /\ IsFiniteSet(Sharing)
  BY ConstantsAssumption, FS_Subset
<1>2. Cardinality(Sharing) <= Cardinality(Later) /\ Cardinality(Later) \in Nat /\ Cardinality(Sharing) \in Nat
  BY <1>1, FS_Subset, FS_CardinalityType
<1>3. Cardinality(Sharing) > 1 => Cardinality(Later) > 1
  BY <1>2
<1>4. QED
  BY <1>3 DEF Sound, SoundNext, Named, Collided

-----------------------------------------------------------------------------
(* What a step does to the run that takes it                               *)

Pcs == {"idle", "save", "pull", "pulling", "cleanup", "hash", "list", "rotate", "upload", "waiting", "done"}
Outcomes == {"none", "success", "failed", "crashed", "killed"}

\* Run r is now at pc, with this sha, result, upload and call; the others stand still.
Moves(r, pc, sha, result, uploaded, c) ==
    /\ run' \in [Runs -> Run]
    /\ run'[r].pc = pc /\ run'[r].sha = sha /\ run'[r].result = result
    /\ run'[r].uploaded = uploaded /\ run'[r].call = c
    /\ run'[r].name = run[r].name
    /\ \A s \in Runs \ {r} : run'[s] = run[s]

LEMMA MovesAs ==
    ASSUME run \in [Runs -> Run], NEW r \in Runs, NEW x \in Run, x.name = run[r].name,
           run' = [run EXCEPT ![r] = x]
    PROVE  Moves(r, x.pc, x.sha, x.result, x.uploaded, x.call)
BY DEF Moves

LEMMA GotoMoves ==
    ASSUME run \in [Runs -> Run], NEW r \in Runs, NEW pc \in Pcs, Goto(r, pc)
    PROVE  Moves(r, pc, run[r].sha, run[r].result, run[r].uploaded, run[r].call)
<1> DEFINE x == [run[r] EXCEPT !.pc = pc]
<1>1. run[r] \in Run
  OBVIOUS
<1>2. x \in Run
  BY <1>1 DEF Run, Pcs
<1>3. /\ x.pc = pc /\ x.name = run[r].name /\ x.sha = run[r].sha /\ x.result = run[r].result
      /\ x.uploaded = run[r].uploaded /\ x.call = run[r].call
  BY <1>1 DEF Run
<1>4. run' = [run EXCEPT ![r] = x]
  BY DEF Goto
<1> HIDE DEF x
<1>5. Moves(r, x.pc, x.sha, x.result, x.uploaded, x.call)
  BY <1>2, <1>3, <1>4, MovesAs
<1>6. QED
  BY <1>3, <1>5

LEMMA FailMoves ==
    ASSUME run \in [Runs -> Run], NEW r \in Runs, NEW pc \in Pcs, Fail(r, pc)
    PROVE  Moves(r, pc, NoRun, "failed", run[r].uploaded, run[r].call)
<1> DEFINE x == [run[r] EXCEPT !.pc = pc, !.result = "failed", !.sha = NoRun]
<1>1. run[r] \in Run
  OBVIOUS
<1>2. x \in Run
  BY <1>1 DEF Run, Pcs
<1>3. /\ x.pc = pc /\ x.name = run[r].name /\ x.sha = NoRun /\ x.result = "failed"
      /\ x.uploaded = run[r].uploaded /\ x.call = run[r].call
  BY <1>1 DEF Run
<1>4. run' = [run EXCEPT ![r] = x]
  BY DEF Fail
<1> HIDE DEF x
<1>5. Moves(r, x.pc, x.sha, x.result, x.uploaded, x.call)
  BY <1>2, <1>3, <1>4, MovesAs
<1>6. QED
  BY <1>3, <1>5

LEMMA ShaMoves ==
    ASSUME run \in [Runs -> Run], NEW r \in Runs, NEW pc \in Pcs, NEW v \in Contents \cup {NoRun},
           run' = [run EXCEPT ![r].pc = pc, ![r].sha = v]
    PROVE  Moves(r, pc, v, run[r].result, run[r].uploaded, run[r].call)
<1> DEFINE x == [run[r] EXCEPT !.pc = pc, !.sha = v]
<1>1. run[r] \in Run
  OBVIOUS
<1>2. x \in Run
  BY <1>1 DEF Run, Pcs
<1>3. /\ x.pc = pc /\ x.name = run[r].name /\ x.sha = v /\ x.result = run[r].result
      /\ x.uploaded = run[r].uploaded /\ x.call = run[r].call
  BY <1>1 DEF Run
<1>4. run' = [run EXCEPT ![r] = x]
  OBVIOUS
<1> HIDE DEF x
<1>5. Moves(r, x.pc, x.sha, x.result, x.uploaded, x.call)
  BY <1>2, <1>3, <1>4, MovesAs
<1>6. QED
  BY <1>3, <1>5

LEMMA WaitMoves ==
    ASSUME run \in [Runs -> Run], NEW r \in Runs, NEW k \in Calls, NEW n \in 0..2,
           run' = [run EXCEPT ![r].pc = "waiting", ![r].call = k, ![r].tries = n]
    PROVE  Moves(r, "waiting", run[r].sha, run[r].result, run[r].uploaded, k)
<1> DEFINE x == [run[r] EXCEPT !.pc = "waiting", !.call = k, !.tries = n]
<1>1. run[r] \in Run
  OBVIOUS
<1>2. x \in Run
  BY <1>1 DEF Run
<1>3. /\ x.pc = "waiting" /\ x.name = run[r].name /\ x.sha = run[r].sha /\ x.result = run[r].result
      /\ x.uploaded = run[r].uploaded /\ x.call = k
  BY <1>1 DEF Run
<1>4. run' = [run EXCEPT ![r] = x]
  OBVIOUS
<1> HIDE DEF x
<1>5. Moves(r, x.pc, x.sha, x.result, x.uploaded, x.call)
  BY <1>2, <1>3, <1>4, MovesAs
<1>6. QED
  BY <1>3, <1>5

LEMMA ListMoves ==
    ASSUME run \in [Runs -> Run], NEW r \in Runs, NEW pc \in Pcs, NEW l \in SUBSET Names,
           run' = [run EXCEPT ![r].pc = pc, ![r].listed = l]
    PROVE  /\ Moves(r, pc, run[r].sha, run[r].result, run[r].uploaded, run[r].call)
           /\ run'[r].listed = l
<1> DEFINE x == [run[r] EXCEPT !.pc = pc, !.listed = l]
<1>1. run[r] \in Run
  OBVIOUS
<1>2. x \in Run
  BY <1>1 DEF Run, Pcs
<1>3. /\ x.pc = pc /\ x.name = run[r].name /\ x.sha = run[r].sha /\ x.result = run[r].result
      /\ x.uploaded = run[r].uploaded /\ x.call = run[r].call /\ x.listed = l
  BY <1>1 DEF Run
<1>4. run' = [run EXCEPT ![r] = x]
  OBVIOUS
<1> HIDE DEF x
<1>5. Moves(r, x.pc, x.sha, x.result, x.uploaded, x.call) /\ run'[r] = x
  BY <1>2, <1>3, <1>4, MovesAs
<1>6. QED
  BY <1>3, <1>5

LEMMA DoneFields ==
    ASSUME NEW x \in Run, NEW result \in Outcomes, NEW uploaded \in BOOLEAN
    PROVE  LET y == Done(x, result, uploaded) IN
           /\ y \in Run /\ y.pc = "done" /\ y.name = x.name /\ y.sha = NoRun /\ y.result = result
           /\ y.uploaded = uploaded /\ y.call = NoCall
<1>1. Done(x, result, uploaded) \in Run
  <2> DEFINE y == [x EXCEPT !.pc = "done", !.result = result, !.uploaded = uploaded]
             z == [y EXCEPT !.sha = NoRun, !.call = NoCall, !.tries = 0, !.listed = {}]
  <2>1. y \in Run
    BY DEF Run, Outcomes
  <2>2. Done(x, result, uploaded) = z
    BY DEF Done
  <2> HIDE DEF y
  <2>3. z \in Run
    <3>1. ASSUME NEW n \in 0..2
          PROVE  [y EXCEPT !.sha = NoRun, !.call = NoCall, !.tries = n, !.listed = {}] \in Run
      BY <2>1 DEF Run
    <3>2. QED
      BY <3>1
  <2>4. QED
    BY <2>2, <2>3
<1>2. /\ Done(x, result, uploaded).pc = "done" /\ Done(x, result, uploaded).name = x.name
      /\ Done(x, result, uploaded).sha = NoRun /\ Done(x, result, uploaded).result = result
      /\ Done(x, result, uploaded).uploaded = uploaded /\ Done(x, result, uploaded).call = NoCall
  BY DEF Done, Run
<1>3. QED
  BY <1>1, <1>2

LEMMA DoneMoves ==
    ASSUME run \in [Runs -> Run], NEW r \in Runs, NEW result \in Outcomes, NEW uploaded \in BOOLEAN,
           run' = [run EXCEPT ![r] = Done(@, result, uploaded)]
    PROVE  Moves(r, "done", NoRun, result, uploaded, NoCall)
<1> DEFINE x == Done(run[r], result, uploaded)
<1>1. run' = [run EXCEPT ![r] = x]
  OBVIOUS
<1>2. /\ x \in Run /\ x.pc = "done" /\ x.name = run[r].name /\ x.sha = NoRun /\ x.result = result
      /\ x.uploaded = uploaded /\ x.call = NoCall
  BY DoneFields
<1> HIDE DEF x
<1>3. Moves(r, x.pc, x.sha, x.result, x.uploaded, x.call)
  BY <1>1, <1>2, MovesAs
<1>4. QED
  BY <1>2, <1>3

\* What each step of a run makes of it.
LEMMA Moving ==
    ASSUME IInv, NEW r \in Runs
    PROVE  LET x == run[r]
               Same(pc) == Moves(r, pc, x.sha, x.result, x.uploaded, x.call)
               Failing(pc) == Moves(r, pc, NoRun, "failed", x.uploaded, x.call) IN
           /\ Save(r) => Same("pull") \/ Failing("cleanup")
           /\ PullBegin(r) => IF router[x.name] = NoRun THEN Failing("cleanup")
                ELSE Moves(r, "pulling", router[x.name], x.result, x.uploaded, x.call)
           /\ PullEnd(r) => IF local[x.name] = NoRun THEN Failing("cleanup")
                ELSE Moves(r, "cleanup", NoRun, x.result, x.uploaded, x.call)
           /\ PullFails(r) => Failing("cleanup")
           /\ Cleanup(r) => Same(IF x.result = "none" THEN "hash" ELSE "done")
           /\ Hash(r) => IF local[x.name] = NoRun THEN Moves(r, "done", NoRun, "crashed", FALSE, NoCall)
                ELSE Moves(r, "list", local[x.name], x.result, x.uploaded, x.call)
           /\ List(r) => Same("rotate") /\ run'[r].listed = Files
           /\ Rotate(r) => IF x.listed \subseteq Files THEN Same("upload")
                ELSE Moves(r, "done", NoRun, "crashed", FALSE, NoCall)
           /\ GiveUp(r) => Moves(r, "done", NoRun, "success", FALSE, NoCall)
           /\ Uploaded(r) => Moves(r, "done", NoRun, "success", call[x.call].ok, NoCall)
<1>0. run \in [Runs -> Run] /\ run[r] \in Run /\ run[r].name \in Names
  BY DEF IInv, Types, Run
<1>1. Save(r) => \/ Moves(r, "pull", run[r].sha, run[r].result, run[r].uploaded, run[r].call)
                 \/ Moves(r, "cleanup", NoRun, "failed", run[r].uploaded, run[r].call)
  BY <1>0, GotoMoves, FailMoves DEF Save, Pcs
<1>2. PullBegin(r) => IF router[run[r].name] = NoRun
        THEN Moves(r, "cleanup", NoRun, "failed", run[r].uploaded, run[r].call)
        ELSE Moves(r, "pulling", router[run[r].name], run[r].result, run[r].uploaded, run[r].call)
  <2>1. router[run[r].name] \in Contents \cup {NoRun}
    BY <1>0 DEF IInv, Types, Contents
  <2>2. QED
    BY <1>0, <2>1, FailMoves, ShaMoves DEF PullBegin, Pcs
<1>3. PullEnd(r) => IF local[run[r].name] = NoRun
        THEN Moves(r, "cleanup", NoRun, "failed", run[r].uploaded, run[r].call)
        ELSE Moves(r, "cleanup", NoRun, run[r].result, run[r].uploaded, run[r].call)
  BY <1>0, FailMoves, ShaMoves DEF PullEnd, Files, Pcs
<1>4. PullFails(r) => Moves(r, "cleanup", NoRun, "failed", run[r].uploaded, run[r].call)
  BY <1>0, FailMoves DEF PullFails, Pcs
<1>5. Cleanup(r) => Moves(r, IF run[r].result = "none" THEN "hash" ELSE "done",
                          run[r].sha, run[r].result, run[r].uploaded, run[r].call)
  BY <1>0, GotoMoves DEF Cleanup, Pcs
<1>6. Hash(r) => IF local[run[r].name] = NoRun THEN Moves(r, "done", NoRun, "crashed", FALSE, NoCall)
        ELSE Moves(r, "list", local[run[r].name], run[r].result, run[r].uploaded, run[r].call)
  <2>1. local[run[r].name] \in Contents \cup {NoRun}
    BY <1>0 DEF IInv, Types
  <2>2. QED
    BY <1>0, <2>1, DoneMoves, ShaMoves DEF Hash, Pcs, Outcomes
<1>7. Rotate(r) => IF run[r].listed \subseteq Files
        THEN Moves(r, "upload", run[r].sha, run[r].result, run[r].uploaded, run[r].call)
        ELSE Moves(r, "done", NoRun, "crashed", FALSE, NoCall)
  <2>1. CASE run[r].listed \subseteq Files
    <3>1. Rotate(r) => run' = [run EXCEPT ![r].pc = "upload", ![r].listed = {}]
      BY <2>1 DEF Rotate
    <3>2. {} \in SUBSET Names
      OBVIOUS
    <3>3. QED
      BY <1>0, <2>1, <3>1, <3>2, ListMoves DEF Pcs
  <2>2. CASE ~(run[r].listed \subseteq Files)
    <3>1. Rotate(r) => run' = [run EXCEPT ![r] = Done(@, "crashed", FALSE)]
      BY <2>2 DEF Rotate, Missed
    <3>2. QED
      BY <1>0, <2>2, <3>1, DoneMoves DEF Outcomes
  <2>3. QED
    BY <2>1, <2>2
<1>l. List(r) => /\ Moves(r, "rotate", run[r].sha, run[r].result, run[r].uploaded, run[r].call)
                 /\ run'[r].listed = Files
  <2>1. Files \in SUBSET Names
    BY DEF Files
  <2>2. QED
    BY <1>0, <2>1, ListMoves DEF List, Pcs
<1>8. GiveUp(r) => Moves(r, "done", NoRun, "success", FALSE, NoCall)
  BY <1>0, DoneMoves DEF GiveUp, Finish, Outcomes
<1>9. ASSUME Uploaded(r)
      PROVE  Moves(r, "done", NoRun, "success", call[run[r].call].ok, NoCall)
  <2>1. Finish(r, call[run[r].call].ok) /\ call[run[r].call].pc = "answered" /\ run[r].pc = "waiting"
    BY <1>9 DEF Uploaded
  <2>2. call[run[r].call].ok \in BOOLEAN
    <3>1. run[r].call \in Calls
      BY <1>0, <2>1 DEF IInv, RunOK, Run
    <3>2. QED
      BY <3>1 DEF IInv, Types, Call
  <2>3. QED
    BY <1>0, <2>1, <2>2, DoneMoves DEF Finish, Outcomes
<1>10. QED
  BY <1>1, <1>2, <1>3, <1>4, <1>5, <1>6, <1>7, <1>8, <1>9, <1>l

\* A run begins under the name of the second.
LEMMA Beginning ==
    ASSUME IInv, NEW r \in Runs, Begin(r)
    PROVE  /\ run' \in [Runs -> Run] /\ run[r].pc = "idle" /\ run'[r].pc = "save"
           /\ run'[r].name = clock /\ run'[r].result = run[r].result
           /\ run'[r].call = run[r].call /\ run'[r].uploaded = run[r].uploaded
           /\ \A s \in Runs \ {r} : run'[s] = run[s]
<1> DEFINE x == [run[r] EXCEPT !.pc = "save", !.name = clock]
<1>1. run \in [Runs -> Run] /\ run[r] \in Run /\ clock \in Names
  BY DEF IInv, Types
<1>2. x \in Run
  BY <1>1 DEF Run
<1>3. /\ x.pc = "save" /\ x.name = clock /\ x.result = run[r].result
      /\ x.call = run[r].call /\ x.uploaded = run[r].uploaded
  BY <1>1 DEF Run
<1>4. run' = [run EXCEPT ![r] = x] /\ run[r].pc = "idle"
  BY DEF Begin
<1> HIDE DEF x
<1>5. QED
  BY <1>1, <1>2, <1>3, <1>4

-----------------------------------------------------------------------------
(* What a step does to an upload attempt                                   *)

\* Attempt k is now at pc, with this name, body and answer; the others stand still.
Asks(k, pc, name, body, ok) ==
    /\ call' \in [Calls -> Call]
    /\ call'[k].pc = pc /\ call'[k].name = name /\ call'[k].body = body /\ call'[k].ok = ok
    /\ \A j \in Calls \ {k} : call'[j] = call[j]

LEMMA AsksAs ==
    ASSUME call \in [Calls -> Call], NEW k \in Calls, NEW x \in Call, call' = [call EXCEPT ![k] = x]
    PROVE  Asks(k, x.pc, x.name, x.body, x.ok)
BY DEF Asks

LEMMA StepAsks ==
    ASSUME call \in [Calls -> Call], NEW k \in Calls, NEW pc \in {"put", "insert"},
           call' = [call EXCEPT ![k].pc = pc]
    PROVE  Asks(k, pc, call[k].name, call[k].body, call[k].ok)
<1> DEFINE x == [call[k] EXCEPT !.pc = pc]
<1>1. x \in Call
  BY DEF Call
<1>2. x.pc = pc /\ x.name = call[k].name /\ x.body = call[k].body /\ x.ok = call[k].ok
  BY DEF Call
<1>3. call' = [call EXCEPT ![k] = x]
  OBVIOUS
<1> HIDE DEF x
<1>4. Asks(k, x.pc, x.name, x.body, x.ok)
  BY <1>1, <1>3, AsksAs
<1>5. QED
  BY <1>2, <1>4

LEMMA AnswerAsks ==
    ASSUME call \in [Calls -> Call], NEW k \in Calls, NEW ok \in BOOLEAN, Answer(k, ok)
    PROVE  Asks(k, "answered", call[k].name, call[k].body, ok)
<1> DEFINE x == [call[k] EXCEPT !.pc = "answered", !.ok = ok]
<1>1. x \in Call
  BY DEF Call
<1>2. x.pc = "answered" /\ x.name = call[k].name /\ x.body = call[k].body /\ x.ok = ok
  BY DEF Call
<1>3. call' = [call EXCEPT ![k] = x]
  BY DEF Answer
<1> HIDE DEF x
<1>4. Asks(k, x.pc, x.name, x.body, x.ok)
  BY <1>1, <1>3, AsksAs
<1>5. QED
  BY <1>2, <1>4

LEMMA IdleAsks ==
    ASSUME call \in [Calls -> Call], NEW k \in Calls, call' = [call EXCEPT ![k] = IdleCall]
    PROVE  Asks(k, "idle", 1, NoRun, FALSE)
<1>1. 1 \in Names
  BY ConstantsAssumption DEF Names
<1>2. IdleCall \in Call
  BY <1>1 DEF IdleCall, Call
<1>3. IdleCall.pc = "idle" /\ IdleCall.name = 1 /\ IdleCall.body = NoRun /\ IdleCall.ok = FALSE
  BY DEF IdleCall
<1>4. QED
  BY <1>2, <1>3, AsksAs

\* An upload or its retry: the file is gone and the upload is over, or the attempt
\* carries what lies under the name.
LEMMA Sending ==
    ASSUME IInv, NEW r \in Runs, NEW k \in Calls, Upload(r, k) \/ Retry(r, k)
    PROVE  /\ run[r].pc \in {"upload", "waiting"} /\ call[k].pc = "idle"
           /\ \/ Moves(r, "done", NoRun, "success", FALSE, NoCall) /\ call' = call
              \/ /\ local[run[r].name] # NoRun
                 /\ Moves(r, "waiting", run[r].sha, run[r].result, run[r].uploaded, k)
                 /\ Asks(k, "sent", run[r].name, local[run[r].name], FALSE)
<1> DEFINE n == run[r].name
<1>0. /\ run \in [Runs -> Run] /\ run[r] \in Run /\ run[r].name \in Names /\ run[r].sha \in Contents \cup {NoRun}
      /\ call \in [Calls -> Call]
  BY DEF IInv, Types, Run
<1>1. PICK tries \in {1, 2} : Send(r, k, tries)
  BY DEF Upload, Retry
<1>2. run[r].pc \in {"upload", "waiting"} /\ call[k].pc = "idle"
  BY DEF Upload, Retry
<1>3. CASE local[n] = NoRun
  BY <1>0, <1>1, <1>2, <1>3, DoneMoves DEF Send, Finish, Outcomes
<1>4. CASE local[n] # NoRun
  <2> DEFINE x == [pc |-> "sent", name |-> n, body |-> local[n], sha |-> run[r].sha, ok |-> FALSE]
  <2>1. /\ run' = [run EXCEPT ![r].pc = "waiting", ![r].call = k, ![r].tries = tries]
        /\ call' = [call EXCEPT ![k] = x]
    BY <1>1, <1>4, Zenon DEF Send
  <2>2. local[n] \in Contents \cup {NoRun}
    BY <1>0 DEF IInv, Types
  <2>3. x \in Call
    BY <1>0, <2>2 DEF Call
  <2>4. Asks(k, "sent", n, local[n], FALSE)
    <3>1. Asks(k, x.pc, x.name, x.body, x.ok)
      BY <1>0, <2>1, <2>3, AsksAs
    <3>2. QED
      BY <3>1
  <2>5. tries \in 0..2
    OBVIOUS
  <2>6. Moves(r, "waiting", run[r].sha, run[r].result, run[r].uploaded, k)
    BY <1>0, <2>1, <2>5, WaitMoves
  <2>7. QED
    BY <1>2, <1>4, <2>4, <2>6
<1>5. QED
  BY <1>3, <1>4

-----------------------------------------------------------------------------
(* What never goes back                                                    *)

RunSteps(r) ==
    \/ Save(r) \/ PullBegin(r) \/ PullEnd(r) \/ PullFails(r) \/ Cleanup(r) \/ Hash(r) \/ List(r)
    \/ Rotate(r) \/ GiveUp(r) \/ Uploaded(r)

\* A run's step but its first moves it, under the name it has.
LEMMA OneMoves ==
    ASSUME IInv, NEW r \in Runs, RunSteps(r) \/ \E k \in Calls : Upload(r, k) \/ Retry(r, k)
    PROVE  /\ run' \in [Runs -> Run] /\ run[r].pc # "idle" /\ run'[r].pc # "idle"
           /\ run'[r].name = run[r].name
           /\ \A s \in Runs \ {r} : run'[s] = run[s]
<1>1. CASE RunSteps(r)
  <2>1. run[r].pc # "idle"
    BY <1>1 DEF RunSteps, Save, PullBegin, PullWrites, PullEnd, PullFails, Cleanup, Hash, List, Rotate, GiveUp, Uploaded
  <2>2. \E pc \in Pcs \ {"idle"} : \E v, result, uploaded, c : Moves(r, pc, v, result, uploaded, c)
    <3>1. Save(r) => \E pc \in {"pull", "cleanup"} : \E v, result, uploaded, c : Moves(r, pc, v, result, uploaded, c)
      BY Moving
    <3>2. PullBegin(r) => \E pc \in {"pulling", "cleanup"} : \E v, result, uploaded, c : Moves(r, pc, v, result, uploaded, c)
      BY Moving
    <3>3. Cleanup(r) => \E pc \in {"hash", "done"} : \E v, result, uploaded, c : Moves(r, pc, v, result, uploaded, c)
      BY Moving
    <3>4. Hash(r) => \E pc \in {"list", "done"} : \E v, result, uploaded, c : Moves(r, pc, v, result, uploaded, c)
      BY Moving
    <3>5. PullEnd(r) \/ PullFails(r) => \E v, result, uploaded, c : Moves(r, "cleanup", v, result, uploaded, c)
      BY Moving
    <3>6. List(r) \/ Rotate(r) => \E pc \in {"rotate", "upload", "done"} :
            \E v, result, uploaded, c : Moves(r, pc, v, result, uploaded, c)
      BY Moving
    <3>7. GiveUp(r) \/ Uploaded(r) => \E v, result, uploaded, c : Moves(r, "done", v, result, uploaded, c)
      BY Moving
    <3>8. QED
      BY <1>1, <3>1, <3>2, <3>3, <3>4, <3>5, <3>6, <3>7 DEF RunSteps, Pcs
  <2>3. QED
    BY <2>1, <2>2 DEF Moves
<1>2. CASE \E k \in Calls : Upload(r, k) \/ Retry(r, k)
  <2>1. PICK k \in Calls : Upload(r, k) \/ Retry(r, k)
    BY <1>2
  <2>2. QED
    BY <2>1, Sending DEF Moves
<1>3. QED
  BY <1>1, <1>2

\* The agent is killed.
LEMMA Killed ==
    ASSUME IInv, Crash
    PROVE  /\ run' \in [Runs -> Run]
           /\ \A r \in Runs : run[r].pc \in {"idle", "done"} => run'[r] = run[r]
           /\ \A r \in Runs : run[r].pc \notin {"idle", "done"} =>
                /\ run'[r].pc = "done" /\ run'[r].name = run[r].name /\ run'[r].uploaded = FALSE
                /\ run'[r].call = NoCall /\ run'[r].result = "killed"
<1>0. run \in [Runs -> Run]
  BY DEF IInv, Types
<1>1. run' = [r \in Runs |-> IF r \in {q \in Runs : run[q].pc \notin {"idle", "done"}}
                              THEN Done(run[r], "killed", FALSE) ELSE run[r]]
  BY Zenon DEF Crash
<1>2. ASSUME NEW r \in Runs
      PROVE  /\ run'[r] \in Run
             /\ run[r].pc \in {"idle", "done"} => run'[r] = run[r]
             /\ run[r].pc \notin {"idle", "done"} =>
                  /\ run'[r].pc = "done" /\ run'[r].name = run[r].name /\ run'[r].uploaded = FALSE
                  /\ run'[r].call = NoCall /\ run'[r].result = "killed"
  <2> DEFINE y == Done(run[r], "killed", FALSE)
  <2>1. /\ y \in Run /\ y.pc = "done" /\ y.name = run[r].name /\ y.uploaded = FALSE /\ y.call = NoCall
        /\ y.result = "killed"
    BY <1>0, DoneFields DEF Outcomes
  <2>2. run'[r] = IF run[r].pc \notin {"idle", "done"} THEN y ELSE run[r]
    BY <1>1
  <2> HIDE DEF y
  <2>3. QED
    BY <1>0, <2>1, <2>2
<1>3. run' \in [Runs -> Run]
  <2>1. \A r \in Runs : run'[r] \in Run
    BY <1>2
  <2>2. QED
    BY <1>1, <2>1
<1>4. QED
  BY <1>2, <1>3

LEMMA RunsTyped == IInv /\ [Next]_vars => run' \in [Runs -> Run]
<1> SUFFICES ASSUME IInv, [Next]_vars
             PROVE  run' \in [Runs -> Run]
  OBVIOUS
<1>1. CASE \E r \in Runs : Begin(r)
  BY <1>1, Beginning
<1>2. CASE \E r \in Runs : RunSteps(r) \/ \E k \in Calls : Upload(r, k) \/ Retry(r, k)
  BY <1>2, OneMoves
<1>3. CASE Crash
  BY <1>3, Killed
<1>4. CASE Tick \/ DeleteDevice \/ (\E k \in Calls : Serve(k)) \/ (\E r \in Runs : PullWrites(r)) \/ UNCHANGED vars
  <2>1. run' = run
    BY <1>4 DEF Tick, DeleteDevice, Serve, Check, Put, Insert, Forget, PullWrites, vars
  <2>2. QED
    BY <2>1 DEF IInv, Types
<1>5. QED
  BY <1>1, <1>2, <1>3, <1>4 DEF Next, Agent, RunSteps

\* A run that has begun stays begun, and keeps its name.
LEMMA Begun ==
    ASSUME IInv, [Next]_vars
    PROVE  \A r \in Runs : run[r].pc # "idle" => run'[r].pc # "idle" /\ run'[r].name = run[r].name
<1>1. CASE \E r \in Runs : Begin(r)
  BY <1>1, Beginning
<1>2. CASE \E r \in Runs : RunSteps(r) \/ \E k \in Calls : Upload(r, k) \/ Retry(r, k)
  BY <1>2, OneMoves
<1>3. CASE Crash
  <2>1. ASSUME NEW r \in Runs, run[r].pc # "idle"
        PROVE  run'[r].pc # "idle" /\ run'[r].name = run[r].name
    BY <1>3, <2>1, Killed
  <2>2. QED
    BY <2>1
<1>4. CASE Tick \/ DeleteDevice \/ (\E k \in Calls : Serve(k)) \/ (\E r \in Runs : PullWrites(r)) \/ UNCHANGED vars
  <2>1. run' = run
    BY <1>4 DEF Tick, DeleteDevice, Serve, Check, Put, Insert, Forget, PullWrites, vars
  <2>2. QED
    BY <2>1
<1>5. QED
  BY <1>1, <1>2, <1>3, <1>4 DEF Next, Agent, RunSteps

\* What was sound stays so.
LEMMA StillSound ==
    ASSUME IInv, [Next]_vars
    PROVE  \A n, v : Sound(n, v) => SoundNext(n, v)
BY Begun, SoundStays

\* A device is deleted for good; until then its rows and bodies stay.
LEMMA WorkerKeeps ==
    ASSUME IInv, [Next]_vars
    PROVE  /\ live' => live
           /\ \A n \in Names : rows[n] # NoRun /\ live' => rows'[n] # NoRun
           /\ \A n \in Names : r2[n] # NoRun => r2'[n] # NoRun
<1>0. r2 \in [Names -> Contents \cup {NoRun}] /\ rows \in [Names -> Contents \cup {NoRun}]
  BY DEF IInv, Types
<1>1. ASSUME NEW k \in Calls, Put(k)
      PROVE  live' = live /\ rows' = rows /\ \A n \in Names : r2[n] # NoRun => r2'[n] # NoRun
  <2>1. call[k].body # NoRun /\ UNCHANGED <<live, rows>> /\ r2' = [r2 EXCEPT ![call[k].name] = call[k].body]
    BY <1>1 DEF Put, IInv, CallOK
  <2>2. QED
    BY <1>0, <2>1
<1>2. ASSUME NEW k \in Calls, Insert(k)
      PROVE  live' = live /\ r2' = r2 /\ \A n \in Names : rows[n] # NoRun => rows'[n] # NoRun
  BY <1>0, <1>2 DEF Insert
<1>3. CASE DeleteDevice
  BY <1>3 DEF DeleteDevice
<1>4. CASE ~DeleteDevice /\ ~\E k \in Calls : Put(k) \/ Insert(k)
  <2>1. UNCHANGED <<live, rows, r2>>
    BY <1>4 DEF Next, Agent, Serve, Tick, Crash, Begin, Save, PullBegin, PullWrites, PullEnd, PullFails, Cleanup, Hash, List,
       Rotate, Upload, Retry, GiveUp, Uploaded, Check, Forget, worker, vars
  <2>2. QED
    BY <2>1
<1>5. QED
  BY <1>1, <1>2, <1>3, <1>4

-----------------------------------------------------------------------------
(* Types                                                                   *)

\* The archive under a name changes by a run of that name which pulls, or loses
\* the file to a rotation.
LEMMA Archive ==
    ASSUME IInv, [Next]_vars
    PROVE  /\ local' \in [Names -> Contents \cup {NoRun}]
           /\ \A n \in Names : \/ local'[n] \in {local[n], NoRun}
                               \/ \E r \in Runs : run[r].pc \in {"pull", "pulling"} /\ run[r].name = n
<1>0. /\ local \in [Names -> Contents \cup {NoRun}]
      /\ \A r \in Runs : run[r].name \in Names
  BY DEF IInv, Types, Run
<1>1. ASSUME NEW r \in Runs, PullBegin(r) \/ PullWrites(r) \/ PullEnd(r)
      PROVE  /\ local' \in [Names -> Contents \cup {NoRun}]
             /\ \A n \in Names : n = run[r].name \/ local'[n] = local[n]
             /\ run[r].pc \in {"pull", "pulling"}
  <2>1. /\ run[r].pc \in {"pull", "pulling"}
        /\ \/ local' = local
           \/ \E v \in {Torn, run[r].sha} : v \in Contents /\ local' = [local EXCEPT ![run[r].name] = v]
    <3>1. CASE PullBegin(r) \/ PullWrites(r)
      BY <3>1 DEF PullBegin, PullWrites, Written, Contents
    <3>2. CASE PullEnd(r)
      <4>1. run[r].pc = "pulling" /\ run[r].sha \in Contents
        BY <3>2 DEF PullEnd, IInv, RunOK, Contents
      <4>2. local' = local \/ \E v \in {Torn, run[r].sha} : local' = [local EXCEPT ![run[r].name] = v]
        BY <3>2 DEF PullEnd, Written, archive
      <4>3. QED
        BY <4>1, <4>2 DEF Contents
    <3>3. QED
      BY <1>1, <3>1, <3>2
  <2>2. QED
    BY <1>0, <2>1
<1>2. ASSUME NEW r \in Runs, Rotate(r)
      PROVE  /\ local' \in [Names -> Contents \cup {NoRun}]
             /\ \A n \in Names : local'[n] \in {local[n], NoRun}
  <2>1. local' = local \/ \E gone : local' = [n \in Names |-> IF n \in gone THEN NoRun ELSE local[n]]
    BY <1>2, Zenon DEF Rotate, Missed, Without, archive
  <2>2. QED
    BY <1>0, <2>1
<1>3. CASE ~\E r \in Runs : PullBegin(r) \/ PullWrites(r) \/ PullEnd(r) \/ Rotate(r)
  <2>1. local' = local
    BY <1>3 DEF Next, Agent, Serve, Tick, DeleteDevice, Crash, Begin, Save, PullFails, Cleanup, Hash, List, Upload,
       Retry, GiveUp, Uploaded, Check, Put, Insert, Forget, archive, vars
  <2>2. QED
    BY <1>0, <2>1
<1>4. QED
  BY <1>1, <1>2, <1>3

\* The router's files: a run saves its own, or removes it.
LEMMA OnRouter ==
    ASSUME IInv, [Next]_vars
    PROVE  /\ router' \in [Names -> Runs \cup {NoRun}]
           /\ \A n \in Names : \/ router'[n] \in {router[n], NoRun}
                               \/ \E r \in Runs : Save(r) /\ run[r].name = n /\ router'[n] = r
<1>0. /\ router \in [Names -> Runs \cup {NoRun}]
      /\ \A r \in Runs : run[r].name \in Names
  BY DEF IInv, Types, Run
<1>1. ASSUME NEW r \in Runs, Save(r)
      PROVE  router' \in {router, [router EXCEPT ![run[r].name] = r]}
  BY <1>1 DEF Save
<1>2. ASSUME NEW r \in Runs, Cleanup(r)
      PROVE  router' \in {router, [router EXCEPT ![run[r].name] = NoRun]}
  BY <1>2 DEF Cleanup
<1>3. CASE ~\E r \in Runs : Save(r) \/ Cleanup(r)
  <2>1. router' = router
    BY <1>3 DEF Next, Agent, Serve, Tick, DeleteDevice, Crash, Begin, PullBegin, PullWrites, PullEnd, PullFails, Hash, List,
       Rotate, Upload, Retry, GiveUp, Uploaded, Check, Put, Insert, Forget, vars
  <2>2. QED
    BY <1>0, <2>1
<1>4. QED
  BY <1>0, <1>1, <1>2, <1>3

\* An attempt is sent, served, answered, read or forgotten; the others stand still.
LEMMA CallsTyped == IInv /\ [Next]_vars => call' \in [Calls -> Call]
<1> SUFFICES ASSUME IInv, [Next]_vars
             PROVE  call' \in [Calls -> Call]
  OBVIOUS
<1>0. call \in [Calls -> Call]
  BY DEF IInv, Types
<1>1. CASE \E r \in Runs, k \in Calls : Upload(r, k) \/ Retry(r, k)
  BY <1>0, <1>1, Sending DEF Asks
<1>2. ASSUME NEW r \in Runs, Uploaded(r)
      PROVE  call' \in [Calls -> Call]
  <2>1. run[r].call \in Calls /\ call' = [call EXCEPT ![run[r].call] = IdleCall]
    BY <1>2 DEF Uploaded, IInv, Types, RunOK, Run
  <2>2. QED
    BY <1>0, <2>1, IdleAsks DEF Asks
<1>3. ASSUME NEW k \in Calls, Serve(k)
      PROVE  call' \in [Calls -> Call]
  <2>1. CASE Forget(k)
    BY <1>0, <2>1, IdleAsks DEF Asks, Forget
  <2>2. CASE Put(k)
    BY <1>0, <2>2, StepAsks DEF Asks, Put
  <2>3. CASE Insert(k)
    BY <1>0, <2>3, AnswerAsks DEF Asks, Insert, IInv, Types
  <2>4. CASE Check(k)
    <3>1. (\E ok \in BOOLEAN : Answer(k, ok)) \/ call' = [call EXCEPT ![k].pc = "put"]
      BY <2>4 DEF Check
    <3>2. QED
      BY <1>0, <3>1, AnswerAsks, StepAsks DEF Asks
  <2>5. QED
    BY <1>3, <2>1, <2>2, <2>3, <2>4 DEF Serve
<1>4. CASE /\ ~\E r \in Runs, k \in Calls : Upload(r, k) \/ Retry(r, k)
           /\ ~\E r \in Runs : Uploaded(r)
           /\ ~\E k \in Calls : Serve(k)
  <2>1. call' = call
    BY <1>4 DEF Next, Agent, Tick, DeleteDevice, Crash, Begin, Save, PullBegin, PullWrites, PullEnd, PullFails, Cleanup,
       Hash, List, Rotate, GiveUp, worker, vars
  <2>2. QED
    BY <1>0, <2>1
<1>5. QED
  BY <1>1, <1>2, <1>3, <1>4

LEMMA TypesStep == IInv /\ [Next]_vars => Types'
<1> SUFFICES ASSUME IInv, [Next]_vars
             PROVE  Types'
  OBVIOUS
<1>0. Types
  BY DEF IInv
<1>1. /\ run' \in [Runs -> Run] /\ call' \in [Calls -> Call]
      /\ local' \in [Names -> Contents \cup {NoRun}] /\ router' \in [Names -> Runs \cup {NoRun}]
  BY RunsTyped, CallsTyped, Archive, OnRouter
<1>2. clock' \in Names
  <2>1. CASE Tick
    BY <1>0, <2>1, ConstantsAssumption DEF Tick, Types, Names
  <2>2. CASE ~Tick
    <3>1. clock' = clock
      BY <2>2 DEF Next, Agent, Serve, DeleteDevice, Crash, Begin, Save, PullBegin, PullWrites, PullEnd, PullFails, Cleanup,
         Hash, List, Rotate, Upload, Retry, GiveUp, Uploaded, Check, Put, Insert, Forget, vars
    <3>2. QED
      BY <1>0, <3>1 DEF Types
  <2>3. QED
    BY <2>1, <2>2
<1>3. /\ r2' \in [Names -> Contents \cup {NoRun}] /\ rows' \in [Names -> Contents \cup {NoRun}]
      /\ live' \in BOOLEAN
  <2>0. \A k \in Calls : call[k].body \in Contents \cup {NoRun}
    BY <1>0 DEF Types, Call
  <2>1. ASSUME NEW k \in Calls, Put(k) \/ Insert(k)
        PROVE  /\ r2' \in [Names -> Contents \cup {NoRun}] /\ rows' \in [Names -> Contents \cup {NoRun}]
               /\ live' \in BOOLEAN
    <3>1. CASE Put(k)
      BY <1>0, <2>0, <3>1 DEF Types, Put
    <3>2. CASE Insert(k)
      <4>1. /\ UNCHANGED <<r2, live>>
            /\ rows' = rows \/ rows' = [rows EXCEPT ![call[k].name] = call[k].body]
        BY <3>2 DEF Insert
      <4>2. QED
        BY <1>0, <2>0, <4>1 DEF Types
    <3>3. QED
      BY <2>1, <3>1, <3>2
  <2>2. CASE DeleteDevice
    BY <1>0, <2>2 DEF DeleteDevice, Types
  <2>3. CASE ~DeleteDevice /\ ~\E k \in Calls : Put(k) \/ Insert(k)
    <3>1. UNCHANGED <<live, rows, r2>>
      BY <2>3 DEF Next, Agent, Serve, Tick, Crash, Begin, Save, PullBegin, PullWrites, PullEnd, PullFails, Cleanup, Hash, List,
         Rotate, Upload, Retry, GiveUp, Uploaded, Check, Forget, worker, vars
    <3>2. QED
      BY <1>0, <3>1 DEF Types
  <2>4. QED
    BY <2>1, <2>2, <2>3
<1>4. QED
  BY <1>1, <1>2, <1>3 DEF Types

-----------------------------------------------------------------------------
(* What lies under a name                                                  *)

\* The worker's copy under a name changes to the body of an attempt of that name.
LEMMA Stored ==
    ASSUME IInv, [Next]_vars, NEW n \in Names
    PROVE  /\ r2'[n] = r2[n] \/ \E k \in Calls : call[k].pc = "put" /\ call[k].name = n /\ r2'[n] = call[k].body
           /\ rows'[n] \in {rows[n], NoRun}
                 \/ \E k \in Calls : call[k].pc = "insert" /\ call[k].name = n /\ rows'[n] = call[k].body
<1>0. r2 \in [Names -> Contents \cup {NoRun}] /\ rows \in [Names -> Contents \cup {NoRun}]
  BY DEF IInv, Types
<1>1. CASE \E k \in Calls : Put(k)
  BY <1>0, <1>1 DEF Put
<1>2. ASSUME NEW k \in Calls, Insert(k)
      PROVE  r2' = r2 /\ (rows'[n] = rows[n] \/ (call[k].pc = "insert" /\ call[k].name = n /\ rows'[n] = call[k].body))
  <2>1. /\ r2' = r2 /\ call[k].pc = "insert"
        /\ rows' = rows \/ rows' = [rows EXCEPT ![call[k].name] = call[k].body]
    BY <1>2 DEF Insert
  <2>2. QED
    BY <1>0, <2>1
<1>3. CASE DeleteDevice
  BY <1>3 DEF DeleteDevice
<1>4. CASE ~DeleteDevice /\ ~\E k \in Calls : Put(k) \/ Insert(k)
  <2>1. UNCHANGED <<rows, r2>>
    BY <1>4 DEF Next, Agent, Serve, Tick, Crash, Begin, Save, PullBegin, PullWrites, PullEnd, PullFails, Cleanup, Hash, List,
       Rotate, Upload, Retry, GiveUp, Uploaded, Check, Forget, worker, vars
  <2>2. QED
    BY <2>1
<1>5. QED
  BY <1>1, <1>2, <1>3, <1>4

Serving(n, r) == run[r].name = n /\ run[r].pc \in {"pull", "pulling", "cleanup"}

\* A file on the router is somebody's to remove, or litter.
LEMMA RouterStep ==
    ASSUME IInv, [Next]_vars, NEW n \in Names, router'[n] # NoRun
    PROVE  n \in litter' \/ \E r \in Runs : Serving(n, r)'
<1>0. router \in [Names -> Runs \cup {NoRun}] /\ run \in [Runs -> Run]
  BY DEF IInv, Types
<1>1. ASSUME NEW r \in Runs, Save(r), run[r].name = n
      PROVE  Serving(n, r)'
  BY <1>1, Moving DEF Moves, Serving
<1>2. CASE router'[n] = router[n]
  <2>1. litter \subseteq litter'
    BY DEF Next, Agent, Serve, Tick, DeleteDevice, Crash, Begin, Save, PullBegin, PullWrites, PullEnd, PullFails, Cleanup,
       Hash, List, Rotate, Upload, Retry, GiveUp, Uploaded, Check, Put, Insert, Forget, vars
  <2>2. CASE n \in litter
    BY <2>1, <2>2
  <2>3. CASE n \notin litter
    <3>1. PICK q \in Runs : Serving(n, q)
      BY <1>2, <2>3 DEF IInv, NameOK, Serving
    <3>2. CASE Crash
      <4>1. n \in litter'
        BY <1>2, <3>1, <3>2 DEF Crash, Serving
      <4>2. QED
        BY <4>1
    <3>3. CASE Cleanup(q)
      BY <1>0, <1>2, <3>1, <3>3 DEF Cleanup, Serving
    <3>4. CASE PullBegin(q)
      <4>1. Serving(n, q)'
        BY <3>1, <3>4, Moving DEF Moves, Serving
      <4>2. QED
        BY <4>1
    <3>5. CASE PullEnd(q) \/ PullFails(q)
      <4>1. Serving(n, q)'
        BY <3>1, <3>5, Moving DEF Moves, Serving
      <4>2. QED
        BY <4>1
    <3>6. CASE ~(Crash \/ Cleanup(q) \/ PullBegin(q) \/ PullEnd(q) \/ PullFails(q))
      <4>1. run'[q] = run[q]
        <5>1. ~(Begin(q) \/ RunSteps(q) \/ \E k \in Calls : Upload(q, k) \/ Retry(q, k))
          BY <3>1, <3>6 DEF Serving, Begin, RunSteps, Save, Hash, List, Rotate, GiveUp, Uploaded, Upload, Retry
        <5>2. CASE \E r \in Runs : Begin(r)
          BY <5>1, <5>2, Beginning
        <5>3. CASE \E r \in Runs : RunSteps(r) \/ \E k \in Calls : Upload(r, k) \/ Retry(r, k)
          BY <5>1, <5>3, OneMoves
        <5>4. CASE Tick \/ DeleteDevice \/ (\E k \in Calls : Serve(k)) \/ (\E r \in Runs : PullWrites(r)) \/ UNCHANGED vars
          BY <5>4 DEF Tick, DeleteDevice, Serve, Check, Put, Insert, Forget, PullWrites, vars
        <5>5. QED
          BY <3>6, <5>2, <5>3, <5>4 DEF Next, Agent, RunSteps
      <4>2. QED
        BY <3>1, <4>1 DEF Serving
    <3>7. QED
      BY <3>2, <3>3, <3>4, <3>5, <3>6
  <2>4. QED
    BY <2>2, <2>3
<1>3. QED
  BY <1>1, <1>2, OnRouter

LEMMA NameStep == IInv /\ [Next]_vars => \A n \in Names : NameOK(n)'
<1> SUFFICES ASSUME IInv, [Next]_vars, NEW n \in Names
             PROVE  NameOK(n)'
  OBVIOUS
<1>0. NameOK(n) /\ \A k \in Calls : CallOK(k)
  BY DEF IInv
<1>1. SoundNext(n, router'[n])
  <2>1. CASE router'[n] = NoRun
    BY <2>1 DEF SoundNext
  <2>2. CASE router'[n] = router[n]
    BY <1>0, <2>2, StillSound DEF NameOK
  <2>3. ASSUME NEW r \in Runs, Save(r), run[r].name = n, router'[n] = r
        PROVE  SoundNext(n, router'[n])
    BY <2>3, Begun DEF Save, SoundNext
  <2>4. QED
    BY <2>1, <2>2, <2>3, OnRouter
<1>2. SoundNext(n, r2'[n])
  <2>1. CASE r2'[n] = r2[n]
    BY <1>0, <2>1, StillSound DEF NameOK
  <2>2. ASSUME NEW k \in Calls, call[k].pc = "put", call[k].name = n, r2'[n] = call[k].body
        PROVE  SoundNext(n, r2'[n])
    BY <1>0, <2>2, StillSound DEF CallOK
  <2>3. QED
    BY <2>1, <2>2, Stored
<1>3. SoundNext(n, rows'[n])
  <2>1. CASE rows'[n] = NoRun
    BY <2>1 DEF SoundNext
  <2>2. CASE rows'[n] = rows[n]
    BY <1>0, <2>2, StillSound DEF NameOK
  <2>3. ASSUME NEW k \in Calls, call[k].pc = "insert", call[k].name = n, rows'[n] = call[k].body
        PROVE  SoundNext(n, rows'[n])
    BY <1>0, <2>3, StillSound DEF CallOK
  <2>4. QED
    BY <2>1, <2>2, <2>3, Stored
<1>4. rows'[n] # NoRun => r2'[n] # NoRun
  <2>1. rows'[n] # NoRun => r2[n] # NoRun
    BY <1>0, Stored DEF NameOK, CallOK
  <2>2. QED
    BY <2>1, WorkerKeeps
<1>5. QED
  BY <1>1, <1>2, <1>3, <1>4, RouterStep DEF NameOK, Serving, Sound, SoundNext, Named, Collided

-----------------------------------------------------------------------------
(* Attempts                                                                *)

LEMMA CallStep == IInv /\ [Next]_vars => \A k \in Calls : CallOK(k)'
<1> SUFFICES ASSUME IInv, [Next]_vars, NEW k \in Calls
             PROVE  CallOK(k)'
  OBVIOUS
<1>0. /\ CallOK(k) /\ call \in [Calls -> Call] /\ call[k].name \in Names /\ live \in BOOLEAN
      /\ \A n, v : Sound(n, v) => SoundNext(n, v)
  BY StillSound DEF IInv, Types, Call
<1>d. CallOK(k)' <=>
        /\ call'[k].pc # "idle" => call'[k].body # NoRun /\ SoundNext(call'[k].name, call'[k].body)
        /\ call'[k].pc = "insert" => r2'[call'[k].name] # NoRun
        /\ call'[k].pc = "answered" /\ call'[k].ok /\ live' => rows'[call'[k].name] # NoRun
  BY DEF CallOK, Sound, SoundNext, Named, Collided
<1>1. CASE call'[k] = call[k]
  BY <1>0, <1>1, <1>d, WorkerKeeps DEF CallOK
<1>2. ASSUME NEW r \in Runs, NEW j \in Calls, Upload(r, j) \/ Retry(r, j)
      PROVE  CallOK(k)'
  <2>1. run[r].pc \in Pulled /\ Sound(run[r].name, local[run[r].name])
    BY <1>2, Sending DEF Pulled, IInv, RunOK
  <2>2. CASE j = k /\ call' # call
    <3>1. local[run[r].name] # NoRun /\ Asks(k, "sent", run[r].name, local[run[r].name], FALSE)
      BY <1>2, <2>2, Sending
    <3>2. QED
      BY <1>0, <1>d, <2>1, <3>1 DEF Asks
  <2>3. CASE j # k \/ call' = call
    <3>1. call' = call \/ Asks(j, "sent", run[r].name, local[run[r].name], FALSE)
      BY <1>2, Sending
    <3>2. call'[k] = call[k]
      BY <2>3, <3>1 DEF Asks
    <3>3. QED
      BY <1>1, <3>2
  <2>4. QED
    BY <2>2, <2>3
<1>3. ASSUME NEW r \in Runs, Uploaded(r)
      PROVE  CallOK(k)'
  <2>1. run[r].call \in Calls /\ call' = [call EXCEPT ![run[r].call] = IdleCall]
    BY <1>3 DEF Uploaded, IInv, Types, RunOK, Run
  <2>2. CASE run[r].call = k
    <3>1. Asks(k, "idle", 1, NoRun, FALSE)
      BY <1>0, <2>1, <2>2, IdleAsks
    <3>2. QED
      BY <1>d, <3>1 DEF Asks
  <2>3. CASE run[r].call # k
    BY <1>0, <1>1, <2>1, <2>3
  <2>4. QED
    BY <2>2, <2>3
<1>4. CASE Forget(k)
  <2>1. Asks(k, "idle", 1, NoRun, FALSE)
    BY <1>0, <1>4, IdleAsks DEF Forget
  <2>2. QED
    BY <1>d, <2>1 DEF Asks
<1>5. CASE Put(k)
  <2>1. Asks(k, "insert", call[k].name, call[k].body, call[k].ok) /\ call[k].pc = "put"
    BY <1>0, <1>5, StepAsks DEF Put
  <2>2. call[k].body # NoRun /\ Sound(call[k].name, call[k].body)
    BY <1>0, <2>1 DEF CallOK
  <2>3. r2'[call[k].name] = call[k].body
    BY <1>0, <1>5 DEF Put, IInv, Types
  <2>4. QED
    BY <1>0, <1>d, <2>1, <2>2, <2>3 DEF Asks
<1>6. CASE Insert(k)
  <2>1. Asks(k, "answered", call[k].name, call[k].body, live) /\ call[k].pc = "insert"
    BY <1>0, <1>6, AnswerAsks DEF Insert
  <2>2. call[k].body # NoRun /\ Sound(call[k].name, call[k].body)
    BY <1>0, <2>1 DEF CallOK
  <2>3. live' = live /\ (live => rows'[call[k].name] # NoRun)
    BY <1>0, <1>6, <2>2 DEF Insert, IInv, Types
  <2>4. QED
    BY <1>0, <1>d, <2>1, <2>2, <2>3 DEF Asks
<1>7. CASE Check(k)
  <2>1. /\ call[k].pc = "sent" /\ UNCHANGED <<rows, r2, live>>
        /\ \/ call' = [call EXCEPT ![k].pc = "put"]
           \/ \E ok \in BOOLEAN : Answer(k, ok) /\ (ok /\ live => rows[call[k].name] = call[k].body)
    BY <1>7 DEF Check
  <2>2. call[k].body # NoRun /\ Sound(call[k].name, call[k].body)
    BY <1>0, <2>1 DEF CallOK
  <2>3. CASE call' = [call EXCEPT ![k].pc = "put"]
    <3>1. Asks(k, "put", call[k].name, call[k].body, call[k].ok)
      BY <1>0, <2>3, StepAsks
    <3>2. QED
      BY <1>0, <1>d, <2>2, <3>1 DEF Asks
  <2>4. ASSUME NEW ok \in BOOLEAN, Answer(k, ok), ok /\ live => rows[call[k].name] = call[k].body
        PROVE  CallOK(k)'
    <3>1. Asks(k, "answered", call[k].name, call[k].body, ok)
      BY <1>0, <2>4, AnswerAsks
    <3>2. QED
      BY <1>0, <1>d, <2>1, <2>2, <2>4, <3>1 DEF Asks
  <2>5. QED
    BY <2>1, <2>3, <2>4
<1>8. ASSUME NEW j \in Calls, Serve(j), j # k
      PROVE  call'[k] = call[k]
  BY <1>0, <1>8 DEF Serve, Check, Put, Insert, Forget, Answer
<1>9. CASE /\ ~\E r \in Runs, j \in Calls : Upload(r, j) \/ Retry(r, j)
           /\ ~\E r \in Runs : Uploaded(r)
           /\ ~\E j \in Calls : Serve(j)
  <2>1. call' = call
    BY <1>9 DEF Next, Agent, Tick, DeleteDevice, Crash, Begin, Save, PullBegin, PullWrites, PullEnd, PullFails, Cleanup,
       Hash, List, Rotate, GiveUp, worker, vars
  <2>2. QED
    BY <1>1, <2>1
<1>10. ASSUME NEW j \in Calls, Serve(j)
       PROVE  CallOK(k)'
  BY <1>1, <1>4, <1>5, <1>6, <1>7, <1>8, <1>10 DEF Serve
<1>11. QED
  BY <1>2, <1>3, <1>9, <1>10

-----------------------------------------------------------------------------
(* Runs                                                                    *)

\* Nobody waits for an attempt that is idle.
LEMMA IdleIsFree ==
    ASSUME IInv, NEW k \in Calls, call[k].pc = "idle", NEW r \in Runs
    PROVE  run[r].call # k
<1>1. RunOK(r) /\ k # NoCall
  BY ConstantsAssumption DEF IInv
<1>2. QED
  BY <1>1 DEF RunOK

\* A run's step leaves it with the call it had, none, or one that was idle.
LEMMA NewCalls ==
    ASSUME IInv, NEW r \in Runs, Begin(r) \/ RunSteps(r) \/ \E k \in Calls : Upload(r, k) \/ Retry(r, k)
    PROVE  \/ run'[r].call \in {run[r].call, NoCall}
           \/ run'[r].call \in Calls /\ call[run'[r].call].pc = "idle"
<1>1. CASE Begin(r)
  BY <1>1, Beginning
<1>2. CASE RunSteps(r)
  <2>1. Save(r) \/ PullBegin(r) => run'[r].call = run[r].call
    BY Moving DEF Moves
  <2>2. PullEnd(r) \/ PullFails(r) \/ Cleanup(r) \/ List(r) => run'[r].call = run[r].call
    BY Moving DEF Moves
  <2>3. Hash(r) \/ Rotate(r) \/ GiveUp(r) \/ Uploaded(r) => run'[r].call \in {run[r].call, NoCall}
    BY Moving DEF Moves
  <2>4. QED
    BY <1>2, <2>1, <2>2, <2>3 DEF RunSteps
<1>3. CASE \E k \in Calls : Upload(r, k) \/ Retry(r, k)
  BY <1>3, Sending DEF Moves
<1>4. QED
  BY <1>1, <1>2, <1>3

\* No two runs wait for the same attempt.
LEMMA CallsApart ==
    ASSUME IInv, [Next]_vars, NEW s \in Runs, NEW q \in Runs \ {s}
    PROVE  run'[s].call = NoCall \/ run'[q].call # run'[s].call
<1>0. run[s].call = NoCall \/ run[q].call # run[s].call
  BY DEF IInv, RunOK
<1>1. ASSUME NEW r \in Runs, Begin(r) \/ RunSteps(r) \/ \E k \in Calls : Upload(r, k) \/ Retry(r, k)
      PROVE  run'[s].call = NoCall \/ run'[q].call # run'[s].call
  <2>1. \A x \in Runs \ {r} : run'[x] = run[x]
    BY <1>1, Beginning, OneMoves
  <2>2. \/ run'[r].call \in {run[r].call, NoCall}
        \/ \A x \in Runs : run[x].call # run'[r].call
    BY <1>1, NewCalls, IdleIsFree
  <2>3. QED
    BY <1>0, <2>1, <2>2
<1>2. CASE Crash
  <2>1. \A x \in Runs : run'[x].call \in {run[x].call, NoCall}
    BY <1>2, Killed
  <2>2. QED
    BY <1>0, <2>1
<1>3. CASE Tick \/ DeleteDevice \/ (\E k \in Calls : Serve(k)) \/ (\E r \in Runs : PullWrites(r)) \/ UNCHANGED vars
  <2>1. run' = run
    BY <1>3 DEF Tick, DeleteDevice, Serve, Check, Put, Insert, Forget, PullWrites, vars
  <2>2. QED
    BY <1>0, <2>1
<1>4. QED
  BY <1>1, <1>2, <1>3 DEF Next, Agent, RunSteps

\* What a run has pulled is not replaced, unless another run has its name.
LEMMA PulledStays ==
    ASSUME IInv, [Next]_vars, NEW s \in Runs, run[s].pc \notin {"idle", "pull", "pulling"},
           Sound(run[s].name, local[run[s].name])
    PROVE  SoundNext(run[s].name, local'[run[s].name])
<1> DEFINE n == run[s].name
<1>0. n \in Names /\ \A m, v : Sound(m, v) => SoundNext(m, v)
  BY StillSound DEF IInv, Types, Run
<1>1. CASE local'[n] = local[n]
  BY <1>0, <1>1
<1>2. CASE local'[n] = NoRun
  BY <1>2 DEF SoundNext
<1>3. CASE \E r \in Runs : run[r].pc \in {"pull", "pulling"} /\ run[r].name = n
  <2>1. PICK r \in Runs : run[r].pc \in {"pull", "pulling"} /\ run[r].name = n
    BY <1>3
  <2>2. r # s /\ Named(r, n) /\ Named(s, n)
    BY <2>1 DEF Named
  <2>3. Collided(n)
    BY <2>2, Pair
  <2>4. Sound(n, local'[n])
    BY <2>3 DEF Sound
  <2>5. QED
    BY <1>0, <2>4
<1>4. QED
  BY <1>0, <1>1, <1>2, <1>3, Archive

\* The attempt a run waits for stays its own while the run stands still.
LEMMA CallStays ==
    ASSUME IInv, [Next]_vars, NEW s \in Runs, run[s].pc = "waiting", run'[s] = run[s]
    PROVE  call'[run[s].call].pc # "idle" /\ call'[run[s].call].name = run[s].name
<1> DEFINE c == run[s].call
<1>0. /\ c \in Calls /\ call[c].pc # "idle" /\ call[c].name = run[s].name /\ call \in [Calls -> Call]
      /\ live \in BOOLEAN
  BY DEF IInv, Types, RunOK, Run
<1>1. CASE call'[c] = call[c]
  BY <1>0, <1>1
<1>2. ASSUME NEW r \in Runs, NEW j \in Calls, Upload(r, j) \/ Retry(r, j)
      PROVE  call'[c] = call[c]
  <2>1. j # c
    BY <1>0, <1>2, Sending
  <2>2. QED
    BY <1>0, <1>2, <2>1, Sending DEF Asks
<1>3. ASSUME NEW r \in Runs, Uploaded(r)
      PROVE  call'[c] = call[c]
  <2>1. r # s
    <3>1. run'[r].pc = "done"
      BY <1>3, Moving DEF Moves
    <3>2. QED
      BY <3>1
  <2>2. run[r].call # c /\ call' = [call EXCEPT ![run[r].call] = IdleCall]
    BY <1>0, <1>3, <2>1, ConstantsAssumption DEF Uploaded, IInv, RunOK
  <2>3. QED
    BY <1>0, <2>2
<1>4. ASSUME NEW j \in Calls, Serve(j)
      PROVE  call'[c].pc # "idle" /\ call'[c].name = run[s].name
  <2>1. CASE j # c
    <3>1. call'[c] = call[c]
      BY <1>0, <1>4, <2>1 DEF Serve, Check, Put, Insert, Forget, Answer
    <3>2. QED
      BY <1>0, <3>1
  <2>2. CASE j = c
    <3>1. ~Forget(c)
      BY DEF Forget
    <3>2. CASE Put(c)
      BY <1>0, <3>2, StepAsks DEF Put, Asks
    <3>3. CASE Insert(c)
      BY <1>0, <3>3, AnswerAsks DEF Insert, Asks
    <3>4. CASE Check(c)
      <4>1. (\E ok \in BOOLEAN : Answer(c, ok)) \/ call' = [call EXCEPT ![c].pc = "put"]
        BY <3>4 DEF Check
      <4>2. QED
        BY <1>0, <4>1, AnswerAsks, StepAsks DEF Asks
    <3>5. QED
      BY <1>4, <2>2, <3>1, <3>2, <3>3, <3>4 DEF Serve
  <2>3. QED
    BY <2>1, <2>2
<1>5. CASE /\ ~\E r \in Runs, j \in Calls : Upload(r, j) \/ Retry(r, j)
           /\ ~\E r \in Runs : Uploaded(r)
           /\ ~\E j \in Calls : Serve(j)
  <2>1. call' = call
    BY <1>5 DEF Next, Agent, Tick, DeleteDevice, Crash, Begin, Save, PullBegin, PullWrites, PullEnd, PullFails, Cleanup,
       Hash, List, Rotate, GiveUp, worker, vars
  <2>2. QED
    BY <1>1, <2>1
<1>6. QED
  BY <1>1, <1>2, <1>3, <1>4, <1>5

LEMMA RunStep == IInv /\ [Next]_vars => \A s \in Runs : RunOK(s)'
<1> SUFFICES ASSUME IInv, [Next]_vars, NEW s \in Runs
             PROVE  RunOK(s)'
  OBVIOUS
<1> DEFINE n == run[s].name
<1>0. /\ RunOK(s) /\ run \in [Runs -> Run] /\ n \in Names /\ live \in BOOLEAN
      /\ \A m, v : Sound(m, v) => SoundNext(m, v)
  BY StillSound DEF IInv, Types, Run
<1>d. RunOK(s)' <=>
        /\ run'[s].pc = "pulling" => run'[s].sha \in Runs /\ SoundNext(run'[s].name, run'[s].sha)
        /\ run'[s].pc \in Pulled \/ (run'[s].pc = "cleanup" /\ run'[s].result = "none")
               => SoundNext(run'[s].name, local'[run'[s].name])
        /\ run'[s].pc = "waiting" <=> run'[s].call # NoCall
        /\ run'[s].pc = "waiting" => /\ call'[run'[s].call].pc # "idle"
                                     /\ call'[run'[s].call].name = run'[s].name
        /\ \A q \in Runs \ {s} : run'[s].call = NoCall \/ run'[q].call # run'[s].call
        /\ run'[s].uploaded => run'[s].pc = "done" /\ (live' => rows'[run'[s].name] # NoRun)
  BY DEF RunOK, Sound, SoundNext, Named, Collided
<1>a. \A q \in Runs \ {s} : run'[s].call = NoCall \/ run'[q].call # run'[s].call
  BY CallsApart
<1>1. CASE run'[s] = run[s]
  <2>1. run[s].pc = "pulling" => run[s].sha \in Runs /\ SoundNext(n, run[s].sha)
    BY <1>0 DEF RunOK
  <2>2. run[s].pc \in Pulled \/ (run[s].pc = "cleanup" /\ run[s].result = "none") => SoundNext(n, local'[n])
    BY <1>0, PulledStays DEF RunOK, Pulled
  <2>3. run[s].pc = "waiting" => call'[run[s].call].pc # "idle" /\ call'[run[s].call].name = n
    BY <1>1, CallStays
  <2>4. run[s].uploaded => run[s].pc = "done" /\ (live' => rows'[n] # NoRun)
    BY <1>0, WorkerKeeps DEF RunOK
  <2>5. run[s].pc = "waiting" <=> run[s].call # NoCall
    BY <1>0 DEF RunOK
  <2>6. QED
    BY <1>1, <1>a, <1>d, <2>1, <2>2, <2>3, <2>4, <2>5
<1>2. CASE Begin(s)
  BY <1>0, <1>2, <1>a, <1>d, Beginning DEF RunOK, Pulled
<1>u. run[s].pc # "done" => ~run[s].uploaded
  BY <1>0 DEF RunOK
<1>c. run[s].pc # "waiting" => run[s].call = NoCall
  BY <1>0 DEF RunOK
<1>3. CASE Save(s) \/ PullFails(s)
  <2>1. \/ Moves(s, "pull", run[s].sha, run[s].result, run[s].uploaded, run[s].call)
        \/ Moves(s, "cleanup", NoRun, "failed", run[s].uploaded, run[s].call)
    BY <1>3, Moving
  <2>2. run[s].pc \notin {"done", "waiting"}
    BY <1>3 DEF Save, PullFails
  <2>3. QED
    BY <1>0, <1>a, <1>c, <1>d, <1>u, <2>1, <2>2 DEF Moves, Pulled
<1>4. CASE PullBegin(s)
  <2>1. run[s].pc = "pull"
    BY <1>4 DEF PullBegin
  <2>2. CASE router[n] = NoRun
    <3>1. Moves(s, "cleanup", NoRun, "failed", run[s].uploaded, run[s].call)
      BY <1>4, <2>2, Moving
    <3>2. QED
      BY <1>0, <1>a, <1>c, <1>d, <1>u, <2>1, <3>1 DEF Moves, Pulled
  <2>3. CASE router[n] # NoRun
    <3>1. Moves(s, "pulling", router[n], run[s].result, run[s].uploaded, run[s].call)
      BY <1>4, <2>3, Moving
    <3>2. router[n] \in Runs /\ Sound(n, router[n])
      BY <1>0, <2>3 DEF IInv, Types, NameOK
    <3>3. QED
      BY <1>0, <1>a, <1>c, <1>d, <1>u, <2>1, <3>1, <3>2 DEF Moves, Pulled
  <2>4. QED
    BY <2>2, <2>3
<1>5. CASE PullEnd(s)
  <2>1. run[s].pc = "pulling"
    BY <1>5 DEF PullEnd
  <2>2. CASE local[n] = NoRun
    <3>1. Moves(s, "cleanup", NoRun, "failed", run[s].uploaded, run[s].call)
      BY <1>5, <2>2, Moving
    <3>2. QED
      BY <1>0, <1>a, <1>c, <1>d, <1>u, <2>1, <3>1 DEF Moves, Pulled
  <2>3. CASE local[n] # NoRun
    <3>1. Moves(s, "cleanup", NoRun, run[s].result, run[s].uploaded, run[s].call)
      BY <1>5, <2>3, Moving
    <3>2. SoundNext(n, local'[n])
      <4>1. Sound(n, run[s].sha)
        BY <1>0, <2>1 DEF RunOK
      <4>2. local'[n] = run[s].sha \/ \E q \in Runs \ {s} : run[q].pc = "pulling" /\ run[q].name = n
        <5>1. local \in [Names -> Contents \cup {NoRun}]
          BY DEF IInv, Types
        <5>2. \/ local' = [local EXCEPT ![n] = run[s].sha]
              \/ \E q \in Runs \ {s} : run[q].pc = "pulling" /\ run[q].name = n
          <6>1. n \in Files => \E v \in {run[s].sha} \cup
                  (IF \E q \in Runs \ {s} : run[q].pc = "pulling" /\ run[q].name = n THEN {Torn} ELSE {}) :
                    Written(n, v)
            BY <1>5, Zenon DEF PullEnd
          <6>2. n \in Files
            BY <1>0, <2>3 DEF Files
          <6>3. QED
            BY <6>1, <6>2 DEF Written
        <5>3. QED
          BY <1>0, <5>1, <5>2
      <4>3. CASE local'[n] = run[s].sha
        BY <1>0, <4>1, <4>3
      <4>4. ASSUME NEW q \in Runs \ {s}, run[q].pc = "pulling", run[q].name = n
            PROVE  SoundNext(n, local'[n])
        <5>1. Collided(n)
          BY <2>1, <4>4, Pair DEF Named
        <5>2. Sound(n, local'[n])
          BY <5>1 DEF Sound
        <5>3. QED
          BY <1>0, <5>2
      <4>5. QED
        BY <4>2, <4>3, <4>4
    <3>3. QED
      BY <1>0, <1>a, <1>c, <1>d, <1>u, <2>1, <3>1, <3>2 DEF Moves, Pulled
  <2>4. QED
    BY <2>2, <2>3
<1>6. CASE Cleanup(s)
  <2>1. run[s].pc = "cleanup" /\ Moves(s, IF run[s].result = "none" THEN "hash" ELSE "done",
          run[s].sha, run[s].result, run[s].uploaded, run[s].call)
    BY <1>6, Moving DEF Cleanup
  <2>2. run[s].result = "none" => SoundNext(n, local'[n])
    BY <1>0, <2>1, PulledStays DEF RunOK
  <2>3. QED
    BY <1>0, <1>a, <1>c, <1>d, <1>u, <2>1, <2>2 DEF Moves, Pulled
<1>7. CASE Hash(s) \/ List(s) \/ Rotate(s)
  <2>1. /\ run[s].pc \in {"hash", "list", "rotate"}
        /\ \/ Moves(s, "done", NoRun, "crashed", FALSE, NoCall)
           \/ Moves(s, "list", local[n], run[s].result, run[s].uploaded, run[s].call)
           \/ Moves(s, "rotate", run[s].sha, run[s].result, run[s].uploaded, run[s].call)
           \/ Moves(s, "upload", run[s].sha, run[s].result, run[s].uploaded, run[s].call)
    BY <1>7, Moving DEF Hash, List, Rotate
  <2>2. SoundNext(n, local'[n])
    BY <1>0, <2>1, PulledStays DEF RunOK, Pulled
  <2>3. QED
    BY <1>0, <1>a, <1>c, <1>d, <1>u, <2>1, <2>2 DEF Moves, Pulled
<1>8. CASE GiveUp(s)
  <2>1. Moves(s, "done", NoRun, "success", FALSE, NoCall)
    BY <1>8, Moving
  <2>2. QED
    BY <1>a, <1>d, <2>1 DEF Moves, Pulled
<1>9. CASE Uploaded(s)
  <2>1. Moves(s, "done", NoRun, "success", call[run[s].call].ok, NoCall)
    BY <1>9, Moving
  <2>2. run[s].call \in Calls /\ call[run[s].call].name = n /\ call[run[s].call].pc = "answered"
    BY <1>0, <1>9 DEF Uploaded, RunOK, Run
  <2>3. call[run[s].call].ok /\ live => rows[n] # NoRun
    BY <2>2 DEF IInv, CallOK
  <2>4. call[run[s].call].ok /\ live' => rows'[n] # NoRun
    BY <1>0, <2>3, WorkerKeeps
  <2>5. QED
    BY <1>a, <1>d, <2>1, <2>4 DEF Moves, Pulled
<1>10. ASSUME NEW k \in Calls, Upload(s, k) \/ Retry(s, k)
       PROVE  RunOK(s)'
  <2>1. run[s].pc \in {"upload", "waiting"}
    BY <1>10, Sending
  <2>2. SoundNext(n, local'[n])
    BY <1>0, <2>1, PulledStays DEF RunOK, Pulled
  <2>3. CASE Moves(s, "done", NoRun, "success", FALSE, NoCall)
    BY <1>a, <1>d, <2>3 DEF Moves, Pulled
  <2>4. CASE /\ Moves(s, "waiting", run[s].sha, run[s].result, run[s].uploaded, k)
             /\ Asks(k, "sent", n, local[n], FALSE)
    <3>1. k # NoCall
      BY ConstantsAssumption
    <3>2. QED
      BY <1>a, <1>d, <1>u, <2>1, <2>2, <2>4, <3>1 DEF Moves, Asks, Pulled
  <2>5. QED
    BY <1>10, <2>3, <2>4, Sending
<1>11. CASE Crash
  <2>1. CASE run[s].pc \in {"idle", "done"}
    BY <1>1, <1>11, <2>1, Killed
  <2>2. CASE run[s].pc \notin {"idle", "done"}
    BY <1>a, <1>d, <1>11, <2>2, Killed DEF Pulled
  <2>3. QED
    BY <2>1, <2>2
<1>12. ASSUME NEW r \in Runs, r # s, Agent(r)
       PROVE  run'[s] = run[s]
  BY <1>12, Beginning, OneMoves DEF Agent, RunSteps, PullWrites
<1>13. CASE Tick \/ DeleteDevice \/ (\E k \in Calls : Serve(k)) \/ (\E r \in Runs : PullWrites(r)) \/ UNCHANGED vars
  <2>1. run' = run
    BY <1>13 DEF Tick, DeleteDevice, Serve, Check, Put, Insert, Forget, PullWrites, vars
  <2>2. QED
    BY <1>1, <2>1
<1>14. CASE Agent(s)
  BY <1>2, <1>3, <1>4, <1>5, <1>6, <1>7, <1>8, <1>9, <1>10, <1>13, <1>14 DEF Agent
<1>15. QED
  BY <1>1, <1>11, <1>12, <1>13, <1>14 DEF Next

-----------------------------------------------------------------------------
(* The invariant, and what follows from it                                 *)

LEMMA IInvInit == Init => IInv
<1> SUFFICES ASSUME Init
             PROVE  IInv
  OBVIOUS
<1>0. 1 \in Names
  BY ConstantsAssumption DEF Names
<1>1. IdleRun \in Run /\ IdleRun.pc = "idle" /\ IdleRun.call = NoCall /\ IdleRun.uploaded = FALSE
  <2>1. IdleRun \in Run
    BY <1>0 DEF IdleRun, Run
  <2>2. IdleRun.pc = "idle" /\ IdleRun.call = NoCall /\ IdleRun.uploaded = FALSE
    BY DEF IdleRun
  <2>3. QED
    BY <2>1, <2>2
<1>2. IdleCall \in Call /\ IdleCall.pc = "idle"
  BY <1>0 DEF IdleCall, Call
<1>3. Types
  BY <1>0, <1>1, <1>2 DEF Init, Types
<1>4. \A r \in Runs : RunOK(r)
  BY <1>1 DEF Init, RunOK, Pulled
<1>5. \A k \in Calls : CallOK(k)
  BY <1>2 DEF Init, CallOK
<1>6. \A n \in Names : NameOK(n)
  BY DEF Init, NameOK, Sound
<1>7. QED
  BY <1>3, <1>4, <1>5, <1>6 DEF IInv

LEMMA Invariance == Spec => []IInv
<1>1. Init => IInv
  BY IInvInit
<1>2. IInv /\ [Next]_vars => IInv'
  BY TypesStep, RunStep, CallStep, NameStep DEF IInv
<1>3. QED
  BY <1>1, <1>2, PTL DEF Spec

\* A catalogued file always has its body in R2, through every interleaving of
\* uploads of one name, repeated and late attempts, and the deletion of the
\* device (ingest.ts: the put comes before the INSERT).
THEOREM NoRowWithoutBody == Spec => []RowHasBody
<1>1. IInv => RowHasBody
  BY DEF IInv, NameOK, RowHasBody
<1>2. QED
  BY <1>1, Invariance, PTL

\* What a job says was uploaded is in the catalog with its body, and unless two
\* runs shared the second of their start it is what that run saved.
THEOREM UploadedIsKept == Spec => []UploadIsStored
<1>1. IInv => UploadIsStored
  <2> SUFFICES ASSUME IInv, NEW r \in Runs, run[r].uploaded, live
               PROVE  LET n == run[r].name IN
                      /\ rows[n] # NoRun /\ r2[n] # NoRun
                      /\ Collided(n) \/ (rows[n] = r /\ r2[n] = r)
    BY DEF UploadIsStored
  <2> DEFINE n == run[r].name
  <2>0. n \in Names /\ NameOK(n)
    BY DEF IInv, Types, Run
  <2>1. run[r].pc = "done" /\ rows[n] # NoRun /\ r2[n] # NoRun
    BY <2>0 DEF IInv, RunOK, NameOK
  <2>2. Named(r, n)
    BY <2>1 DEF Named
  <2>3. ASSUME NEW v, v # NoRun, Sound(n, v)
        PROVE  Collided(n) \/ v = r
    BY <2>2, <2>3, Pair DEF Sound
  <2>4. Collided(n) \/ (rows[n] = r /\ r2[n] = r)
    BY <2>0, <2>1, <2>3 DEF NameOK
  <2>5. QED
    BY <2>1, <2>4
<1>2. QED
  BY <1>1, Invariance, PTL

\* No run leaves its file on the router behind, but for a removal that failed or an
\* agent that was killed (backup.py: the finally clause).
THEOREM RouterLeftClean == Spec => []RouterIsClean
<1>1. IInv => RouterIsClean
  BY DEF IInv, NameOK, RouterIsClean
<1>2. QED
  BY <1>1, Invariance, PTL
=============================================================================
