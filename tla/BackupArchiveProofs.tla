------------------------ MODULE BackupArchiveProofs ------------------------
(***************************************************************************)
(* Theorems about the archive of BackupPipeline: in what order its files   *)
(* were written, what a rotation takes and what an update finds, for every *)
(* number of runs, threads, names and faults, and every retention.         *)
(***************************************************************************)
EXTENDS BackupPipelineProofs, WellFoundedInduction

-----------------------------------------------------------------------------
(* Runs take turns in their thread                                         *)

Began(r) == run[r].pc # "idle"

\* A run has a result from the moment it failed, or at its end.
Ended(r) ==
    /\ run[r].result # "none" => run[r].pc \in {"cleanup", "done"}
    /\ run[r].result \in {"success", "crashed", "killed"} => run[r].pc = "done"

\* Of two runs of one thread that have begun one is over, and it is the one of the
\* earlier second.
InTurn(r, s) ==
    ThreadOf[r] = ThreadOf[s] /\ Began(r) /\ Began(s) =>
        /\ run[r].pc = "done" \/ run[s].pc = "done"
        /\ run[r].name < run[s].name => run[r].pc = "done"

TInv ==
    /\ \A r \in Runs : Ended(r)
    /\ \A r \in Runs : Began(r) => run[r].name <= clock
    /\ \A r, s \in Runs : r # s => InTurn(r, s)

\* A run stands still, or takes a step of its own, or is killed.
LEMMA Progress ==
    ASSUME IInv, [Next]_vars, NEW s \in Runs
    PROVE  \/ run'[s] = run[s]
           \/ Begin(s)
           \/ RunSteps(s)
           \/ \E k \in Calls : Upload(s, k) \/ Retry(s, k)
           \/ Crash /\ run[s].pc \notin {"idle", "done"}
<1>1. ASSUME NEW r \in Runs \ {s}, Begin(r) \/ RunSteps(r) \/ \E k \in Calls : Upload(r, k) \/ Retry(r, k)
      PROVE  run'[s] = run[s]
  BY <1>1, Beginning, OneMoves
<1>2. CASE Crash
  BY <1>2, Killed
<1>3. CASE Tick \/ DeleteDevice \/ (\E k \in Calls : Serve(k)) \/ (\E r \in Runs : PullWrites(r)) \/ UNCHANGED vars
  <2>1. run' = run
    BY <1>3 DEF Tick, DeleteDevice, Serve, Check, Put, Insert, Forget, PullWrites, vars
  <2>2. QED
    BY <2>1
<1>4. QED
  BY <1>1, <1>2, <1>3 DEF Next, Agent, RunSteps

\* The steps of a run, by what they make of its place and its result.
LEMMA Stages ==
    ASSUME IInv, NEW r \in Runs
    PROVE  LET x == run[r]
               y == run'[r]
               Now(pc, result) == y.name = x.name /\ y.pc = pc /\ y.result = result IN
           /\ Save(r) => x.pc = "save" /\ (Now("pull", x.result) \/ Now("cleanup", "failed"))
           /\ PullBegin(r) => x.pc = "pull" /\ IF router[x.name] = NoRun THEN Now("cleanup", "failed")
                                                ELSE Now("pulling", x.result)
           /\ PullEnd(r) => x.pc = "pulling" /\ IF local[x.name] = NoRun THEN Now("cleanup", "failed")
                                                 ELSE Now("cleanup", x.result)
           /\ PullFails(r) => x.pc \in {"pull", "pulling"} /\ Now("cleanup", "failed")
           /\ Cleanup(r) => x.pc = "cleanup" /\ Now(IF x.result = "none" THEN "hash" ELSE "done", x.result)
           /\ Hash(r) => x.pc = "hash" /\ IF local[x.name] = NoRun THEN Now("done", "crashed")
                                           ELSE Now("list", x.result)
           /\ List(r) => x.pc = "list" /\ Now("rotate", x.result) /\ y.listed = Files
           /\ Rotate(r) => x.pc = "rotate" /\ IF x.listed \subseteq Files THEN Now("upload", x.result)
                                               ELSE Now("done", "crashed")
           /\ GiveUp(r) \/ Uploaded(r) => x.pc = "waiting" /\ Now("done", "success")
           /\ (\E k \in Calls : Upload(r, k) \/ Retry(r, k)) =>
                x.pc \in {"upload", "waiting"} /\ (Now("waiting", x.result) \/ Now("done", "success"))
<1>1. Save(r) => /\ run[r].pc = "save" /\ run'[r].name = run[r].name
                 /\ \/ run'[r].pc = "pull" /\ run'[r].result = run[r].result
                    \/ run'[r].pc = "cleanup" /\ run'[r].result = "failed"
  BY Moving DEF Moves, Save
<1>2. PullBegin(r) => /\ run[r].pc = "pull" /\ run'[r].name = run[r].name
                      /\ IF router[run[r].name] = NoRun THEN run'[r].pc = "cleanup" /\ run'[r].result = "failed"
                         ELSE run'[r].pc = "pulling" /\ run'[r].result = run[r].result
  BY Moving DEF Moves, PullBegin
<1>3. PullEnd(r) => /\ run[r].pc = "pulling" /\ run'[r].name = run[r].name /\ run'[r].pc = "cleanup"
                    /\ run'[r].result = IF local[run[r].name] = NoRun THEN "failed" ELSE run[r].result
  BY Moving DEF Moves, PullEnd
<1>4. PullFails(r) => /\ run[r].pc \in {"pull", "pulling"} /\ run'[r].name = run[r].name
                      /\ run'[r].pc = "cleanup" /\ run'[r].result = "failed"
  BY Moving DEF Moves, PullFails
<1>5. Cleanup(r) => /\ run[r].pc = "cleanup" /\ run'[r].name = run[r].name /\ run'[r].result = run[r].result
                    /\ run'[r].pc = IF run[r].result = "none" THEN "hash" ELSE "done"
  BY Moving DEF Moves, Cleanup
<1>6. Hash(r) => /\ run[r].pc = "hash" /\ run'[r].name = run[r].name
                 /\ IF local[run[r].name] = NoRun THEN run'[r].pc = "done" /\ run'[r].result = "crashed"
                    ELSE run'[r].pc = "list" /\ run'[r].result = run[r].result
  BY Moving DEF Moves, Hash
<1>l. List(r) => /\ run[r].pc = "list" /\ run'[r].name = run[r].name /\ run'[r].pc = "rotate"
                 /\ run'[r].result = run[r].result /\ run'[r].listed = Files
  BY Moving DEF Moves, List
<1>7. Rotate(r) => /\ run[r].pc = "rotate" /\ run'[r].name = run[r].name
                   /\ IF run[r].listed \subseteq Files
                      THEN run'[r].pc = "upload" /\ run'[r].result = run[r].result
                      ELSE run'[r].pc = "done" /\ run'[r].result = "crashed"
  BY Moving DEF Moves, Rotate
<1>8. GiveUp(r) \/ Uploaded(r) => /\ run[r].pc = "waiting" /\ run'[r].name = run[r].name
                                  /\ run'[r].pc = "done" /\ run'[r].result = "success"
  BY Moving DEF Moves, GiveUp, Uploaded
<1>9. (\E k \in Calls : Upload(r, k) \/ Retry(r, k)) =>
        /\ run[r].pc \in {"upload", "waiting"} /\ run'[r].name = run[r].name
        /\ \/ run'[r].pc = "waiting" /\ run'[r].result = run[r].result
           \/ run'[r].pc = "done" /\ run'[r].result = "success"
  BY Sending DEF Moves
<1>10. QED
  BY <1>1, <1>2, <1>3, <1>4, <1>5, <1>6, <1>7, <1>8, <1>9, <1>l

\* What a run that has a result, or none, may still do.
LEMMA EndedStep ==
    ASSUME IInv, [Next]_vars, NEW s \in Runs, Ended(s)
    PROVE  Ended(s)'
<1>0. run[s].result \in Outcomes
  BY DEF IInv, Types, Run, Outcomes
<1>1. CASE run'[s] = run[s]
  BY <1>1 DEF Ended
<1>2. CASE Begin(s)
  BY <1>2, Beginning DEF Ended
<1>3. CASE Save(s) \/ PullBegin(s) \/ PullEnd(s)
  BY <1>3, Stages DEF Ended
<1>4. CASE PullFails(s) \/ Hash(s) \/ List(s) \/ Rotate(s)
  BY <1>4, Stages DEF Ended
<1>5. CASE Cleanup(s)
  BY <1>0, <1>5, Stages DEF Ended, Outcomes
<1>6. CASE GiveUp(s) \/ Uploaded(s) \/ \E k \in Calls : Upload(s, k) \/ Retry(s, k)
  BY <1>6, Stages DEF Ended
<1>7. CASE Crash /\ run[s].pc \notin {"idle", "done"}
  BY <1>7, Killed DEF Ended
<1>8. QED
  BY <1>1, <1>2, <1>3, <1>4, <1>5, <1>6, <1>7, Progress DEF RunSteps

\* A run that is over stays as it is.
LEMMA DoneStays ==
    ASSUME IInv, [Next]_vars, NEW s \in Runs, run[s].pc = "done"
    PROVE  run'[s] = run[s]
<1>1. ~RunSteps(s)
  BY Stages DEF RunSteps
<1>2. ~(Begin(s) \/ \E k \in Calls : Upload(s, k) \/ Retry(s, k))
  BY Stages DEF Begin
<1>3. QED
  BY <1>1, <1>2, Progress

\* The clock does not go back.
LEMMA ClockGrows ==
    ASSUME IInv, [Next]_vars
    PROVE  clock' \in Names /\ clock <= clock'
<1>1. clock \in Names /\ clock' \in Names
  BY TypesStep DEF IInv, Types
<1>2. CASE Tick
  BY <1>1, <1>2 DEF Tick, Names
<1>3. CASE ~Tick
  <2>1. clock' = clock
    BY <1>3 DEF Next, Agent, Serve, DeleteDevice, Crash, Begin, Save, PullBegin, PullWrites, PullEnd, PullFails,
       Cleanup, Hash, List, Rotate, Upload, Retry, GiveUp, Uploaded, Check, Put, Insert, Forget, vars
  <2>2. QED
    BY <1>1, <2>1 DEF Names
<1>4. QED
  BY <1>2, <1>3

\* A run begins under the name of the second, while no other begins or goes on in
\* its thread.
LEMMA BeganNow ==
    ASSUME IInv, [Next]_vars, NEW s \in Runs, ~Began(s), Began(s)'
    PROVE  /\ run'[s].name = clock /\ clock' = clock
           /\ \A q \in Runs \ {s} : run'[q] = run[q]
           /\ \A q \in Runs \ {s} : ThreadOf[q] = ThreadOf[s] => run[q].pc \in {"idle", "done"}
<1>1. Begin(s)
  <2>1. run[s].pc = "idle" /\ run'[s] # run[s]
    BY DEF Began
  <2>2. ~RunSteps(s) /\ ~\E k \in Calls : Upload(s, k) \/ Retry(s, k)
    BY <2>1, Stages DEF RunSteps
  <2>3. QED
    BY <2>1, <2>2, Progress
<1>2. clock' = clock /\ \A q \in Runs \ {s} : ThreadOf[q] = ThreadOf[s] => run[q].pc \in {"idle", "done"}
  BY <1>1 DEF Begin
<1>3. QED
  BY <1>1, <1>2, Beginning

LEMMA TurnStep ==
    ASSUME IInv, TInv, [Next]_vars, NEW r \in Runs, NEW s \in Runs, r # s
    PROVE  InTurn(r, s)'
<1> SUFFICES ASSUME ThreadOf[r] = ThreadOf[s], Began(r)', Began(s)'
             PROVE  /\ run'[r].pc = "done" \/ run'[s].pc = "done"
                    /\ run'[r].name < run'[s].name => run'[r].pc = "done"
  BY DEF InTurn
<1>0. /\ \A q \in {r, s} : run[q].pc = "done" => run'[q].pc = "done"
      /\ \A q \in {r, s} : Began(q) => run'[q].name = run[q].name /\ run[q].name \in Names
                                       /\ run[q].name <= clock
      /\ clock \in Names
  BY DoneStays, Begun DEF TInv, Began, IInv, Types, Run
<1>1. CASE Began(r) /\ Began(s)
  BY <1>0, <1>1 DEF TInv, InTurn
<1>2. CASE ~Began(r)
  <2>1. run'[s] = run[s] /\ run[s].pc = "done" /\ run'[r].name = clock
    BY <1>2, BeganNow DEF Began
  <2>2. run[s].name <= clock /\ run[s].name \in Names
    BY <1>0, <2>1 DEF Began
  <2>3. ~(run'[r].name < run'[s].name)
    BY <1>0, <2>1, <2>2 DEF Names
  <2>4. QED
    BY <2>1, <2>3
<1>3. CASE ~Began(s)
  <2>1. run'[r] = run[r] /\ run[r].pc = "done"
    BY <1>3, BeganNow DEF Began
  <2>2. QED
    BY <2>1
<1>4. QED
  BY <1>1, <1>2, <1>3

LEMMA TInvStep == IInv /\ TInv /\ [Next]_vars => TInv'
<1> SUFFICES ASSUME IInv, TInv, [Next]_vars
             PROVE  TInv'
  OBVIOUS
<1>1. \A r \in Runs : Ended(r)'
  BY EndedStep DEF TInv
<1>2. ASSUME NEW r \in Runs, Began(r)'
      PROVE  run'[r].name <= clock'
  <2>1. clock \in Names /\ clock' \in Names /\ clock <= clock'
    BY ClockGrows DEF IInv, Types
  <2>2. CASE Began(r)
    <3>1. run'[r].name = run[r].name /\ run[r].name <= clock /\ run[r].name \in Names
      BY <2>2, Begun DEF TInv, Began, IInv, Types, Run
    <3>2. QED
      BY <2>1, <3>1 DEF Names
  <2>3. CASE ~Began(r)
    <3>1. run'[r].name = clock
      BY <1>2, <2>3, BeganNow
    <3>2. QED
      BY <2>1, <3>1
  <2>4. QED
    BY <2>2, <2>3
<1>3. \A r, s \in Runs : r # s => InTurn(r, s)'
  BY TurnStep
<1>4. TInv' <=> /\ \A r \in Runs : Ended(r)'
                /\ \A r \in Runs : Began(r)' => run'[r].name <= clock'
                /\ \A r, s \in Runs : r # s => InTurn(r, s)'
  BY DEF TInv
<1>5. QED
  BY <1>1, <1>2, <1>3, <1>4

-----------------------------------------------------------------------------
(* The order in which the files of the archive were written                *)

\* The files of the archive, and no others, are in a total order.
Order ==
    /\ newer \in [Names -> SUBSET Names]
    /\ \A n \in Names : newer[n] # {} => n \in Files /\ newer[n] \subseteq Files \ {n}
    /\ \A m, n \in Files : m # n => (m \in newer[n] <=> n \notin newer[m])
    /\ \A n \in Names : \A m \in newer[n] : newer[m] \subseteq newer[n]

LEMMA ContentsExist == NoRun \notin Contents /\ Torn \notin Runs /\ Torn # NoRun
BY ConstantsAssumption DEF Contents

\* A file that is written to becomes the newest; the others keep their order.
LEMMA WrittenFiles ==
    ASSUME local \in [Names -> Contents \cup {NoRun}], NEW n \in Names, NEW v \in Contents, Written(n, v)
    PROVE  /\ local'[n] = v /\ \A m \in Names \ {n} : local'[m] = local[m]
           /\ newer \in [Names -> SUBSET Names] => newer' \in [Names -> SUBSET Names]
           /\ \A m \in Names : newer'[m] = IF m \in Files \ {n} THEN newer[m] \cup {n} ELSE {}
           /\ Files' = Files \cup {n}
<1>1. /\ local' = [local EXCEPT ![n] = v]
      /\ newer' = [m \in Names |-> IF m \in Files \ {n} THEN newer[m] \cup {n} ELSE {}]
  BY DEF Written
<1>2. local'[n] = v /\ \A m \in Names \ {n} : local'[m] = local[m]
  BY <1>1
<1>3. Files' = Files \cup {n}
  BY <1>2, ContentsExist DEF Files
<1>4. newer \in [Names -> SUBSET Names] => newer' \in [Names -> SUBSET Names]
  BY <1>1
<1>5. QED
  BY <1>1, <1>2, <1>3, <1>4

LEMMA WrittenOrder ==
    ASSUME local \in [Names -> Contents \cup {NoRun}], Order, NEW n \in Names, NEW v \in Contents, Written(n, v)
    PROVE  Order'
<1>1. /\ newer \in [Names -> SUBSET Names]
      /\ \A m \in Names : newer[m] # {} => m \in Files /\ newer[m] \subseteq Files \ {m}
      /\ \A m, q \in Files : m # q => (m \in newer[q] <=> q \notin newer[m])
      /\ \A q \in Names : \A m \in newer[q] : newer[m] \subseteq newer[q]
  BY DEF Order
<1>2. /\ \A m \in Names : newer'[m] = IF m \in Files \ {n} THEN newer[m] \cup {n} ELSE {}
      /\ Files' = Files \cup {n} /\ Files \subseteq Names
      /\ newer' \in [Names -> SUBSET Names]
  BY <1>1, WrittenFiles DEF Files
<1>4. \A m \in Names : newer'[m] # {} => m \in Files' /\ newer'[m] \subseteq Files' \ {m}
  BY <1>1, <1>2
<1>5. \A m, q \in Files' : m # q => (m \in newer'[q] <=> q \notin newer'[m])
  BY <1>1, <1>2
<1>6. \A q \in Names : \A m \in newer'[q] : newer'[m] \subseteq newer'[q]
  <2> SUFFICES ASSUME NEW q \in Names, NEW m \in newer'[q], NEW x \in newer'[m]
               PROVE  x \in newer'[q]
    OBVIOUS
  <2>1. q \in Files \ {n} /\ newer'[q] = newer[q] \cup {n}
    BY <1>2
  <2>2. CASE m = n
    BY <1>2, <2>2
  <2>3. CASE m # n
    <3>1. m \in newer[q] /\ newer[m] \subseteq newer[q]
      BY <1>1, <2>1, <2>3
    <3>2. newer'[m] \subseteq newer[m] \cup {n}
      BY <1>1, <1>2, <3>1
    <3>3. QED
      BY <2>1, <3>1, <3>2
  <2>4. QED
    BY <2>2, <2>3
<1>7. Order' <=>
        /\ newer' \in [Names -> SUBSET Names]
        /\ \A m \in Names : newer'[m] # {} => m \in Files' /\ newer'[m] \subseteq Files' \ {m}
        /\ \A m, q \in Files' : m # q => (m \in newer'[q] <=> q \notin newer'[m])
        /\ \A q \in Names : \A m \in newer'[q] : newer'[m] \subseteq newer'[q]
  BY DEF Order
<1>8. QED
  BY <1>2, <1>4, <1>5, <1>6, <1>7

LEMMA NewerCounts ==
    ASSUME Order, NEW n \in Names
    PROVE  /\ IsFiniteSet(newer[n]) /\ Cardinality(newer[n]) \in Nat
           /\ \A m \in newer[n] : m \in Names /\ newer[m] \subseteq newer[n] /\ m \notin newer[m]
<1>1. IsFiniteSet(Names)
  BY ConstantsAssumption, FS_Interval DEF Names
<1>2. newer[n] \in SUBSET Names
  BY DEF Order
<1>3. IsFiniteSet(newer[n]) /\ Cardinality(newer[n]) \in Nat
  BY <1>1, <1>2, FS_Subset, FS_CardinalityType
<1>4. \A m \in newer[n] : m \in Names /\ newer[m] \subseteq newer[n] /\ m \notin newer[m]
  BY <1>2 DEF Order
<1>5. QED
  BY <1>3, <1>4

\* Of the files newer than one of them one is the newest of all.
LEMMA Newest ==
    ASSUME Order, NEW n \in Names, newer[n] # {}
    PROVE  \E m \in newer[n] : newer[m] = {}
<1> DEFINE Sizes == {Cardinality(newer[m]) : m \in newer[n]}
<1>1. Sizes \subseteq Nat /\ Sizes # {}
  BY NewerCounts
<1> HIDE DEF Sizes
<1>2. PICK c \in Sizes : \A d \in Sizes : <<d, c>> \notin OpToRel(<, Nat)
  BY <1>1, NatLessThanWellFounded, WFMin
<1>3. \A d \in Sizes : ~(d < c)
  BY <1>1, <1>2 DEF OpToRel
<1>4. PICK m \in newer[n] : Cardinality(newer[m]) = c
  BY DEF Sizes
<1>5. ASSUME NEW q \in newer[m]
      PROVE  FALSE
  <2>1. m \in Names /\ q \in newer[n] /\ q \in Names
    BY <1>5, NewerCounts
  <2>2. /\ IsFiniteSet(newer[m]) /\ newer[q] \in SUBSET newer[m] /\ newer[q] # newer[m]
        /\ Cardinality(newer[m]) \in Nat /\ Cardinality(newer[q]) \in Nat
    BY <1>5, <2>1, NewerCounts
  <2>3. Cardinality(newer[q]) < c
    BY <1>4, <2>2, FS_Subset
  <2>4. QED
    BY <1>3, <2>1, <2>3 DEF Sizes
<1>6. QED
  BY <1>5

\* The files a rotation removes from its list.
Stale(r) == {n \in run[r].listed : Cardinality(newer[n] \cap run[r].listed) >= Retain}

\* As many files as the archive keeps are newer than a file that goes.
LEMMA StaleAreOld ==
    ASSUME IInv, Order, NEW r \in Runs, NEW n \in Stale(r)
    PROVE  n \in Names /\ Cardinality(newer[n]) >= Retain
<1>1. n \in Names /\ Cardinality(newer[n] \cap run[r].listed) >= Retain
  BY DEF IInv, Types, Run, Stale
<1>2. IsFiniteSet(newer[n]) /\ Cardinality(newer[n]) \in Nat /\ newer[n] \cap run[r].listed \in SUBSET newer[n]
  BY <1>1, NewerCounts
<1>3. /\ Cardinality(newer[n] \cap run[r].listed) <= Cardinality(newer[n])
      /\ Cardinality(newer[n] \cap run[r].listed) \in Nat
  BY <1>2, FS_Subset, FS_CardinalityType
<1>4. QED
  BY <1>1, <1>2, <1>3, ConstantsAssumption

\* What is left of an archive keeps its order.
LEMMA LeftFiles ==
    ASSUME local \in [Names -> Contents \cup {NoRun}], Order, NEW gone, Without(gone)
    PROVE  /\ Files' = Files \ gone
           /\ newer' \in [Names -> SUBSET Names]
           /\ \A n \in Names \ gone : local'[n] = local[n] /\ newer'[n] = newer[n] \ gone
           /\ \A n \in Names \cap gone : local'[n] = NoRun /\ newer'[n] = {}
<1>1. /\ local' = [n \in Names |-> IF n \in gone THEN NoRun ELSE local[n]]
      /\ newer' = [n \in Names |-> IF n \in gone THEN {} ELSE newer[n] \ gone]
  BY Zenon DEF Without
<1>2. /\ \A n \in Names \ gone : local'[n] = local[n] /\ newer'[n] = newer[n] \ gone
      /\ \A n \in Names \cap gone : local'[n] = NoRun /\ newer'[n] = {}
  BY <1>1
<1>3. Files' = {n \in Names : local'[n] # NoRun} /\ Files = {n \in Names : local[n] # NoRun}
  BY DEF Files
<1>4. Files' = Files \ gone
  BY <1>2, <1>3
<1>5. newer \in [Names -> SUBSET Names]
  BY DEF Order
<1>6. newer' \in [Names -> SUBSET Names]
  BY <1>1, <1>5
<1>7. QED
  BY <1>2, <1>4, <1>6

LEMMA LeftOrder ==
    ASSUME local \in [Names -> Contents \cup {NoRun}], Order, NEW gone, Without(gone)
    PROVE  Order'
<1>1. /\ newer \in [Names -> SUBSET Names]
      /\ \A m \in Names : newer[m] # {} => m \in Files /\ newer[m] \subseteq Files \ {m}
      /\ \A m, q \in Files : m # q => (m \in newer[q] <=> q \notin newer[m])
      /\ \A q \in Names : \A m \in newer[q] : newer[m] \subseteq newer[q]
  BY DEF Order
<1>2. /\ Files' = Files \ gone /\ Files \subseteq Names
      /\ newer' \in [Names -> SUBSET Names]
      /\ \A n \in Names \ gone : newer'[n] = newer[n] \ gone
      /\ \A n \in Names \cap gone : newer'[n] = {}
  BY LeftFiles DEF Files
<1>3. \A m \in Names : newer'[m] # {} => m \in Files' /\ newer'[m] \subseteq Files' \ {m}
  BY <1>1, <1>2
<1>4. \A m, q \in Files' : m # q => (m \in newer'[q] <=> q \notin newer'[m])
  BY <1>1, <1>2
<1>5. \A q \in Names : \A m \in newer'[q] : newer'[m] \subseteq newer'[q]
  BY <1>1, <1>2
<1>6. QED
  BY <1>2, <1>3, <1>4, <1>5 DEF Order

\* What a step of a pull writes: a part of the file, or at its end the whole of it,
\* unless two runs write the same file.
Pulls(r, v) ==
    \/ PullBegin(r) /\ v = Torn
    \/ PullWrites(r) /\ v = Torn
    \/ PullEnd(r) /\ run[r].name \in Files /\ (v = run[r].sha \/ (v = Torn /\ Collided(run[r].name)))

LEMMA ArchiveStep ==
    ASSUME IInv, [Next]_vars
    PROVE  \/ UNCHANGED archive
           \/ \E r \in Runs, v \in Contents : Written(run[r].name, v) /\ Pulls(r, v) /\ run[r].name \in Names
           \/ \E r \in Runs : Rotate(r) /\ Without(Stale(r))
<1>0. \A r \in Runs : run[r].name \in Names
  BY DEF IInv, Types, Run
<1>1. CASE \E r \in Runs : PullBegin(r) \/ PullWrites(r)
  BY <1>0, <1>1 DEF PullBegin, PullWrites, Pulls, Contents
<1>2. ASSUME NEW r \in Runs, PullEnd(r)
      PROVE  UNCHANGED archive \/ \E v \in Contents : Written(run[r].name, v) /\ Pulls(r, v)
  <2>1. CASE run[r].name \notin Files
    BY <1>2, <2>1 DEF PullEnd
  <2>2. CASE run[r].name \in Files
    <3>1. PICK v \in {run[r].sha} \cup (IF \E s \in Runs \ {r} : run[s].pc = "pulling" /\ run[s].name = run[r].name
                                        THEN {Torn} ELSE {}) : Written(run[r].name, v)
      BY <1>2, <2>2, Zenon DEF PullEnd
    <3>2. run[r].pc = "pulling" /\ run[r].sha \in Contents
      BY <1>2 DEF PullEnd, IInv, RunOK, Contents
    <3>3. CASE v = run[r].sha
      BY <1>2, <2>2, <3>1, <3>2, <3>3 DEF Pulls
    <3>4. ASSUME NEW s \in Runs \ {r}, run[s].pc = "pulling", run[s].name = run[r].name, v = Torn
          PROVE  v \in Contents /\ Pulls(r, v)
      <4>1. Collided(run[r].name)
        BY <3>2, <3>4, Pair DEF Named
      <4>2. QED
        BY <1>2, <2>2, <3>4, <4>1 DEF Pulls, Contents
    <3>5. QED
      BY <3>1, <3>3, <3>4
  <2>3. QED
    BY <2>1, <2>2
<1>3. CASE \E r \in Runs : Rotate(r)
  BY <1>3 DEF Rotate, Missed, Stale
<1>4. CASE ~\E r \in Runs : PullBegin(r) \/ PullWrites(r) \/ PullEnd(r) \/ Rotate(r)
  BY <1>4 DEF Next, Agent, Serve, Tick, DeleteDevice, Crash, Begin, Save, PullFails, Cleanup, Hash, List, Upload,
     Retry, GiveUp, Uploaded, Check, Put, Insert, Forget, archive, vars
<1>5. QED
  BY <1>0, <1>1, <1>2, <1>3, <1>4

LEMMA OrderStep == IInv /\ Order /\ [Next]_vars => Order'
<1> SUFFICES ASSUME IInv, Order, [Next]_vars
             PROVE  Order'
  OBVIOUS
<1>0. local \in [Names -> Contents \cup {NoRun}]
  BY DEF IInv, Types
<1>1. CASE UNCHANGED archive
  BY <1>1 DEF Order, Files, archive
<1>2. CASE \E r \in Runs, v \in Contents : Written(run[r].name, v) /\ run[r].name \in Names
  BY <1>0, <1>2, WrittenOrder
<1>3. CASE \E r \in Runs : Without(Stale(r))
  BY <1>0, <1>3, LeftOrder
<1>4. QED
  BY <1>1, <1>2, <1>3, ArchiveStep

-----------------------------------------------------------------------------
(* A file is some run's, and goes only when enough newer ones are there    *)

\* Run r has opened the local file of its name, or failed before it could.
Opened(r) == run[r].pc \notin {"idle", "save", "pull"}

\* The runs RunKeepsItsFile counts.
Rivals(r) == {s \in Runs \ {r} : run[s].pc \notin {"idle", "save"}}

\* Run r has begun to write its file and did not fail since.
Wrote(r) ==
    \/ run[r].pc \in Pulled \cup {"pulling"}
    \/ run[r].pc = "cleanup" /\ run[r].result = "none"
    \/ run[r].result = "success"

FileOK(n) == \E r \in Runs : run[r].name = n /\ Opened(r)

KeptOK(r) ==
    /\ Wrote(r) => run[r].name \in Files \/ Cardinality(Rivals(r)) >= Retain
    /\ run[r].pc = "rotate" => run[r].listed \subseteq Files \/ Cardinality(Rivals(r)) >= Retain
    /\ run[r].result = "crashed" => Cardinality(Rivals(r)) >= Retain

AInv ==
    /\ Order
    /\ litter \subseteq Names
    /\ faults \in 0..MaxFaults
    /\ \A n \in Files : FileOK(n)
    /\ \A r \in Runs : KeptOK(r)

\* A run that has opened its file never has it to open again.
LEMMA OpenedStays ==
    ASSUME IInv, [Next]_vars, NEW s \in Runs
    PROVE  /\ Opened(s) => Opened(s)' /\ run'[s].name = run[s].name
           /\ run[s].pc \notin {"idle", "save"} => run'[s].pc \notin {"idle", "save"}
<1>1. CASE run'[s] = run[s]
  BY <1>1 DEF Opened
<1>2. CASE Begin(s)
  BY <1>2 DEF Begin, Opened
<1>3. CASE RunSteps(s) \/ \E k \in Calls : Upload(s, k) \/ Retry(s, k)
  <2>1. run'[s].pc \notin {"idle", "save"} /\ (run[s].pc # "save" => run'[s].pc # "pull")
        /\ run'[s].name = run[s].name
    <3>1. CASE Save(s) \/ PullBegin(s) \/ PullEnd(s)
      BY <3>1, Stages
    <3>2. CASE PullFails(s) \/ Hash(s) \/ List(s) \/ Rotate(s) \/ Cleanup(s)
      BY <3>2, Stages
    <3>3. CASE GiveUp(s) \/ Uploaded(s) \/ \E k \in Calls : Upload(s, k) \/ Retry(s, k)
      BY <3>3, Stages
    <3>4. QED
      BY <1>3, <3>1, <3>2, <3>3 DEF RunSteps
  <2>2. QED
    BY <2>1 DEF Opened
<1>4. CASE Crash /\ run[s].pc \notin {"idle", "done"}
  BY <1>4, Killed DEF Opened
<1>5. QED
  BY <1>1, <1>2, <1>3, <1>4, Progress

\* Rivals only become more.
LEMMA RivalsStay ==
    ASSUME IInv, [Next]_vars, NEW s \in Runs, Cardinality(Rivals(s)) >= Retain
    PROVE  Cardinality(Rivals(s)') >= Retain
<1>1. Rivals(s) \in SUBSET (Rivals(s)')
  BY OpenedStays DEF Rivals
<1>2. IsFiniteSet(Rivals(s)) /\ IsFiniteSet(Rivals(s)')
  BY ConstantsAssumption, FS_Subset DEF Rivals
<1>3. Cardinality(Rivals(s)) <= Cardinality(Rivals(s)')
  BY <1>1, <1>2, FS_Subset
<1>4. Cardinality(Rivals(s)) \in Nat /\ Cardinality(Rivals(s)') \in Nat
  BY <1>2, FS_CardinalityType
<1>5. QED
  BY <1>3, <1>4, ConstantsAssumption

\* The files newer than a file n and n itself were written by as many runs, of whom
\* only one can be r.
LEMMA NewerAreRivals ==
    ASSUME AInv, NEW r \in Runs, NEW n \in Files
    PROVE  Cardinality(newer[n]) <= Cardinality(Rivals(r))
<1> DEFINE Writer(m) == CHOOSE s \in Runs : run[s].name = m /\ Opened(s)
           rival == [m \in newer[n] |-> IF Writer(m) = r THEN Writer(n) ELSE Writer(m)]
<1>0. /\ n \in Names /\ newer[n] \subseteq Files \ {n}
      /\ IsFiniteSet(newer[n]) /\ Cardinality(newer[n]) \in Nat
  BY NewerCounts DEF AInv, Order, Files
<1>1. ASSUME NEW m \in Files
      PROVE  Writer(m) \in Runs /\ run[Writer(m)].name = m /\ Opened(Writer(m))
  <2>1. \E s \in Runs : run[s].name = m /\ Opened(s)
    BY DEF AInv, FileOK
  <2>2. QED
    BY <2>1
<1> HIDE DEF Writer
<1>2. \A x, y \in newer[n] : x # y => rival[x] # rival[y]
  BY <1>0, <1>1
<1>3. rival \in [newer[n] -> Rivals(r)]
  BY <1>0, <1>1 DEF Opened, Rivals
<1>4. IsFiniteSet(Rivals(r)) /\ Cardinality(Rivals(r)) \in Nat
  BY ConstantsAssumption, FS_Subset, FS_CardinalityType DEF Rivals
<1> HIDE DEF rival
<1>5. ~(Cardinality(Rivals(r)) < Cardinality(newer[n]))
  BY <1>0, <1>2, <1>3, <1>4, FS_PigeonHole
<1>6. QED
  BY <1>0, <1>4, <1>5

LEMMA FileStep ==
    ASSUME IInv, AInv, [Next]_vars, NEW n \in Files'
    PROVE  FileOK(n)'
<1>0. local \in [Names -> Contents \cup {NoRun}] /\ n \in Names
  BY DEF IInv, Types, Files
<1>1. CASE n \in Files
  BY <1>1, OpenedStays DEF AInv, FileOK
<1>2. ASSUME NEW r \in Runs, NEW v \in Contents, Written(run[r].name, v), Pulls(r, v), run[r].name \in Names,
             n \notin Files
      PROVE  FileOK(n)'
  <2>1. n = run[r].name
    BY <1>0, <1>2, WrittenFiles
  <2>2. CASE PullBegin(r)
    BY <2>1, <2>2, Stages DEF FileOK, Opened
  <2>3. CASE PullWrites(r) \/ PullEnd(r)
    BY <1>2, <2>1, <2>3 DEF Pulls, PullWrites, PullBegin, PullEnd
  <2>4. QED
    BY <1>2, <2>2, <2>3 DEF Pulls
<1>3. CASE \E r \in Runs : Without(Stale(r))
  BY <1>0, <1>1, <1>3, LeftFiles DEF AInv
<1>4. CASE UNCHANGED archive
  BY <1>1, <1>4 DEF Files, archive
<1>5. QED
  BY <1>1, <1>2, <1>3, <1>4, ArchiveStep

\* A run comes to write its file by opening it.
LEMMA WroteBefore ==
    ASSUME IInv, TInv, [Next]_vars, NEW s \in Runs, Wrote(s)'
    PROVE  \/ Wrote(s) /\ run'[s].name = run[s].name
           \/ PullBegin(s) /\ run'[s].name = run[s].name
<1>0. run[s].result \in Outcomes /\ Ended(s)
  BY DEF IInv, Types, Run, Outcomes, TInv
<1>1. CASE run'[s] = run[s]
  BY <1>1 DEF Wrote
<1>2. CASE Begin(s)
  BY <1>0, <1>2, Beginning DEF Wrote, Pulled, Ended
<1>3. CASE Save(s) \/ PullFails(s)
  BY <1>0, <1>3, Stages DEF Wrote, Pulled, Ended
<1>4. CASE PullBegin(s)
  BY <1>4, Stages
<1>5. CASE PullEnd(s) \/ Hash(s) \/ List(s) \/ Rotate(s)
  BY <1>5, Stages DEF Wrote, Pulled
<1>6. CASE Cleanup(s)
  BY <1>0, <1>6, Stages DEF Wrote, Pulled, Ended, Outcomes
<1>7. CASE GiveUp(s) \/ Uploaded(s) \/ \E k \in Calls : Upload(s, k) \/ Retry(s, k)
  BY <1>7, Stages DEF Wrote, Pulled
<1>8. CASE Crash /\ run[s].pc \notin {"idle", "done"}
  BY <1>8, Killed DEF Wrote, Pulled
<1>9. QED
  BY <1>1, <1>2, <1>3, <1>4, <1>5, <1>6, <1>7, <1>8, Progress DEF RunSteps

\* A run comes to be "crashed" by finding no file to hash, or one of its list gone.
LEMMA CrashedBefore ==
    ASSUME IInv, TInv, [Next]_vars, NEW s \in Runs, run'[s].result = "crashed"
    PROVE  \/ run[s].result = "crashed"
           \/ Wrote(s) /\ run[s].name \notin Files
           \/ run[s].pc = "rotate" /\ ~(run[s].listed \subseteq Files)
<1>0. run[s].result \in Outcomes /\ Ended(s) /\ run[s].name \in Names
  BY DEF IInv, Types, Run, Outcomes, TInv
<1>1. CASE run'[s] = run[s] \/ Begin(s)
  BY <1>1, Beginning
<1>2. CASE Save(s) \/ PullBegin(s) \/ PullEnd(s) \/ PullFails(s) \/ Cleanup(s) \/ List(s)
  BY <1>2, Stages
<1>3. CASE Hash(s)
  BY <1>0, <1>3, Stages DEF Wrote, Pulled, Files
<1>4. CASE Rotate(s)
  BY <1>0, <1>4, Stages
<1>5. CASE GiveUp(s) \/ Uploaded(s) \/ \E k \in Calls : Upload(s, k) \/ Retry(s, k)
  BY <1>5, Stages
<1>6. CASE Crash /\ run[s].pc \notin {"idle", "done"}
  BY <1>6, Killed
<1>7. QED
  BY <1>1, <1>2, <1>3, <1>4, <1>5, <1>6, Progress DEF RunSteps

\* A run comes to rotate with the list it just made.
LEMMA ListedBefore ==
    ASSUME IInv, [Next]_vars, NEW s \in Runs, run'[s].pc = "rotate"
    PROVE  \/ run'[s].listed = Files /\ UNCHANGED archive
           \/ run[s].pc = "rotate" /\ run'[s].listed = run[s].listed
<1>1. ~(Begin(s) \/ Save(s) \/ PullBegin(s) \/ PullEnd(s) \/ PullFails(s) \/ Cleanup(s))
  BY Beginning, Stages
<1>2. ~(Hash(s) \/ Rotate(s) \/ GiveUp(s) \/ Uploaded(s) \/ \E k \in Calls : Upload(s, k) \/ Retry(s, k))
  BY Stages
<1>3. ~(Crash /\ run[s].pc \notin {"idle", "done"})
  BY Killed
<1>4. CASE List(s)
  BY <1>4, Stages DEF List
<1>5. QED
  BY <1>1, <1>2, <1>3, <1>4, Progress DEF RunSteps

\* A file goes only when run r has as many rivals as the archive keeps files.
LEMMA GoneOnlyForRivals ==
    ASSUME IInv, AInv, [Next]_vars, NEW r \in Runs, NEW n \in Files
    PROVE  n \in Files' \/ Cardinality(Rivals(r)) >= Retain
<1>0. local \in [Names -> Contents \cup {NoRun}] /\ Order /\ n \in Names
  BY DEF IInv, Types, AInv, Files
<1>1. CASE UNCHANGED archive
  BY <1>1 DEF archive, Files
<1>2. CASE \E s \in Runs, v \in Contents : Written(run[s].name, v) /\ run[s].name \in Names
  BY <1>0, <1>2, WrittenFiles
<1>3. ASSUME NEW s \in Runs, Without(Stale(s))
      PROVE  n \in Files' \/ Cardinality(Rivals(r)) >= Retain
  <2>1. CASE n \notin Stale(s)
    BY <1>0, <1>3, <2>1, LeftFiles
  <2>2. CASE n \in Stale(s)
    <3>1. Cardinality(newer[n]) >= Retain /\ Cardinality(newer[n]) <= Cardinality(Rivals(r))
      BY <1>0, <2>2, StaleAreOld, NewerAreRivals
    <3>2. Cardinality(newer[n]) \in Nat /\ Cardinality(Rivals(r)) \in Nat
      BY <1>0, NewerCounts, ConstantsAssumption, FS_Subset, FS_CardinalityType DEF Rivals
    <3>3. QED
      BY <3>1, <3>2, ConstantsAssumption
  <2>3. QED
    BY <2>1, <2>2
<1>4. QED
  BY <1>1, <1>2, <1>3, ArchiveStep

LEMMA KeptStep ==
    ASSUME IInv, TInv, AInv, [Next]_vars, NEW r \in Runs
    PROVE  KeptOK(r)'
<1> DEFINE n == run[r].name
<1>0. local \in [Names -> Contents \cup {NoRun}] /\ n \in Names /\ KeptOK(r) /\ Order
  BY DEF IInv, Types, Run, AInv
<1>1. ASSUME Cardinality(Rivals(r)) >= Retain
      PROVE  Cardinality(Rivals(r)') >= Retain
  BY <1>1, RivalsStay
<1>2. ASSUME run'[r].result = "crashed"
      PROVE  Cardinality(Rivals(r)') >= Retain
  BY <1>0, <1>1, <1>2, CrashedBefore DEF KeptOK
<1>3. ASSUME Wrote(r)'
      PROVE  run'[r].name \in Files' \/ Cardinality(Rivals(r)') >= Retain
  <2>1. CASE PullBegin(r)
    <3>1. Written(n, Torn)
      BY <2>1 DEF PullBegin
    <3>2. n \in Files' /\ run'[r].name = n
      BY <1>0, <2>1, <3>1, WrittenFiles, Stages DEF Contents
    <3>3. QED
      BY <3>2
  <2>2. CASE Wrote(r) /\ run'[r].name = n
    BY <1>0, <1>1, <2>2, GoneOnlyForRivals DEF KeptOK
  <2>3. QED
    BY <1>3, <2>1, <2>2, WroteBefore
<1>4. ASSUME run'[r].pc = "rotate"
      PROVE  run'[r].listed \subseteq Files' \/ Cardinality(Rivals(r)') >= Retain
  <2>1. CASE run'[r].listed = Files /\ UNCHANGED archive
    BY <2>1 DEF archive, Files
  <2>2. CASE run[r].pc = "rotate" /\ run'[r].listed = run[r].listed
    BY <1>0, <1>1, <2>2, GoneOnlyForRivals DEF KeptOK
  <2>3. QED
    BY <1>4, <2>1, <2>2, ListedBefore
<1>5. KeptOK(r)' <=>
        /\ Wrote(r)' => run'[r].name \in Files' \/ Cardinality(Rivals(r)') >= Retain
        /\ run'[r].pc = "rotate" => run'[r].listed \subseteq Files' \/ Cardinality(Rivals(r)') >= Retain
        /\ run'[r].result = "crashed" => Cardinality(Rivals(r)') >= Retain
  BY DEF KeptOK
<1>6. QED
  BY <1>2, <1>3, <1>4, <1>5

LEMMA CountsStep ==
    ASSUME IInv, litter \subseteq Names, faults \in 0..MaxFaults, [Next]_vars
    PROVE  litter' \subseteq Names /\ faults' \in 0..MaxFaults
<1>0. (\A r \in Runs : run[r].name \in Names) /\ MaxFaults \in Nat
  BY ConstantsAssumption DEF IInv, Types, Run
<1>1. ASSUME faults' = faults \/ Fault
      PROVE  faults' \in 0..MaxFaults
  BY <1>0, <1>1 DEF Fault
<1>2. CASE Crash
  <2>1. litter' = litter \cup {n \in {run[r].name : r \in {s \in Runs : run[s].pc \notin {"idle", "done"}}} :
                                 router[n] # NoRun}
    BY <1>2, Zenon DEF Crash
  <2>2. Fault
    BY <1>2 DEF Crash
  <2>3. QED
    BY <1>0, <1>1, <2>1, <2>2
<1>3. CASE \E r \in Runs : Cleanup(r)
  BY <1>0, <1>1, <1>3 DEF Cleanup
<1>4. CASE (\E r \in Runs : Save(r) \/ PullFails(r) \/ \E k \in Calls : Retry(r, k))
  BY <1>1, <1>4 DEF Save, PullFails, Retry
<1>5. CASE ~(Crash \/ \E r \in Runs : Cleanup(r) \/ Save(r) \/ PullFails(r) \/ \E k \in Calls : Retry(r, k))
  <2>1. UNCHANGED <<litter, faults>>
    BY <1>5 DEF Next, Agent, Serve, Tick, DeleteDevice, Begin, PullBegin, PullWrites, PullEnd, Hash, List, Rotate,
       Upload, GiveUp, Uploaded, Check, Put, Insert, Forget, vars
  <2>2. QED
    BY <1>1, <2>1
<1>6. QED
  BY <1>2, <1>3, <1>4, <1>5

LEMMA AInvStep == IInv /\ TInv /\ AInv /\ [Next]_vars => AInv'
<1> SUFFICES ASSUME IInv, TInv, AInv, [Next]_vars
             PROVE  AInv'
  OBVIOUS
<1>1. Order'
  BY OrderStep DEF AInv
<1>2. litter' \subseteq Names /\ faults' \in 0..MaxFaults
  BY CountsStep DEF AInv
<1>3. \A n \in Files' : FileOK(n)'
  BY FileStep
<1>4. \A r \in Runs : KeptOK(r)'
  BY KeptStep
<1>5. AInv' <=> /\ Order' /\ litter' \subseteq Names /\ faults' \in 0..MaxFaults
                /\ \A n \in Files' : FileOK(n)'
                /\ \A r \in Runs : KeptOK(r)'
  BY DEF AInv
<1>6. QED
  BY <1>1, <1>2, <1>3, <1>4, <1>5

LEMMA ArchiveInit == Init => TInv /\ AInv
<1> SUFFICES ASSUME Init
             PROVE  TInv /\ AInv
  OBVIOUS
<1>0. \A r \in Runs : run[r].pc = "idle" /\ run[r].result = "none"
  BY DEF Init, IdleRun
<1>1. TInv
  BY <1>0 DEF TInv, Ended, InTurn, Began
<1>2. Files = {}
  BY DEF Init, Files
<1>3. Order
  BY <1>2 DEF Init, Order
<1>4. faults \in 0..MaxFaults /\ litter = {}
  BY ConstantsAssumption DEF Init
<1>5. \A r \in Runs : KeptOK(r)
  BY <1>0 DEF KeptOK, Wrote, Pulled
<1>6. QED
  BY <1>1, <1>2, <1>3, <1>4, <1>5 DEF AInv

LEMMA ArchiveInvariance == Spec => [](TInv /\ AInv)
<1>1. Init => TInv /\ AInv
  BY ArchiveInit
<1>2. (TInv /\ AInv) /\ IInv /\ [Next]_vars => (TInv /\ AInv)'
  BY TInvStep, AInvStep
<1>3. QED
  BY <1>1, <1>2, Invariance, PTL DEF Spec

\* Files, runs and attempts are well typed, a run waits exactly while it has an
\* attempt under way, and the times of writing put the archive's files, and no
\* others, in a total order: what _rotate (backup.py:199) and find_recent_backup
\* (apply.py:88) sort is sorted.
THEOREM TypeCorrect == Spec => []TypeOK
<1>1. IInv /\ AInv => TypeOK
  <2> SUFFICES ASSUME IInv, AInv
               PROVE  TypeOK
    OBVIOUS
  <2>1. Types /\ Order /\ litter \subseteq Names /\ faults \in 0..MaxFaults
    BY DEF IInv, AInv
  <2>2. \A r \in Runs : run[r].pc = "waiting" <=> run[r].call # NoCall
    BY DEF IInv, RunOK
  <2>3. QED
    BY <2>1, <2>2 DEF TypeOK, Types, Order
<1>2. QED
  BY <1>1, Invariance, ArchiveInvariance, PTL

\* A run finds its file gone when it comes to hash it only after at least as many
\* other runs as the archive keeps files came to write theirs.
THEOREM FilesLastLongEnough == Spec => []RunKeepsItsFile
<1>1. AInv => RunKeepsItsFile
  BY DEF AInv, KeptOK, Rivals, RunKeepsItsFile
<1>2. QED
  BY <1>1, ArchiveInvariance, PTL

-----------------------------------------------------------------------------
(* Torn files                                                              *)

\* A torn file is still arriving, or its run failed or was killed.
Tearing(r) == run[r].pc = "pulling" \/ run[r].result \in {"failed", "killed"}

TornOK(n) == local[n] = Torn => Collided(n) \/ \E r \in Runs : run[r].name = n /\ Tearing(r)

\* A run that wrote a file of a later second in the same thread wrote it later.
LaterIsNewer(r, s) ==
    /\ ThreadOf[r] = ThreadOf[s] /\ Began(r) /\ Began(s)
    /\ run[r].name < run[s].name /\ Wrote(s)
    => Collided(run[r].name) \/ run[r].name \notin Files \/ newer[run[r].name] # {}

\* While a pull goes on its file is not whole.
ArrivingOK(r) == run[r].pc = "pulling" => Collided(run[r].name) \/ local[run[r].name] \in {Torn, NoRun}

\* Collided, in the state after the step.
CollidedNext(n) == Cardinality({r \in Runs : run'[r].pc # "idle" /\ run'[r].name = n}) > 1

LEMMA CollidedStays ==
    ASSUME IInv, [Next]_vars
    PROVE  \A n : Collided(n) => CollidedNext(n)
<1> SUFFICES ASSUME NEW n, Collided(n)
             PROVE  CollidedNext(n)
  OBVIOUS
<1>1. Sound(n, Torn)
  BY DEF Sound
<1>2. SoundNext(n, Torn)
  BY <1>1, StillSound
<1>3. QED
  BY <1>2, ContentsExist DEF SoundNext, CollidedNext

\* A run leaves its file torn only by failing, or by going on to the file's end.
LEMMA TearingStays ==
    ASSUME IInv, TInv, [Next]_vars, NEW r \in Runs, Tearing(r)
    PROVE  /\ run'[r].name = run[r].name
           /\ Tearing(r)' \/ (PullEnd(r) /\ run[r].name \in Files)
           /\ run[r].result \in {"failed", "killed"} => run'[r].result \in {"failed", "killed"}
<1>0. Ended(r) /\ run[r].name \in Names
  BY DEF TInv, IInv, Types, Run
<1>1. CASE run'[r] = run[r]
  BY <1>1 DEF Tearing
<1>2. CASE Begin(r) \/ Save(r) \/ PullBegin(r) \/ Hash(r) \/ List(r) \/ Rotate(r)
  BY <1>0, <1>2, Stages DEF Tearing, Ended, Begin
<1>3. CASE PullEnd(r)
  BY <1>0, <1>3, Stages DEF Tearing, Ended, Files
<1>4. CASE PullFails(r) \/ Cleanup(r)
  BY <1>0, <1>4, Stages DEF Tearing, Ended
<1>5. CASE GiveUp(r) \/ Uploaded(r) \/ \E k \in Calls : Upload(r, k) \/ Retry(r, k)
  BY <1>0, <1>5, Stages DEF Tearing, Ended
<1>6. CASE Crash /\ run[r].pc \notin {"idle", "done"}
  BY <1>6, Killed DEF Tearing
<1>7. QED
  BY <1>1, <1>2, <1>3, <1>4, <1>5, <1>6, Progress DEF RunSteps

\* Who writes a file has opened it under its name, and who ends a pull leaves it
\* whole or shares it.
LEMMA Writing ==
    ASSUME IInv, [Next]_vars, NEW r \in Runs, NEW v, Pulls(r, v)
    PROVE  /\ run[r].pc \in {"pull", "pulling"}
           /\ v \in Runs \/ (v = Torn /\ (Collided(run[r].name) \/ Tearing(r)'))
           /\ v \in Runs => PullEnd(r)
<1>1. CASE PullBegin(r) /\ v = Torn
  <2>1. run[r].pc = "pull" /\ Tearing(r)'
    BY <1>1, Stages DEF Tearing
  <2>2. QED
    BY <1>1, <2>1, ContentsExist
<1>2. CASE PullWrites(r) /\ v = Torn
  <2>1. run[r].pc = "pulling" /\ Tearing(r)'
    BY <1>2 DEF PullWrites, Tearing
  <2>2. QED
    BY <1>2, <2>1, ContentsExist
<1>3. CASE PullEnd(r) /\ (v = run[r].sha \/ (v = Torn /\ Collided(run[r].name)))
  <2>1. run[r].pc = "pulling" /\ run[r].sha \in Runs
    BY <1>3 DEF PullEnd, IInv, RunOK
  <2>2. QED
    BY <1>3, <2>1
<1>4. QED
  BY <1>1, <1>2, <1>3 DEF Pulls

LEMMA TornStep ==
    ASSUME IInv, TInv, [Next]_vars, NEW n \in Names, TornOK(n), local'[n] = Torn
    PROVE  CollidedNext(n) \/ \E r \in Runs : run'[r].name = n /\ Tearing(r)'
<1>0. local \in [Names -> Contents \cup {NoRun}] /\ \A r \in Runs : run[r].name \in Names
  BY DEF IInv, Types, Run
<1>1. ASSUME NEW r \in Runs, NEW v \in Contents, Written(n, v), Pulls(r, v), run[r].name = n
      PROVE  CollidedNext(n) \/ \E q \in Runs : run'[q].name = n /\ Tearing(q)'
  <2>1. v = Torn
    BY <1>0, <1>1, WrittenFiles
  <2>2. Collided(n) \/ Tearing(r)'
    BY <1>1, <2>1, Writing, ContentsExist
  <2>3. run'[r].name = n
    BY <1>1, Writing, Begun
  <2>4. QED
    BY <2>2, <2>3, CollidedStays
<1>2. CASE /\ local[n] = Torn
           /\ ~\E r \in Runs, v \in Contents : Written(n, v) /\ Pulls(r, v) /\ run[r].name = n
  <2>1. CASE Collided(n)
    BY <2>1, CollidedStays
  <2>2. ASSUME NEW r \in Runs, run[r].name = n, Tearing(r)
        PROVE  CollidedNext(n) \/ \E q \in Runs : run'[q].name = n /\ Tearing(q)'
    <3>1. CASE Tearing(r)'
      BY <2>2, <3>1, TearingStays
    <3>2. CASE PullEnd(r) /\ n \in Files
      <4>1. PICK v \in {run[r].sha} \cup (IF \E s \in Runs \ {r} : run[s].pc = "pulling" /\ run[s].name = n
                                          THEN {Torn} ELSE {}) : Written(n, v)
        BY <2>2, <3>2, Zenon DEF PullEnd
      <4>2. run[r].pc = "pulling" /\ run[r].sha \in Contents
        BY <3>2 DEF PullEnd, IInv, RunOK, Contents
      <4>3. v # run[r].sha
        BY <1>2, <2>2, <3>2, <4>1, <4>2 DEF Pulls
      <4>4. PICK s \in Runs \ {r} : run[s].pc = "pulling" /\ run[s].name = n
        BY <4>1, <4>3
      <4>5. Collided(n)
        BY <2>2, <4>2, <4>4, Pair DEF Named
      <4>6. QED
        BY <4>5, CollidedStays
    <3>3. QED
      BY <2>2, <3>1, <3>2, TearingStays
  <2>3. QED
    BY <1>2, <2>1, <2>2 DEF TornOK
<1>3. CASE local[n] # Torn /\ ~\E r \in Runs, v \in Contents : Written(n, v) /\ Pulls(r, v) /\ run[r].name = n
  <2>1. ~UNCHANGED archive
    BY <1>3 DEF archive
  <2>2. ASSUME NEW q \in Runs, Without(Stale(q))
        PROVE  FALSE
    <3>1. local'[n] = IF n \in Stale(q) THEN NoRun ELSE local[n]
      BY <2>2 DEF Without
    <3>2. QED
      BY <1>3, <3>1, ContentsExist
  <2>3. PICK r \in Runs, v \in Contents : Written(run[r].name, v) /\ Pulls(r, v) /\ run[r].name \in Names
    BY <2>1, <2>2, ArchiveStep
  <2>4. run[r].name # n
    BY <1>3, <2>3
  <2>5. local'[n] = local[n]
    BY <1>0, <2>3, <2>4, WrittenFiles
  <2>6. QED
    BY <1>3, <2>5
<1>4. QED
  BY <1>1, <1>2, <1>3

LEMMA ArrivingStep ==
    ASSUME IInv, TInv, [Next]_vars, NEW s \in Runs, ArrivingOK(s), run'[s].pc = "pulling"
    PROVE  CollidedNext(run'[s].name) \/ local'[run'[s].name] \in {Torn, NoRun}
<1> DEFINE n == run[s].name
<1>0. local \in [Names -> Contents \cup {NoRun}] /\ n \in Names
  BY DEF IInv, Types, Run
<1>1. PullBegin(s) \/ (run'[s] = run[s] /\ run[s].pc = "pulling")
  <2>1. ~(Begin(s) \/ Save(s) \/ PullEnd(s) \/ PullFails(s) \/ Hash(s))
    BY Beginning, Stages
  <2>2. ~(List(s) \/ Rotate(s) \/ Cleanup(s) \/ GiveUp(s) \/ Uploaded(s) \/ \E k \in Calls : Upload(s, k) \/ Retry(s, k))
    BY Stages
  <2>3. ~(Crash /\ run[s].pc \notin {"idle", "done"})
    BY Killed
  <2>4. QED
    BY <2>1, <2>2, <2>3, Progress DEF RunSteps
<1>2. CASE PullBegin(s)
  <2>1. Written(n, Torn) /\ run'[s].name = n
    BY <1>2, Stages DEF PullBegin
  <2>2. local'[n] = Torn
    BY <1>0, <2>1, WrittenFiles DEF Contents
  <2>3. QED
    BY <2>1, <2>2
<1>3. CASE run'[s] = run[s] /\ run[s].pc = "pulling"
  <2>1. CASE Collided(n)
    BY <1>3, <2>1, CollidedStays
  <2>2. CASE local[n] \in {Torn, NoRun}
    <3>1. CASE UNCHANGED archive
      BY <1>3, <2>2, <3>1 DEF archive
    <3>2. ASSUME NEW r \in Runs, NEW v \in Contents, Written(run[r].name, v), Pulls(r, v), run[r].name \in Names
          PROVE  CollidedNext(n) \/ local'[n] \in {Torn, NoRun}
      <4>1. CASE run[r].name # n
        BY <1>0, <2>2, <3>2, <4>1, WrittenFiles
      <4>2. CASE run[r].name = n /\ r # s
        <5>1. Collided(n)
          BY <1>3, <3>2, <4>2, Writing, Pair DEF Named
        <5>2. QED
          BY <5>1, CollidedStays
      <4>3. CASE r = s
        <5>1. ~PullEnd(s)
          BY <1>3, Stages
        <5>2. v = Torn
          BY <3>2, <4>3, <5>1, Writing
        <5>3. QED
          BY <1>0, <3>2, <4>3, <5>2, WrittenFiles
      <4>4. QED
        BY <4>1, <4>2, <4>3
    <3>3. ASSUME NEW q \in Runs, Without(Stale(q))
          PROVE  CollidedNext(n) \/ local'[n] \in {Torn, NoRun}
      <4>1. local'[n] = IF n \in Stale(q) THEN NoRun ELSE local[n]
        BY <1>0, <3>3 DEF Without
      <4>2. QED
        BY <2>2, <4>1
    <3>4. QED
      BY <1>3, <3>1, <3>2, <3>3, ArchiveStep
  <2>3. QED
    BY <1>3, <2>1, <2>2 DEF ArrivingOK
<1>4. QED
  BY <1>1, <1>2, <1>3

LEMMA LaterStep ==
    ASSUME IInv, TInv, AInv, [Next]_vars, NEW r \in Runs, NEW s \in Runs, LaterIsNewer(r, s)
    PROVE  LaterIsNewer(r, s)'
<1> SUFFICES ASSUME ThreadOf[r] = ThreadOf[s], Began(r)', Began(s)', run'[r].name < run'[s].name, Wrote(s)'
             PROVE  CollidedNext(run'[r].name) \/ run'[r].name \notin Files' \/ newer'[run'[r].name] # {}
  BY DEF LaterIsNewer, Collided, CollidedNext
<1> DEFINE n == run[r].name
           m == run[s].name
<1>0. /\ local \in [Names -> Contents \cup {NoRun}] /\ n \in Names /\ m \in Names /\ clock \in Names /\ Order
  BY DEF IInv, Types, Run, AInv
<1>1. Wrote(s) \/ PullBegin(s)
  BY WroteBefore
<1>2. Began(s) /\ run'[s].name = m
  <2>1. run'[s].name = m
    BY WroteBefore
  <2>2. Ended(s)
    BY DEF TInv
  <2>3. QED
    BY <1>1, <2>1, <2>2 DEF Wrote, Pulled, Began, PullBegin, Ended
<1>3. Began(r)
  <2>1. ASSUME ~Began(r)
        PROVE  FALSE
    <3>1. run'[r].name = clock /\ m <= clock
      BY <1>2, <2>1, BeganNow DEF TInv
    <3>2. QED
      BY <1>0, <1>2, <3>1 DEF Names
  <2>2. QED
    BY <2>1
<1>4. run'[r].name = n /\ n < m /\ r # s
  <2>1. run'[r].name = n
    BY <1>3, Begun DEF Began
  <2>2. n < m
    BY <1>2, <2>1
  <2>3. r # s
    BY <1>0, <2>2 DEF Names
  <2>4. QED
    BY <2>1, <2>2, <2>3
<1>5. run[r].pc = "done" /\ n # m
  <2>1. InTurn(r, s)
    BY <1>4 DEF TInv
  <2>2. n # m
    BY <1>0, <1>4 DEF Names
  <2>3. QED
    BY <1>2, <1>3, <1>4, <2>1, <2>2 DEF InTurn
<1>6. CASE PullBegin(s)
  <2>1. Written(m, Torn)
    BY <1>6 DEF PullBegin
  <2>2. n \in Files' => n \in Files /\ newer'[n] = newer[n] \cup {m}
    <3>1. /\ Files' = Files \cup {m}
          /\ \A x \in Names : newer'[x] = IF x \in Files \ {m} THEN newer[x] \cup {m} ELSE {}
      BY <1>0, <2>1, WrittenFiles DEF Contents
    <3>2. QED
      BY <1>0, <1>5, <3>1
  <2>3. QED
    BY <1>4, <2>2
<1>7. CASE Wrote(s)
  <2>1. Collided(n) \/ n \notin Files \/ newer[n] # {}
    BY <1>2, <1>3, <1>4, <1>7 DEF LaterIsNewer
  <2>2. CASE Collided(n)
    BY <1>4, <2>2, CollidedStays
  <2>3. CASE UNCHANGED archive
    <3>1. Collided(n) \/ n \notin Files' \/ newer'[n] # {}
      BY <2>1, <2>3 DEF archive, Files
    <3>2. QED
      BY <1>4, <2>2, <3>1
  <2>4. ASSUME NEW q \in Runs, NEW v \in Contents, Written(run[q].name, v), Pulls(q, v), run[q].name \in Names
        PROVE  Collided(n) \/ n \notin Files' \/ newer'[n] # {}
    <3>1. CASE run[q].name # n
      <4>1. /\ Files' = Files \cup {run[q].name}
            /\ \A x \in Names : newer'[x] = IF x \in Files \ {run[q].name}
                                            THEN newer[x] \cup {run[q].name} ELSE {}
        BY <1>0, <2>4, WrittenFiles
      <4>2. QED
        BY <1>0, <3>1, <4>1
    <3>2. CASE run[q].name = n
      <4>1. run[q].pc \in {"pull", "pulling"}
        BY <2>4, Writing
      <4>2. Collided(n)
        BY <1>5, <3>2, <4>1, Pair DEF Named
      <4>3. QED
        BY <4>2
    <3>3. QED
      BY <3>1, <3>2
  <2>5. ASSUME NEW q \in Runs, Without(Stale(q))
        PROVE  Collided(n) \/ n \notin Files' \/ newer'[n] # {}
    <3>1. CASE n \notin Files \/ n \in Stale(q)
      BY <1>0, <2>5, <3>1, LeftFiles
    <3>2. CASE n \in Names \ Stale(q) /\ newer[n] # {}
      <4>1. PICK x \in newer[n] : newer[x] = {}
        BY <1>0, <3>2, Newest
      <4>2. x \notin Stale(q)
        <5>1. Cardinality(newer[x]) = 0
          BY <4>1, FS_EmptySet
        <5>2. ~(0 >= Retain)
          BY ConstantsAssumption
        <5>3. QED
          BY <1>0, <5>1, <5>2, StaleAreOld
      <4>3. QED
        BY <1>0, <2>5, <3>2, <4>1, <4>2, LeftFiles
    <3>3. QED
      BY <1>0, <2>1, <3>1, <3>2
  <2>6. QED
    BY <1>4, <2>2, <2>3, <2>4, <2>5, ArchiveStep
<1>8. QED
  BY <1>1, <1>6, <1>7

-----------------------------------------------------------------------------
(* The newest whole file                                                   *)

\* What ArchiveKeepsWhole assumes: every pull worked, and no two runs share a name.
Good ==
    /\ \A r \in Runs : run[r].result \notin {"failed", "killed"}
    /\ \A n \in Names : ~Collided(n)

\* A whole file, of which only files still arriving are newer.
Whole(w) == local[w] \in Runs /\ \A m \in newer[w] : local[m] = Torn

Past(r) == run[r].pc \notin {"idle", "save", "pull", "pulling"}

WholeOK ==
    Good /\ Cardinality(Threads) <= Retain /\ (\E r \in Runs : Past(r)) => \E w \in Names : Whole(w)

WInv ==
    /\ \A n \in Names : TornOK(n)
    /\ \A r \in Runs : ArrivingOK(r)
    /\ \A r, s \in Runs : LaterIsNewer(r, s)
    /\ WholeOK

LEMMA GoodBefore ==
    ASSUME IInv, TInv, [Next]_vars, Good'
    PROVE  Good
<1>1. \A n \in Names : ~Collided(n)
  BY CollidedStays DEF Good, Collided, CollidedNext
<1>2. \A r \in Runs : run[r].result \notin {"failed", "killed"}
  BY TearingStays DEF Good, Tearing
<1>3. QED
  BY <1>1, <1>2 DEF Good

\* In a good state a torn file is one that arrives.
LEMMA TornArrives ==
    ASSUME Good, NEW n \in Names, TornOK(n), local[n] = Torn
    PROVE  \E q \in Runs : run[q].name = n /\ run[q].pc = "pulling"
BY DEF Good, TornOK, Tearing

\* The files that are newer than the newest whole one arrive in threads other than
\* the one that rotates: there are fewer of them than the archive has room for.
LEMMA RoomForWhole ==
    ASSUME IInv, TInv, AInv, WInv, Good, Cardinality(Threads) <= Retain,
           NEW r \in Runs, run[r].pc = "rotate", NEW w \in Names, Whole(w)
    PROVE  w \notin Stale(r)
<1> DEFINE Puller(m) == CHOOSE q \in Runs : run[q].name = m /\ run[q].pc = "pulling"
           Others == Threads \ {ThreadOf[r]}
           thread == [m \in newer[w] |-> ThreadOf[Puller(m)]]
<1>0. newer[w] \subseteq Names /\ IsFiniteSet(newer[w]) /\ Cardinality(newer[w]) \in Nat
  BY NewerCounts DEF AInv, Order
<1>1. ASSUME NEW m \in newer[w]
      PROVE  Puller(m) \in Runs /\ run[Puller(m)].name = m /\ run[Puller(m)].pc = "pulling"
  <2>1. \E q \in Runs : run[q].name = m /\ run[q].pc = "pulling"
    BY <1>0, TornArrives DEF WInv, Whole
  <2>2. QED
    BY <2>1
<1> HIDE DEF Puller
<1>2. ASSUME NEW q \in Runs, run[q].pc = "pulling"
      PROVE  ThreadOf[q] \in Others
  <2>1. q # r /\ InTurn(q, r)
    BY <1>2 DEF TInv
  <2>2. ThreadOf[q] # ThreadOf[r]
    BY <1>2, <2>1 DEF InTurn, Began
  <2>3. QED
    BY <2>2 DEF Threads
<1>3. ASSUME NEW q \in Runs, NEW s \in Runs, run[q].pc = "pulling", run[s].pc = "pulling", q # s
      PROVE  ThreadOf[q] # ThreadOf[s]
  BY <1>3 DEF TInv, InTurn, Began
<1>4. thread \in [newer[w] -> Others]
  BY <1>1, <1>2
<1>5. ASSUME NEW x \in newer[w], NEW y \in newer[w], x # y
      PROVE  thread[x] # thread[y]
  <2>1. Puller(x) # Puller(y)
    BY <1>1, <1>5
  <2>2. ThreadOf[Puller(x)] # ThreadOf[Puller(y)]
    BY <1>1, <1>3, <2>1
  <2>3. QED
    BY <2>2
<1>6. IsFiniteSet(Threads)
  <2> DEFINE f == [q \in Runs |-> ThreadOf[q]]
  <2>1. f \in [Runs -> Threads] /\ \A t \in Threads : \E q \in Runs : f[q] = t
    BY DEF Threads
  <2>2. f \in Surjection(Runs, Threads)
    BY <2>1, Zenon DEF Surjection
  <2>3. QED
    BY <2>2, ConstantsAssumption, FS_Surjection
<1>7. /\ IsFiniteSet(Others) /\ Cardinality(Others) \in Nat /\ Cardinality(Threads) \in Nat
      /\ Cardinality(Others) = Cardinality(Threads) - 1
  <2>1. ThreadOf[r] \in Threads
    BY DEF Threads
  <2>2. QED
    BY <1>6, <2>1, FS_RemoveElement, FS_CardinalityType
<1> HIDE DEF thread, Others
<1>8. ~(Cardinality(Others) < Cardinality(newer[w]))
  BY <1>0, <1>4, <1>5, <1>7, FS_PigeonHole
<1>9. Cardinality(newer[w]) < Retain
  BY <1>0, <1>7, <1>8, ConstantsAssumption
<1>10. QED
  BY <1>0, <1>9, StaleAreOld, ConstantsAssumption DEF AInv

\* A run gets past its pull by its end.
LEMMA PastBefore ==
    ASSUME IInv, [Next]_vars, Good', NEW s \in Runs, Past(s)'
    PROVE  Past(s) \/ (PullEnd(s) /\ run[s].name \in Files)
<1>0. run'[s].result \notin {"failed", "killed"} /\ run[s].name \in Names
  BY DEF Good, IInv, Types, Run
<1>1. CASE run'[s] = run[s]
  BY <1>1 DEF Past
<1>2. CASE Begin(s) \/ Save(s) \/ PullBegin(s) \/ PullFails(s)
  BY <1>0, <1>2, Beginning, Stages DEF Past
<1>3. CASE PullEnd(s)
  BY <1>0, <1>3, Stages DEF Files
<1>4. CASE Cleanup(s) \/ Hash(s) \/ List(s) \/ Rotate(s)
  BY <1>4, Stages DEF Past
<1>5. CASE GiveUp(s) \/ Uploaded(s) \/ \E k \in Calls : Upload(s, k) \/ Retry(s, k)
  BY <1>5, Stages DEF Past
<1>6. CASE Crash /\ run[s].pc \notin {"idle", "done"}
  BY <1>0, <1>6, Killed
<1>7. QED
  BY <1>1, <1>2, <1>3, <1>4, <1>5, <1>6, Progress DEF RunSteps

\* In a good state no pull goes over a whole file.
LEMMA NoOverwrite ==
    ASSUME IInv, AInv, WInv, Good, NEW r \in Runs, run[r].pc \in {"pull", "pulling"},
           NEW w \in Names, local[w] \in Runs
    PROVE  run[r].name # w
<1>1. CASE run[r].pc = "pulling"
  BY <1>1, ContentsExist, ConstantsAssumption DEF WInv, ArrivingOK, Good
<1>2. CASE run[r].pc = "pull"
  <2>1. w \in Files
    BY ConstantsAssumption DEF Files
  <2>2. PICK q \in Runs : run[q].name = w /\ Opened(q)
    BY <2>1 DEF AInv, FileOK
  <2>3. ASSUME run[r].name = w
        PROVE  FALSE
    <3>1. r # q /\ Named(r, w) /\ Named(q, w)
      BY <1>2, <2>2, <2>3 DEF Opened, Named
    <3>2. Collided(w)
      BY <2>2, <3>1, Pair
    <3>3. QED
      BY <3>2 DEF Good
  <2>4. QED
    BY <2>3
<1>3. QED
  BY <1>1, <1>2

\* The file written last is the newest, and newer than every other file.
LEMMA NowNewest ==
    ASSUME local \in [Names -> Contents \cup {NoRun}], NEW n \in Names, NEW v \in Contents, Written(n, v)
    PROVE  local'[n] = v /\ newer'[n] = {} /\ \A m \in Files \ {n} : newer'[m] = newer[m] \cup {n}
<1>1. local'[n] = v /\ newer'[n] = {}
  BY WrittenFiles
<1>2. \A m \in Files \ {n} : newer'[m] = newer[m] \cup {n}
  BY WrittenFiles DEF Files
<1>3. QED
  BY <1>1, <1>2

LEMMA WholeStep ==
    ASSUME IInv, TInv, AInv, WInv, [Next]_vars
    PROVE  WholeOK'
<1> SUFFICES ASSUME Good', Cardinality(Threads) <= Retain, NEW s \in Runs, Past(s)'
             PROVE  \E w \in Names : Whole(w)'
  BY DEF WholeOK, Threads
<1>0. /\ local \in [Names -> Contents \cup {NoRun}] /\ Order /\ Good
      /\ \A r \in Runs : run[r].name \in Names
  BY GoodBefore DEF IInv, Types, Run, AInv
<1>1. ASSUME NEW r \in Runs, PullEnd(r), run[r].name \in Files
      PROVE  \E w \in Names : Whole(w)'
  <2> DEFINE n == run[r].name
  <2>1. PICK v \in {run[r].sha} \cup (IF \E q \in Runs \ {r} : run[q].pc = "pulling" /\ run[q].name = n
                                      THEN {Torn} ELSE {}) : Written(n, v)
    BY <1>1, Zenon DEF PullEnd
  <2>2. run[r].pc = "pulling" /\ run[r].sha \in Runs
    BY <1>1 DEF PullEnd, IInv, RunOK
  <2>3. ~\E q \in Runs \ {r} : run[q].pc = "pulling" /\ run[q].name = n
    BY <1>0, <2>2, Pair DEF Named, Good
  <2>4. v \in Runs
    BY <2>1, <2>2, <2>3
  <2>5. local'[n] = v /\ newer'[n] = {}
    BY <1>0, <2>1, <2>4, NowNewest DEF Contents
  <2>6. PICK w \in Names : w = n
    BY <1>0
  <2>7. Whole(w)'
    BY <2>4, <2>5, <2>6 DEF Whole
  <2>8. QED
    BY <2>7
<1>2. CASE ~\E r \in Runs : PullEnd(r) /\ run[r].name \in Files
  <2>1. Past(s)
    BY <1>2, PastBefore
  <2>2. PICK w \in Names : Whole(w)
    BY <1>0, <2>1 DEF WInv, WholeOK
  <2>3. newer[w] \subseteq Names
    BY <1>0 DEF Order
  <2>4. CASE UNCHANGED archive
    BY <2>2, <2>4 DEF archive, Whole
  <2>5. ASSUME NEW r \in Runs, NEW v \in Contents, Written(run[r].name, v), Pulls(r, v), run[r].name \in Names
        PROVE  Whole(w)'
    <3>1. v = Torn
      BY <1>2, <2>5, Writing DEF Pulls
    <3>2. run[r].name # w
      BY <1>0, <2>2, <2>5, Writing, NoOverwrite DEF Whole
    <3>3. w \in Files
      BY <2>2, ConstantsAssumption DEF Whole, Files
    <3>4. /\ local'[run[r].name] = v /\ \A m \in Names \ {run[r].name} : local'[m] = local[m]
          /\ newer'[w] = newer[w] \cup {run[r].name}
      <4>1. local'[run[r].name] = v /\ \A m \in Names \ {run[r].name} : local'[m] = local[m]
        BY <1>0, <2>5, WrittenFiles
      <4>2. newer'[w] = newer[w] \cup {run[r].name}
        BY <1>0, <2>5, <3>2, <3>3, NowNewest
      <4>3. QED
        BY <4>1, <4>2
    <3>5. QED
      BY <2>2, <2>3, <3>1, <3>2, <3>4 DEF Whole
  <2>6. ASSUME NEW r \in Runs, Rotate(r), Without(Stale(r))
        PROVE  Whole(w)'
    <3>1. run[r].pc = "rotate"
      BY <2>6 DEF Rotate
    <3>2. w \notin Stale(r)
      BY <1>0, <2>2, <3>1, RoomForWhole
    <3>3. /\ newer'[w] = newer[w] \ Stale(r) /\ local'[w] = local[w]
          /\ \A m \in newer[w] \ Stale(r) : local'[m] = local[m]
      BY <1>0, <2>3, <2>6, <3>2, LeftFiles
    <3>4. QED
      BY <2>2, <3>3 DEF Whole
  <2>7. QED
    BY <2>4, <2>5, <2>6, ArchiveStep
<1>3. QED
  BY <1>1, <1>2

LEMMA WInvStep == IInv /\ TInv /\ AInv /\ WInv /\ [Next]_vars => WInv'
<1> SUFFICES ASSUME IInv, TInv, AInv, WInv, [Next]_vars
             PROVE  WInv'
  OBVIOUS
<1>1. ASSUME NEW n \in Names
      PROVE  TornOK(n)'
  <2>1. local'[n] = Torn => CollidedNext(n) \/ \E r \in Runs : run'[r].name = n /\ Tearing(r)'
    BY TornStep DEF WInv
  <2>2. QED
    BY <2>1 DEF TornOK, Collided, CollidedNext
<1>2. ASSUME NEW r \in Runs
      PROVE  ArrivingOK(r)'
  <2>1. run'[r].pc = "pulling" => CollidedNext(run'[r].name) \/ local'[run'[r].name] \in {Torn, NoRun}
    BY ArrivingStep DEF WInv
  <2>2. QED
    BY <2>1 DEF ArrivingOK, Collided, CollidedNext
<1>3. \A r, s \in Runs : LaterIsNewer(r, s)'
  BY LaterStep DEF WInv
<1>4. WholeOK'
  BY WholeStep
<1>5. WInv' <=> /\ \A n \in Names : TornOK(n)'
                /\ \A r \in Runs : ArrivingOK(r)'
                /\ \A r, s \in Runs : LaterIsNewer(r, s)'
                /\ WholeOK'
  BY DEF WInv
<1>6. QED
  BY <1>1, <1>2, <1>3, <1>4, <1>5

LEMMA WInvInit == Init => WInv
<1> SUFFICES ASSUME Init
             PROVE  WInv
  OBVIOUS
<1>1. \A r \in Runs : run[r].pc = "idle"
  BY DEF Init, IdleRun
<1>2. \A n \in Names : TornOK(n)
  BY ContentsExist DEF Init, TornOK
<1>3. QED
  BY <1>1, <1>2 DEF WInv, ArrivingOK, LaterIsNewer, Began, WholeOK, Past

LEMMA TearingInvariance == Spec => []WInv
<1>1. Init => WInv
  BY WInvInit
<1>2. WInv /\ IInv /\ (TInv /\ AInv) /\ [Next]_vars => WInv'
  BY WInvStep
<1>3. QED
  BY <1>1, <1>2, Invariance, ArchiveInvariance, PTL DEF Spec

\* What an update takes for its recent backup is whole, unless its pull goes on, or
\* broke off and the same thread has not made a newer backup since.
THEOREM GateFindsWhole == Spec => []GateSeesWhole
<1>1. TInv /\ WInv => GateSeesWhole
  <2> SUFFICES ASSUME TInv, WInv, NEW n \in Names, Recent(n), local[n] = Torn, ~Collided(n)
               PROVE  \E r \in Runs :
                        /\ run[r].name = n
                        /\ \/ run[r].pc = "pulling"
                           \/ /\ run[r].result \in {"failed", "killed"}
                              /\ \A s \in Runs : ThreadOf[s] = ThreadOf[r] /\ run[s].name > n
                                    => run[s].result # "success"
    BY DEF GateSeesWhole
  <2>1. PICK r \in Runs : run[r].name = n /\ Tearing(r)
    BY DEF WInv, TornOK
  <2>2. ASSUME NEW s \in Runs, run[r].result \in {"failed", "killed"}, ThreadOf[s] = ThreadOf[r],
               run[s].name > n, run[s].result = "success"
        PROVE  FALSE
    <3>1. Began(r) /\ Began(s)
      BY <2>2 DEF TInv, Ended, Began
    <3>2. Wrote(s) /\ LaterIsNewer(r, s)
      BY <2>2 DEF Wrote, WInv
    <3>3. run[r].name < run[s].name
      BY <2>1, <2>2
    <3>4. QED
      BY <2>1, <2>2, <3>1, <3>2, <3>3 DEF LaterIsNewer, Recent
  <2>3. QED
    BY <2>1, <2>2 DEF Tearing
<1>2. QED
  BY <1>1, ArchiveInvariance, TearingInvariance, PTL

\* Rotation never takes the last whole file: while every pull so far worked, and the
\* archive has room for one file per thread, an archive that ever had a whole backup
\* has one, whatever arrives while a thread rotates.
THEOREM WholeBackupStays == Spec => []ArchiveKeepsWhole
<1>1. TInv /\ WInv => ArchiveKeepsWhole
  <2> SUFFICES ASSUME TInv, WInv, Cardinality(Threads) <= Retain,
                      \A r \in Runs : run[r].result \notin {"failed", "killed"} /\ ~Collided(run[r].name),
                      NEW s \in Runs, run[s].result = "success"
               PROVE  \E n \in Names : local[n] \in Runs
    BY DEF ArchiveKeepsWhole
  <2>1. ASSUME NEW n \in Names, Collided(n)
        PROVE  FALSE
    <3> DEFINE Sharing == {r \in Runs : run[r].pc # "idle" /\ run[r].name = n}
    <3>1. Cardinality(Sharing) > 1
      BY <2>1 DEF Collided
    <3>2. Sharing # {}
      BY <3>1, FS_EmptySet
    <3>3. QED
      BY <2>1, <3>2
  <2>2. Good
    BY <2>1 DEF Good
  <2>3. Past(s)
    BY DEF TInv, Ended, Past
  <2>4. QED
    BY <2>2, <2>3 DEF WInv, WholeOK, Whole
<1>2. QED
  BY <1>1, ArchiveInvariance, TearingInvariance, PTL
============================================================================
