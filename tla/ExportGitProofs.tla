-------------------------- MODULE ExportGitProofs --------------------------
(***************************************************************************)
(* Theorems about ExportGit, for every number of devices, threads,         *)
(* configurations, commits and faults.                                     *)
(***************************************************************************)
EXTENDS ExportGit, FiniteSetTheorems, SequenceTheorems, TLAPS

-----------------------------------------------------------------------------
(* The inductive invariant                                                 *)

Trees == [Devices -> Configs \cup {NoFile}]
Entries == [by : Devices, tree : Trees]
Early == {"idle", "captured", "write", "add", "commit"}

\* A run at each of its places: what it carries, and what its lock has kept as
\* it was since the step before.
Carrying(t) ==
    /\ thread[t].pc # "idle" => thread[t].text \in Configs /\ thread[t].dev \in Devices
    /\ thread[t].pc \in Early => thread[t].commit = 0
    /\ thread[t].pc \in {"rev-parse", "push", "pushing"} => thread[t].commit \in 1..Len(log)
    /\ thread[t].pc = "add" => disk[thread[t].dev] = thread[t].text
    /\ thread[t].pc = "commit" => index[thread[t].dev] = disk[thread[t].dev]
    /\ thread[t].pc = "pushing" => thread[t].base = remote

\* The outcome a run is about to report.
Honest(t) ==
    /\ thread[t].pc = "report" /\ thread[t].commit # 0
           => thread[t].result \in {"changed", "push failed"} \/ thread[t].commit \in lost
    /\ PushEnabled /\ thread[t].pc = "report" /\ thread[t].result = "changed"
           => thread[t].commit <= remote
    /\ faults = 0 => thread[t].result # "push failed"

\* Working tree, staging area and HEAD of a device agree, except in the middle of
\* its own staging or after one that failed half way.
Tidy(d) ==
    /\ disk[d] # index[d] => d \in broken \/ \E t \in Threads : thread[t].pc = "add" /\ thread[t].dev = d
    /\ index[d] # Committed(d)
           => d \in broken \/ \E t \in Threads : thread[t].pc = "commit" /\ thread[t].dev = d

\* The runs that may still commit have room to.
Pending == {t \in Threads : thread[t].pc \in Early \ {"idle"}}
Room == Len(log) + Cardinality(Pending) <= MaxLog

\* WarningIsMirrored, also of the commits to come.
Mirrored == PushEnabled => \A n \in Commits : posted[n] = "warning" => n <= remote

IInv ==
    /\ TypeOK
    /\ \A t \in Threads : Carrying(t)
    /\ \A t \in Threads : Honest(t)
    /\ \A d \in Devices : Tidy(d)
    /\ Room
    /\ DriftIsPosted
    /\ Mirrored

-----------------------------------------------------------------------------
(* Sequences of commits, and locks                                         *)

LEMMA LogFacts ==
    ASSUME TypeOK
    PROVE  /\ log \in Seq(Entries) /\ Len(log) \in Nat
           /\ log # <<>> => Len(log) \in 1..Len(log) /\ log[Len(log)] \in Entries
           /\ \A d \in Devices : Committed(d) \in Configs \cup {NoFile}
<1>1. log \in Seq(Entries)
  BY DEF TypeOK, Entries, Trees
<1>2. Len(log) \in Nat
  BY <1>1, LenProperties
<1>3. log # <<>> => Len(log) \in 1..Len(log) /\ log[Len(log)] \in Entries
  BY <1>1, <1>2, LenProperties, ElementOfSeq, EmptySeq
<1>4. \A d \in Devices : Committed(d) \in Configs \cup {NoFile}
  BY <1>3 DEF Committed, Entries, Trees
<1>5. QED
  BY <1>1, <1>2, <1>3, <1>4

\* A new commit is the head.
LEMMA Committing ==
    ASSUME TypeOK, NEW e \in Entries, log' = Append(log, e)
    PROVE  /\ log' \in Seq(Entries) /\ Len(log') = Len(log) + 1 /\ log' # <<>>
           /\ log'[Len(log')] = e
           /\ \A d \in Devices : Committed(d)' = e.tree[d]
<1>1. log \in Seq(Entries) /\ Len(log) \in Nat
  BY LogFacts
<1>2. /\ log' \in Seq(Entries) /\ Len(log') = Len(log) + 1
      /\ log'[Len(log) + 1] = e
  BY <1>1, AppendProperties
<1>3. log' # <<>>
  BY <1>1, <1>2, EmptySeq
<1>4. QED
  BY <1>2, <1>3 DEF Committed

\* One thread stages, one thread pushes.
LEMMA Exclusive ==
    ASSUME TypeOK, NEW t \in Threads, NEW u \in Threads
    PROVE  /\ Staging(t) /\ Staging(u) => t = u
           /\ thread[t].pc = "pushing" /\ thread[u].pc = "pushing" => t = u
           /\ commitLock = NoThread => ~Staging(t)
           /\ pushLock = NoThread => thread[t].pc # "pushing"
BY ConstantsAssumption DEF TypeOK

LEMMA PendingFinite ==
    ASSUME TypeOK
    PROVE  /\ IsFiniteSet(Pending) /\ Cardinality(Pending) \in Nat
           /\ Pending \subseteq {t \in Threads : thread[t].pc # "idle"}
           /\ Cardinality(Pending) <= Cardinality({t \in Threads : thread[t].pc # "idle"})
           /\ Cardinality({t \in Threads : thread[t].pc # "idle"}) \in Nat
<1> DEFINE Busy == {t \in Threads : thread[t].pc # "idle"}
<1>1. IsFiniteSet(Busy)
  BY ConstantsAssumption, FS_Subset
<1>2. Pending \subseteq Busy
  BY DEF Pending, Early
<1>3. QED
  BY <1>1, <1>2, FS_Subset, FS_CardinalityType

\* A run that may commit finds room.
LEMMA RoomToCommit ==
    ASSUME TypeOK, Room, NEW t \in Threads, thread[t].pc = "commit"
    PROVE  Len(log) + 1 \in 0..MaxLog
<1>1. t \in Pending
  BY DEF Pending, Early
<1>2. Cardinality(Pending) # 0
  BY <1>1, PendingFinite, FS_EmptySet
<1>3. QED
  BY <1>2, PendingFinite, LogFacts, ConstantsAssumption DEF Room

LEMMA IInvInit == Init => IInv
<1> SUFFICES ASSUME Init
             PROVE  IInv
  OBVIOUS
<1>0. log = <<>> /\ Len(log) = 0 /\ thread = [t \in Threads |-> Idle]
  BY DEF Init
<1>1. TypeOK
  <2>1. log \in Seq(Entries)
    BY <1>0
  <2>2. \A t \in Threads : thread[t] = Idle /\ ~Staging(t) /\ thread[t].pc = "idle"
    BY <1>0 DEF Idle, Staging
  <2>3. thread \in [Threads -> Thread]
    BY <1>0, ConstantsAssumption DEF Idle, Thread, Results
  <2>4. QED
    BY <1>0, <2>1, <2>2, <2>3, ConstantsAssumption DEF Init, TypeOK, Entries, Trees, Files, Commits
<1>2. \A t \in Threads : Carrying(t) /\ Honest(t)
  BY <1>0 DEF Carrying, Honest, Idle, Early
<1>3. \A d \in Devices : Tidy(d)
  BY <1>0 DEF Init, Tidy, Committed
<1>4. Room
  <2>1. Pending = {}
    BY <1>0 DEF Pending, Idle, Early
  <2>2. QED
    BY <1>0, <2>1, FS_EmptySet, ConstantsAssumption DEF Room
<1>5. DriftIsPosted /\ Mirrored
  BY <1>0 DEF Init, DriftIsPosted, Mirrored
<1>6. QED
  BY <1>1, <1>2, <1>3, <1>4, <1>5 DEF IInv

-----------------------------------------------------------------------------
(* Types                                                                   *)

ThreadTypes ==
    /\ thread \in [Threads -> Thread]
    /\ \A t \in Threads : thread[t].pc # "idle" => thread[t].dev \in Serves[t]
    /\ \A t \in Threads : commitLock = t <=> Staging(t)
    /\ \A t \in Threads : pushLock = t <=> thread[t].pc = "pushing"
    /\ commitLock \in Threads \cup {NoThread}
    /\ pushLock \in Threads \cup {NoThread}

RepoTypes ==
    /\ router \in [Devices -> Configs]
    /\ disk \in [Devices -> Files]
    /\ index \in [Devices -> Configs \cup {NoFile}]
    /\ log \in Seq(Entries)
    /\ Len(log) <= MaxLog
    /\ remote \in 0..Len(log)

BookTypes ==
    /\ posted \in [Commits -> {"none", "warning", "failed"}]
    /\ lost \subseteq Commits
    /\ broken \subseteq Devices
    /\ changes \in 0..MaxChanges
    /\ faults \in 0..MaxFaults

LEMMA TypeParts ==
    /\ TypeOK <=> ThreadTypes /\ RepoTypes /\ BookTypes
    /\ TypeOK' <=> ThreadTypes' /\ RepoTypes' /\ BookTypes'
BY DEF TypeOK, ThreadTypes, RepoTypes, BookTypes, Entries, Trees

\* The locks thread t holds when it goes on as x; those of the others stay.
LocksFollow(t, x) ==
    /\ commitLock' \in Threads \cup {NoThread} /\ pushLock' \in Threads \cup {NoThread}
    /\ commitLock' = t <=> x.pc \in {"write", "add", "commit", "rev-parse"}
    /\ pushLock' = t <=> x.pc = "pushing"
    /\ \A u \in Threads \ {t} : (commitLock' = u <=> commitLock = u) /\ (pushLock' = u <=> pushLock = u)

\* Thread t goes on as x, and takes or leaves the locks as its place demands.
LEMMA OneMoves ==
    ASSUME ThreadTypes, NEW t \in Threads, NEW x \in Thread,
           thread' = [thread EXCEPT ![t] = x],
           x.pc # "idle" => x.dev \in Serves[t], LocksFollow(t, x)
    PROVE  ThreadTypes'
<1>1. thread' \in [Threads -> Thread] /\ thread'[t] = x
  BY DEF ThreadTypes
<1>2. \A u \in Threads \ {t} : thread'[u] = thread[u]
  BY DEF ThreadTypes
<1>3. ASSUME NEW u \in Threads
      PROVE  /\ thread'[u].pc # "idle" => thread'[u].dev \in Serves[u]
             /\ commitLock' = u <=> Staging(u)'
             /\ pushLock' = u <=> thread'[u].pc = "pushing"
  <2>1. CASE u = t
    BY <1>1, <2>1 DEF Staging, LocksFollow
  <2>2. CASE u # t
    BY <1>2, <2>2 DEF Staging, ThreadTypes, LocksFollow
  <2>3. QED
    BY <2>1, <2>2
<1>4. QED
  BY <1>1, <1>3 DEF ThreadTypes, LocksFollow

\* What every step does to the threads: at most one moves, to its new record,
\* or all are idle again.
LEMMA ThreadStep == IInv /\ [Next]_vars => ThreadTypes'
<1> SUFFICES ASSUME IInv, [Next]_vars
             PROVE  ThreadTypes'
  OBVIOUS
<1>0. ThreadTypes /\ RepoTypes /\ NoThread \notin Threads
  BY TypeParts, ConstantsAssumption DEF IInv
<1>i. Idle \in Thread /\ Idle.pc = "idle"
  BY ConstantsAssumption DEF Idle, Thread, Results
<1>r. \A result \in Results : \A t \in Threads :
        Staging(t) /\ Leave(t, result) /\ pushLock' = pushLock => ThreadTypes'
  <2> TAKE result \in Results
  <2> TAKE t \in Threads
  <2> HAVE Staging(t) /\ Leave(t, result) /\ pushLock' = pushLock
  <2> DEFINE x == [thread[t] EXCEPT !.pc = "report", !.result = result]
  <2>1. x \in Thread /\ x.pc = "report" /\ x.dev = thread[t].dev
    <3>1. thread[t] \in Thread
      BY <1>0 DEF ThreadTypes
    <3>2. x \in Thread
      BY <3>1 DEF Thread
    <3>3. x.pc = "report" /\ x.dev = thread[t].dev
      BY <3>1 DEF Thread
    <3>4. QED
      BY <3>2, <3>3
  <2>2. thread' = [thread EXCEPT ![t] = x] /\ commitLock' = NoThread /\ commitLock = t
    BY <1>0 DEF Leave, ThreadTypes
  <2>3. thread[t].pc \notin {"idle", "pushing"}
    BY DEF Staging
  <2> HIDE DEF x
  <2>4. LocksFollow(t, x)
    BY <1>0, <2>1, <2>2, <2>3 DEF LocksFollow, ThreadTypes, Staging
  <2>5. QED
    BY <1>0, <2>1, <2>2, <2>3, <2>4, OneMoves DEF ThreadTypes
<1>1. ASSUME NEW t \in Threads, NEW d \in Devices, Capture(t, d)
      PROVE  ThreadTypes'
  <2> DEFINE x == [Idle EXCEPT !.pc = "captured", !.dev = d, !.text = router[d]]
  <2>1. x \in Thread /\ x.pc = "captured" /\ x.dev = d
    <3>1. router[d] \in Configs
      BY <1>0 DEF RepoTypes
    <3>2. x \in Thread
      BY <1>i, <3>1 DEF Thread
    <3>3. x.pc = "captured" /\ x.dev = d
      BY <1>i DEF Thread
    <3>4. QED
      BY <3>2, <3>3
  <2>2. /\ thread' = [thread EXCEPT ![t] = x] /\ thread[t].pc = "idle" /\ d \in Serves[t]
        /\ UNCHANGED <<commitLock, pushLock>>
    BY <1>1, Zenon DEF Capture, locks
  <2> HIDE DEF x
  <2>3. LocksFollow(t, x)
    BY <1>0, <2>1, <2>2 DEF LocksFollow, ThreadTypes, Staging
  <2>4. QED
    BY <1>0, <2>1, <2>2, <2>3, OneMoves DEF ThreadTypes
<1>2. ASSUME NEW t \in Threads, Acquire(t)
      PROVE  ThreadTypes'
  <2> DEFINE x == [thread[t] EXCEPT !.pc = "write"]
  <2>1. x \in Thread /\ x.pc = "write" /\ x.dev = thread[t].dev
    <3>1. thread[t] \in Thread
      BY <1>0 DEF ThreadTypes
    <3>2. x \in Thread
      BY <3>1 DEF Thread
    <3>3. x.pc = "write" /\ x.dev = thread[t].dev
      BY <3>1 DEF Thread
    <3>4. QED
      BY <3>2, <3>3
  <2>2. /\ thread' = [thread EXCEPT ![t] = x] /\ thread[t].pc = "captured"
        /\ commitLock = NoThread /\ commitLock' = t /\ pushLock' = pushLock
    BY <1>2 DEF Acquire
  <2> HIDE DEF x
  <2>3. LocksFollow(t, x)
    BY <1>0, <2>1, <2>2 DEF LocksFollow, ThreadTypes, Staging
  <2>4. QED
    BY <1>0, <2>1, <2>2, <2>3, OneMoves DEF ThreadTypes
<1>3. ASSUME NEW t \in Threads, SameOnDisk(t) \/ NothingStaged(t) \/ StagingFails(t) \/ RevParseFails(t)
      PROVE  ThreadTypes'
  <2>1. Staging(t) /\ pushLock' = pushLock /\ \E result \in {"no change", "error"} : Leave(t, result)
    BY <1>3 DEF SameOnDisk, NothingStaged, StagingFails, RevParseFails, Staging
  <2>2. QED
    BY <1>r, <2>1 DEF Results
<1>4. ASSUME NEW t \in Threads, Write(t) \/ Add(t)
      PROVE  ThreadTypes'
  <2>1. PICK p \in {"add", "commit"} :
          /\ thread' = [thread EXCEPT ![t] = [thread[t] EXCEPT !.pc = p]]
          /\ thread[t].pc \in {"write", "add"} /\ UNCHANGED <<commitLock, pushLock>>
    BY <1>4 DEF Write, Add, locks
  <2> DEFINE x == [thread[t] EXCEPT !.pc = p]
  <2>2. x \in Thread /\ x.pc = p /\ x.dev = thread[t].dev
    <3>1. thread[t] \in Thread
      BY <1>0 DEF ThreadTypes
    <3>2. x \in Thread
      BY <3>1 DEF Thread
    <3>3. x.pc = p /\ x.dev = thread[t].dev
      BY <3>1 DEF Thread
    <3>4. QED
      BY <3>2, <3>3
  <2>3. thread' = [thread EXCEPT ![t] = x]
    BY <2>1
  <2> HIDE DEF x
  <2>4. LocksFollow(t, x)
    BY <1>0, <2>1, <2>2, <2>3 DEF LocksFollow, ThreadTypes, Staging
  <2>5. QED
    BY <1>0, <2>1, <2>2, <2>3, <2>4, OneMoves DEF ThreadTypes
<1>5. ASSUME NEW t \in Threads, Commit(t)
      PROVE  ThreadTypes'
  <2> DEFINE x == [thread[t] EXCEPT !.pc = "rev-parse", !.commit = Len(log) + 1]
  <2>1. thread[t].pc = "commit" /\ UNCHANGED <<commitLock, pushLock>> /\ thread' = [thread EXCEPT ![t] = x]
    BY <1>5 DEF Commit, locks
  <2>2. Len(log) + 1 \in 0..MaxLog
    BY <2>1, RoomToCommit DEF IInv
  <2>3. x \in Thread /\ x.pc = "rev-parse" /\ x.dev = thread[t].dev
    <3>1. thread[t] \in Thread
      BY <1>0 DEF ThreadTypes
    <3>2. x \in Thread
      BY <3>1, <2>2 DEF Thread
    <3>3. x.pc = "rev-parse" /\ x.dev = thread[t].dev
      BY <3>1, <2>2 DEF Thread
    <3>4. QED
      BY <3>2, <3>3
  <2> HIDE DEF x
  <2>4. LocksFollow(t, x)
    BY <1>0, <2>1, <2>3 DEF LocksFollow, ThreadTypes, Staging
  <2>5. QED
    BY <1>0, <2>1, <2>3, <2>4, OneMoves DEF ThreadTypes
<1>6. ASSUME NEW t \in Threads, CommitDone(t)
      PROVE  ThreadTypes'
  <2>1. thread[t].pc = "rev-parse" /\ pushLock' = pushLock
    BY <1>6 DEF CommitDone
  <2>2. CASE PushEnabled
    <3> DEFINE x == [thread[t] EXCEPT !.pc = "push"]
    <3>1. x \in Thread /\ x.pc = "push" /\ x.dev = thread[t].dev
      <4>1. thread[t] \in Thread
        BY <1>0 DEF ThreadTypes
      <4>2. x \in Thread
        BY <4>1 DEF Thread
      <4>3. x.pc = "push" /\ x.dev = thread[t].dev
        BY <4>1 DEF Thread
      <4>4. QED
        BY <4>2, <4>3
    <3>2. thread' = [thread EXCEPT ![t] = x] /\ commitLock' = NoThread
      BY <1>6, <2>2 DEF CommitDone
    <3> HIDE DEF x
    <3>3. LocksFollow(t, x)
      BY <1>0, <2>1, <3>1, <3>2 DEF LocksFollow, ThreadTypes, Staging
    <3>4. QED
      BY <1>0, <2>1, <3>1, <3>2, <3>3, OneMoves DEF ThreadTypes
  <2>3. CASE ~PushEnabled
    BY <1>6, <1>r, <2>1, <2>3 DEF CommitDone, Staging, Results
  <2>4. QED
    BY <2>2, <2>3
<1>7. ASSUME NEW t \in Threads, Push(t)
      PROVE  ThreadTypes'
  <2> DEFINE x == [thread[t] EXCEPT !.pc = "pushing", !.base = remote]
  <2>1. remote \in 0..MaxLog
    BY <1>0, LogFacts, ConstantsAssumption DEF RepoTypes, IInv
  <2>2. x \in Thread /\ x.pc = "pushing" /\ x.dev = thread[t].dev
    <3>1. thread[t] \in Thread
      BY <1>0 DEF ThreadTypes
    <3>2. x \in Thread
      BY <3>1, <2>1 DEF Thread
    <3>3. x.pc = "pushing" /\ x.dev = thread[t].dev
      BY <3>1, <2>1 DEF Thread
    <3>4. QED
      BY <3>2, <3>3
  <2>3. /\ thread' = [thread EXCEPT ![t] = x] /\ thread[t].pc = "push"
        /\ pushLock = NoThread /\ pushLock' = t /\ commitLock' = commitLock
    BY <1>7 DEF Push
  <2> HIDE DEF x
  <2>4. LocksFollow(t, x)
    BY <1>0, <2>2, <2>3 DEF LocksFollow, ThreadTypes, Staging
  <2>5. QED
    BY <1>0, <2>2, <2>3, <2>4, OneMoves DEF ThreadTypes
<1>8. ASSUME NEW t \in Threads, PushDone(t) \/ PushFails(t)
      PROVE  ThreadTypes'
  <2>1. PICK result \in Results :
          /\ thread' = [thread EXCEPT ![t] = [thread[t] EXCEPT !.pc = "report", !.result = result]]
          /\ thread[t].pc = "pushing" /\ pushLock' = NoThread /\ commitLock' = commitLock
    BY <1>8 DEF PushDone, PushFails, Results
  <2> DEFINE x == [thread[t] EXCEPT !.pc = "report", !.result = result]
  <2>2. x \in Thread /\ x.pc = "report" /\ x.dev = thread[t].dev
    <3>1. thread[t] \in Thread
      BY <1>0 DEF ThreadTypes
    <3>2. x \in Thread
      BY <3>1 DEF Thread
    <3>3. x.pc = "report" /\ x.dev = thread[t].dev
      BY <3>1 DEF Thread
    <3>4. QED
      BY <3>2, <3>3
  <2>3. thread' = [thread EXCEPT ![t] = x]
    BY <2>1
  <2> HIDE DEF x
  <2>4. LocksFollow(t, x)
    BY <1>0, <2>1, <2>2, <2>3 DEF LocksFollow, ThreadTypes, Staging
  <2>5. QED
    BY <1>0, <2>1, <2>2, <2>3, <2>4, OneMoves DEF ThreadTypes
<1>9. ASSUME NEW t \in Threads, Report(t) \/ PostFails(t)
      PROVE  ThreadTypes'
  <2>1. /\ thread' = [thread EXCEPT ![t] = Idle] /\ thread[t].pc = "report"
        /\ UNCHANGED <<commitLock, pushLock>>
    BY <1>9 DEF Report, PostFails, locks
  <2>2. LocksFollow(t, Idle)
    BY <1>0, <1>i, <2>1 DEF LocksFollow, ThreadTypes, Staging
  <2>3. QED
    BY <1>0, <1>i, <2>1, <2>2, OneMoves DEF ThreadTypes
<1>w. ASSUME NEW t \in Threads, WriteFails(t)
      PROVE  ThreadTypes'
  <2>1. /\ thread' = [thread EXCEPT ![t] = Idle] /\ thread[t].pc = "write"
        /\ commitLock' = NoThread /\ pushLock' = pushLock
    BY <1>w, Zenon DEF WriteFails
  <2>2. LocksFollow(t, Idle)
    BY <1>0, <1>i, <2>1 DEF LocksFollow, ThreadTypes, Staging
  <2>3. QED
    BY <1>0, <1>i, <2>1, <2>2, OneMoves DEF ThreadTypes
<1>10. CASE Crash
  BY <1>0, <1>i, <1>10 DEF Crash, ThreadTypes, Staging
<1>11. CASE (\E d \in Devices, v \in Configs : Reconfigure(d, v)) \/ UNCHANGED vars
  <2>1. UNCHANGED <<thread, commitLock, pushLock>>
    BY <1>11, Zenon DEF Reconfigure, locks, vars
  <2>2. QED
    BY <1>0, <2>1 DEF ThreadTypes, Staging
<1>12. QED
  BY <1>1, <1>2, <1>3, <1>4, <1>5, <1>6, <1>7, <1>8, <1>9, <1>10, <1>11, <1>w, Zenon DEF Next, Run, GoWrong

-----------------------------------------------------------------------------
(* What a step does to the run that takes it                               *)

\* Run t is now at p with this commit, base and result; the others stand still.
Goes(t, p, commit, base, result) ==
    /\ thread'[t].pc = p /\ thread'[t].commit = commit
    /\ thread'[t].base = base /\ thread'[t].result = result
    /\ thread'[t].dev = thread[t].dev /\ thread'[t].text = thread[t].text
    /\ \A u \in Threads \ {t} : thread'[u] = thread[u]

LEMMA Going ==
    ASSUME TypeOK, NEW t \in Threads
    PROVE  LET r == thread[t] IN
           /\ Acquire(t) => Goes(t, "write", r.commit, r.base, r.result)
           /\ SameOnDisk(t) => Goes(t, "report", r.commit, r.base, "no change")
           /\ Write(t) => Goes(t, "add", r.commit, r.base, r.result)
           /\ Add(t) => Goes(t, "commit", r.commit, r.base, r.result)
           /\ NothingStaged(t) => Goes(t, "report", r.commit, r.base, "no change")
           /\ Commit(t) => Goes(t, "rev-parse", Len(log) + 1, r.base, r.result)
           /\ CommitDone(t) => IF PushEnabled
                THEN Goes(t, "push", r.commit, r.base, r.result)
                ELSE Goes(t, "report", r.commit, r.base, "changed")
           /\ Push(t) => Goes(t, "pushing", r.commit, remote, r.result)
           /\ PushDone(t) => Goes(t, "report", r.commit, r.base,
                                  IF r.base = remote THEN "changed" ELSE "push failed")
           /\ StagingFails(t) => \E result \in {"error", "no change"} :
                                   Goes(t, "report", r.commit, r.base, result)
           /\ RevParseFails(t) => Goes(t, "report", r.commit, r.base, "error")
           /\ PushFails(t) => Goes(t, "report", r.commit, r.base, "push failed")
<1>0. thread \in [Threads -> Thread] /\ thread[t] \in Thread
  BY DEF TypeOK
<1>r. ASSUME NEW result,
             thread' = [thread EXCEPT ![t].pc = "report", ![t].result = result]
      PROVE  Goes(t, "report", thread[t].commit, thread[t].base, result)
  <2>1. thread'[t] = [thread[t] EXCEPT !.pc = "report", !.result = result]
    BY <1>0, <1>r
  <2>2. \A u \in Threads \ {t} : thread'[u] = thread[u]
    BY <1>0, <1>r
  <2>3. /\ thread'[t].pc = "report" /\ thread'[t].result = result
        /\ thread'[t].commit = thread[t].commit /\ thread'[t].base = thread[t].base
        /\ thread'[t].dev = thread[t].dev /\ thread'[t].text = thread[t].text
    BY <1>0, <2>1 DEF Thread
  <2>4. QED
    BY <2>2, <2>3 DEF Goes
<1>1. Acquire(t) => Goes(t, "write", thread[t].commit, thread[t].base, thread[t].result)
  BY <1>0 DEF Acquire, Goes, Thread
<1>2. SameOnDisk(t) => Goes(t, "report", thread[t].commit, thread[t].base, "no change")
  BY <1>r, Zenon DEF SameOnDisk, Leave
<1>3. Write(t) => Goes(t, "add", thread[t].commit, thread[t].base, thread[t].result)
  BY <1>0 DEF Write, Goes, Thread
<1>4. Add(t) => Goes(t, "commit", thread[t].commit, thread[t].base, thread[t].result)
  BY <1>0 DEF Add, Goes, Thread
<1>5. NothingStaged(t) => Goes(t, "report", thread[t].commit, thread[t].base, "no change")
  BY <1>r, Zenon DEF NothingStaged, Leave
<1>6. Commit(t) => Goes(t, "rev-parse", Len(log) + 1, thread[t].base, thread[t].result)
  BY <1>0 DEF Commit, Goes, Thread
<1>7. CommitDone(t) => IF PushEnabled
        THEN Goes(t, "push", thread[t].commit, thread[t].base, thread[t].result)
        ELSE Goes(t, "report", thread[t].commit, thread[t].base, "changed")
  BY <1>0 DEF CommitDone, Leave, Goes, Thread
<1>8. Push(t) => Goes(t, "pushing", thread[t].commit, remote, thread[t].result)
  BY <1>0 DEF Push, Goes, Thread
<1>9. PushDone(t) => Goes(t, "report", thread[t].commit, thread[t].base,
                          IF thread[t].base = remote THEN "changed" ELSE "push failed")
  BY <1>r, Zenon DEF PushDone
<1>10. StagingFails(t) => \E result \in {"error", "no change"} :
                            Goes(t, "report", thread[t].commit, thread[t].base, result)
  BY <1>r, Zenon DEF StagingFails, Leave
<1>11. RevParseFails(t) => Goes(t, "report", thread[t].commit, thread[t].base, "error")
  BY <1>r, Zenon DEF RevParseFails, Leave
<1>12. PushFails(t) => Goes(t, "report", thread[t].commit, thread[t].base, "push failed")
  BY <1>r, Zenon DEF PushFails
<1>13. QED
  BY <1>1, <1>2, <1>3, <1>4, <1>5, <1>6, <1>7, <1>8, <1>9, <1>10, <1>11, <1>12

\* A run starts, or is over.
LEMMA Starting ==
    ASSUME TypeOK, NEW t \in Threads
    PROVE  /\ \A d \in Devices : Capture(t, d) =>
                /\ thread'[t].pc = "captured" /\ thread'[t].dev = d
                /\ thread'[t].text = router[d] /\ thread'[t].commit = 0
                /\ thread'[t].result = "error"
                /\ \A u \in Threads \ {t} : thread'[u] = thread[u]
           /\ Report(t) \/ PostFails(t) \/ WriteFails(t) =>
                /\ thread'[t] = Idle
                /\ \A u \in Threads \ {t} : thread'[u] = thread[u]
           /\ Crash => \A u \in Threads : thread'[u] = Idle
<1>1. thread \in [Threads -> Thread]
  BY DEF TypeOK
<1>2. Crash => \A u \in Threads : thread'[u] = Idle
  BY DEF Crash
<1>3. Report(t) \/ PostFails(t) \/ WriteFails(t) =>
        /\ thread'[t] = Idle
        /\ \A u \in Threads \ {t} : thread'[u] = thread[u]
  BY <1>1, Zenon DEF Report, PostFails, WriteFails
<1>4. \A d \in Devices : Capture(t, d) =>
        /\ thread'[t] = [Idle EXCEPT !.pc = "captured", !.dev = d, !.text = router[d]]
        /\ \A u \in Threads \ {t} : thread'[u] = thread[u]
  BY <1>1 DEF Capture
<1>5. Idle \in [pc : {"idle"}, dev : {NoDevice}, text : {NoFile}, commit : {0}, base : {0},
                 result : {"error"}]
  BY DEF Idle
<1>6. ASSUME NEW d \in Devices, Capture(t, d)
      PROVE  /\ thread'[t].pc = "captured" /\ thread'[t].dev = d
             /\ thread'[t].text = router[d] /\ thread'[t].commit = 0
             /\ thread'[t].result = "error"
             /\ \A u \in Threads \ {t} : thread'[u] = thread[u]
  <2>1. thread'[t] = [Idle EXCEPT !.pc = "captured", !.dev = d, !.text = router[d]]
    BY <1>4, <1>6, Zenon
  <2>2. \A u \in Threads \ {t} : thread'[u] = thread[u]
    BY <1>4, <1>6, Zenon
  <2> DEFINE x == thread'[t]
  <2>3. x = [Idle EXCEPT !.pc = "captured", !.dev = d, !.text = router[d]]
    BY <2>1
  <2> HIDE DEF x
  <2>4. x.pc = "captured" /\ x.dev = d /\ x.text = router[d] /\ x.commit = 0 /\ x.result = "error"
    BY <1>5, <2>3
  <2>5. QED
    BY <2>2, <2>4, Zenon DEF x
<1>7. QED
  BY <1>2, <1>3, <1>6, Zenon

-----------------------------------------------------------------------------
(* What a step does to the repository and the books                        *)

\* A failing file operation leaves the files of the other devices alone, and its
\* own too unless the device is marked.
LEMMA WriteFailing ==
    ASSUME IInv, NEW t \in Threads, WriteFails(t)
    PROVE  /\ thread[t].pc = "write" /\ thread[t].dev \in Devices
           /\ disk' \in [Devices -> Files]
           /\ \A e \in Devices : e \notin broken' => disk'[e] = disk[e] /\ e \notin broken
           /\ broken' \subseteq broken \cup {thread[t].dev}
           /\ faults' = faults \/ (faults < MaxFaults /\ faults' = faults + 1)
           /\ UNCHANGED <<router, index, log, remote, pushLock, posted, lost, changes>>
<1>1. /\ disk \in [Devices -> Files] /\ thread[t].pc = "write"
      /\ thread[t].dev \in Devices /\ thread[t].text \in Configs
  BY DEF IInv, TypeOK, Carrying, WriteFails
<1>2. /\ faults' = faults \/ (faults < MaxFaults /\ faults' = faults + 1)
      /\ UNCHANGED <<router, index, log, remote, pushLock, posted, lost, changes>>
  BY Zenon DEF WriteFails, Fault
<1>3. CASE \E left \in {Torn, thread[t].text} :
             /\ disk' = [disk EXCEPT ![thread[t].dev] = left]
             /\ broken' = broken \cup {thread[t].dev}
  <2>1. PICK left \in Files : disk' = [disk EXCEPT ![thread[t].dev] = left]
    BY <1>1, <1>3 DEF Files
  <2>2. disk' \in [Devices -> Files] /\ \A e \in Devices : e # thread[t].dev => disk'[e] = disk[e]
    BY <1>1, <2>1
  <2>3. QED
    BY <1>1, <1>2, <1>3, <2>2
<1>4. CASE UNCHANGED <<disk, broken>>
  BY <1>1, <1>2, <1>4
<1>5. QED
  BY <1>3, <1>4, Zenon DEF WriteFails

LEMMA RepoStep == IInv /\ [Next]_vars => RepoTypes'
<1> SUFFICES ASSUME IInv, [Next]_vars
             PROVE  RepoTypes'
  OBVIOUS
<1>0. ThreadTypes /\ RepoTypes /\ TypeOK
  BY TypeParts DEF IInv
<1>1. ASSUME NEW d \in Devices, NEW v \in Configs, Reconfigure(d, v)
      PROVE  RepoTypes'
  BY <1>0, <1>1 DEF Reconfigure, RepoTypes, repo
<1>2. ASSUME NEW t \in Threads, Write(t)
      PROVE  RepoTypes'
  <2>1. thread[t].text \in Configs
    BY <1>2 DEF Write, IInv, Carrying
  <2>2. QED
    BY <1>0, <1>2, <2>1 DEF Write, RepoTypes, Files
<1>3. ASSUME NEW t \in Threads, Add(t)
      PROVE  RepoTypes'
  <2>1. disk[thread[t].dev] \in Configs
    BY <1>3 DEF Add, IInv, Carrying
  <2>2. QED
    BY <1>0, <1>3, <2>1 DEF Add, RepoTypes
<1>4. ASSUME NEW t \in Threads, Commit(t)
      PROVE  RepoTypes'
  <2>1. thread[t].dev \in Devices /\ thread[t].pc = "commit"
    BY <1>4 DEF Commit, IInv, Carrying
  <2>2. [by |-> thread[t].dev, tree |-> index] \in Entries
    BY <1>0, <2>1 DEF RepoTypes, Entries, Trees
  <2>3. log' = Append(log, [by |-> thread[t].dev, tree |-> index]) /\ UNCHANGED <<router, disk, index, remote>>
    BY <1>4 DEF Commit
  <2>4. log' \in Seq(Entries) /\ Len(log') = Len(log) + 1 /\ Len(log) \in Nat /\ Len(log) + 1 \in 0..MaxLog
    BY <1>0, <2>1, <2>2, <2>3, Committing, LogFacts, RoomToCommit DEF IInv
  <2>5. QED
    BY <1>0, <2>3, <2>4, ConstantsAssumption DEF RepoTypes
<1>5. ASSUME NEW t \in Threads, PushDone(t) \/ PushFails(t)
      PROVE  RepoTypes'
  <2>1. UNCHANGED <<router, disk, index, log>> /\ (remote' = remote \/ remote' \in thread[t].commit..Len(log))
    BY <1>5 DEF PushDone, PushFails, repo
  <2>2. thread[t].commit \in 1..Len(log) /\ Len(log) \in Nat
    BY <1>5, <1>0, LogFacts DEF PushDone, PushFails, IInv, Carrying
  <2>3. QED
    BY <1>0, <2>1, <2>2 DEF RepoTypes
<1>6. CASE Crash
  <2>1. UNCHANGED <<router, index, log, remote>> /\ disk' \in [Devices -> Files]
    BY <1>0, <1>6 DEF Crash, RepoTypes, Files
  <2>2. QED
    BY <1>0, <2>1 DEF RepoTypes
<1>7. ASSUME NEW t \in Threads,
             \/ (\E d \in Devices : Capture(t, d)) \/ Acquire(t) \/ SameOnDisk(t) \/ NothingStaged(t)
             \/ CommitDone(t) \/ Push(t) \/ Report(t) \/ StagingFails(t) \/ RevParseFails(t)
             \/ PostFails(t)
      PROVE  RepoTypes'
  <2>1. UNCHANGED <<router, disk, index, log, remote>>
    BY <1>7, Zenon DEF Capture, Acquire, SameOnDisk, NothingStaged, CommitDone, Push, Report,
       StagingFails, RevParseFails, PostFails, repo, vars
  <2>2. QED
    BY <1>0, <2>1 DEF RepoTypes
<1>w. ASSUME NEW t \in Threads, WriteFails(t)
      PROVE  RepoTypes'
  BY <1>0, <1>w, WriteFailing DEF RepoTypes
<1>8. CASE UNCHANGED vars
  BY <1>0, <1>8 DEF vars, RepoTypes
<1>9. QED
  BY <1>1, <1>2, <1>3, <1>4, <1>5, <1>6, <1>7, <1>8, <1>w, Zenon DEF Next, Run, GoWrong

LEMMA BookStep == IInv /\ [Next]_vars => BookTypes'
<1> SUFFICES ASSUME IInv, [Next]_vars
             PROVE  BookTypes'
  OBVIOUS
<1>0. /\ ThreadTypes /\ BookTypes /\ TypeOK /\ Len(log) \in Nat /\ Len(log) <= MaxLog
      /\ MaxFaults \in Nat /\ MaxChanges \in Nat /\ MaxLog \in Nat
  BY TypeParts, LogFacts, ConstantsAssumption DEF IInv, TypeOK
<1>c. \A t \in Threads : thread[t].commit \in 0..MaxLog
  BY <1>0 DEF ThreadTypes, Thread
<1>d. \A t \in Threads : thread[t].pc # "idle" => thread[t].dev \in Devices
  BY DEF IInv, Carrying
<1>1. ASSUME NEW d \in Devices, NEW v \in Configs, Reconfigure(d, v)
      PROVE  BookTypes'
  BY <1>0, <1>1 DEF Reconfigure, BookTypes, books
<1>2. ASSUME NEW t \in Threads, NothingStaged(t) \/ Commit(t)
      PROVE  BookTypes'
  BY <1>0, <1>2 DEF NothingStaged, Commit, BookTypes
<1>3. ASSUME NEW t \in Threads, Report(t)
      PROVE  BookTypes'
  BY <1>0, <1>3 DEF Report, BookTypes
<1>4. ASSUME NEW t \in Threads, StagingFails(t)
      PROVE  BookTypes'
  <2>1. /\ UNCHANGED <<posted, lost, changes>> /\ faults' = faults + 1 /\ faults < MaxFaults
        /\ broken' = broken \cup {thread[t].dev}
    BY <1>4, Zenon DEF StagingFails, Fault
  <2>2. thread[t].dev \in Devices
    BY <1>4, <1>d DEF StagingFails
  <2>3. QED
    BY <1>0, <2>1, <2>2 DEF BookTypes
<1>5. ASSUME NEW t \in Threads, RevParseFails(t)
      PROVE  BookTypes'
  <2>1. thread[t].commit \in Commits
    BY <1>0, <1>5 DEF RevParseFails, IInv, Carrying, Commits
  <2>2. QED
    BY <1>0, <1>5, <2>1 DEF RevParseFails, Fault, BookTypes
<1>6. ASSUME NEW t \in Threads, PushFails(t) \/ PostFails(t)
      PROVE  BookTypes'
  <2>1. UNCHANGED <<posted, broken, changes>> /\ faults' = faults + 1 /\ faults < MaxFaults
    BY <1>6, Zenon DEF PushFails, PostFails, Fault, books
  <2>2. lost' = lost \/ lost' = lost \cup ({thread[t].commit} \ {0})
    BY <1>6, Zenon DEF PushFails, PostFails, books
  <2>3. lost' \subseteq Commits
    <3>1. {thread[t].commit} \ {0} \subseteq Commits
      BY <1>0, <1>c DEF Commits
    <3>2. QED
      BY <1>0, <2>2, <3>1 DEF BookTypes
  <2>4. QED
    BY <1>0, <2>1, <2>3 DEF BookTypes
<1>7. CASE Crash
  <2>1. lost' \subseteq Commits
    <3>1. lost' = lost \cup ({thread[t].commit : t \in Threads} \ {0})
      BY <1>7, Zenon DEF Crash
    <3>2. {thread[t].commit : t \in Threads} \ {0} \subseteq Commits
      BY <1>0, <1>c DEF Commits
    <3>3. QED
      BY <1>0, <3>1, <3>2 DEF BookTypes
  <2>2. broken' \subseteq Devices
    <3>1. PICK torn \in SUBSET {thread[t].dev : t \in {u \in Threads : thread[u].pc = "write"}} :
            broken' = broken \cup torn \cup {thread[t].dev :
                          t \in {u \in Threads : thread[u].pc \in {"add", "commit"}}}
      BY <1>7, Zenon DEF Crash
    <3>2. \A t \in Threads : thread[t].pc \in {"write", "add", "commit"} => thread[t].dev \in Devices
      BY <1>d
    <3>3. QED
      BY <1>0, <3>1, <3>2 DEF BookTypes
  <2>3. QED
    BY <1>0, <1>7, <2>1, <2>2 DEF Crash, Fault, BookTypes
<1>8. ASSUME NEW t \in Threads,
             \/ (\E d \in Devices : Capture(t, d)) \/ Acquire(t) \/ SameOnDisk(t) \/ Write(t) \/ Add(t)
             \/ CommitDone(t) \/ Push(t) \/ PushDone(t)
      PROVE  BookTypes'
  <2>1. UNCHANGED <<posted, lost, broken, changes, faults>>
    BY <1>8, Zenon DEF Capture, Acquire, SameOnDisk, Write, Add, CommitDone, Push, PushDone, books
  <2>2. QED
    BY <1>0, <2>1 DEF BookTypes
<1>w. ASSUME NEW t \in Threads, WriteFails(t)
      PROVE  BookTypes'
  BY <1>0, <1>w, WriteFailing DEF BookTypes
<1>9. CASE UNCHANGED vars
  BY <1>0, <1>9 DEF vars, BookTypes
<1>10. QED
  BY <1>1, <1>2, <1>3, <1>4, <1>5, <1>6, <1>7, <1>8, <1>9, <1>w, Zenon DEF Next, Run, GoWrong

\* A run's step moves nobody else; what another's lock protects stays, and the
\* repository, the mirror and the books only grow.
LEMMA Others ==
    ASSUME IInv, NEW t \in Threads, Run(t) \/ GoWrong(t)
    PROVE  /\ \A u \in Threads \ {t} :
                /\ thread'[u] = thread[u]
                /\ Staging(u) => UNCHANGED <<disk, index, log>>
                /\ thread[u].pc = "pushing" => UNCHANGED remote
           /\ Len(log') >= Len(log) /\ remote' >= remote
           /\ lost \subseteq lost' /\ faults' >= faults
<1>0. TypeOK /\ Len(log) \in Nat /\ remote \in Nat /\ faults \in Nat
  BY LogFacts DEF IInv, TypeOK
<1>1. \A u \in Threads \ {t} : thread'[u] = thread[u]
  BY <1>0, Going, Starting DEF Goes, Run, GoWrong
<1>2. ASSUME NEW u \in Threads \ {t}, Staging(u)
      PROVE  UNCHANGED <<disk, index, log>>
  <2>1. commitLock = u /\ ~Staging(t)
    BY <1>0, <1>2, Exclusive DEF TypeOK
  <2>2. ~(Write(t) \/ Add(t) \/ Commit(t) \/ WriteFails(t))
    BY <2>1 DEF Write, Add, Commit, WriteFails, Staging
  <2>3. QED
    BY <2>2 DEF Run, GoWrong, Capture, Acquire, SameOnDisk, NothingStaged, CommitDone, Push, PushDone,
       Report, StagingFails, RevParseFails, PushFails, PostFails, repo
<1>3. ASSUME NEW u \in Threads \ {t}, thread[u].pc = "pushing"
      PROVE  remote' = remote
  <2>1. thread[t].pc # "pushing"
    BY <1>0, <1>3, Exclusive
  <2>2. ~PushDone(t) /\ ~PushFails(t)
    BY <2>1 DEF PushDone, PushFails
  <2>3. QED
    BY <2>2 DEF Run, GoWrong, Capture, Acquire, SameOnDisk, Write, Add, NothingStaged, Commit,
       CommitDone, Push, Report, WriteFails, StagingFails, RevParseFails, PostFails
<1>4. Len(log') >= Len(log)
  <2>1. CASE Commit(t)
    <3>1. thread[t].dev \in Devices
      BY <2>1 DEF Commit, IInv, Carrying
    <3>2. [by |-> thread[t].dev, tree |-> index] \in Entries
      BY <1>0, <3>1 DEF TypeOK, Entries, Trees
    <3>3. QED
      BY <1>0, <2>1, <3>2, Committing DEF Commit
  <2>2. CASE ~Commit(t)
    <3>1. log' = log
      BY <2>2 DEF Run, GoWrong, Capture, Acquire, SameOnDisk, Write, Add, NothingStaged, CommitDone,
         Push, PushDone, Report, WriteFails, StagingFails, RevParseFails, PushFails, PostFails, repo
    <3>2. QED
      BY <1>0, <3>1
  <2>3. QED
    BY <2>1, <2>2
<1>5. remote' >= remote
  <2>1. CASE PushDone(t) \/ PushFails(t)
    <3>1. thread[t].pc = "pushing"
      BY <2>1 DEF PushDone, PushFails
    <3>2. thread[t].commit \in 1..Len(log)
      BY <3>1 DEF IInv, Carrying
    <3>3. remote' = remote \/ remote' \in {n \in thread[t].commit..Len(log) : remote <= n}
      BY <2>1, Zenon DEF PushDone, PushFails
    <3>4. QED
      BY <1>0, <3>2, <3>3
  <2>2. CASE ~(PushDone(t) \/ PushFails(t))
    <3>1. remote' = remote
      BY <2>2 DEF Run, GoWrong, Capture, Acquire, SameOnDisk, Write, Add, NothingStaged, Commit,
         CommitDone, Push, Report, WriteFails, StagingFails, RevParseFails, PostFails
    <3>2. QED
      BY <1>0, <3>1
  <2>3. QED
    BY <2>1, <2>2
<1>6. lost \subseteq lost'
  BY DEF Run, GoWrong, Capture, Acquire, SameOnDisk, Write, Add, NothingStaged, Commit,
     CommitDone, Push, PushDone, Report, WriteFails, StagingFails, RevParseFails, PushFails, PostFails, books
<1>7. faults' >= faults
  <2>1. faults' = faults \/ faults' = faults + 1
    BY DEF Run, GoWrong, Capture, Acquire, SameOnDisk, Write, Add, NothingStaged, Commit,
       CommitDone, Push, PushDone, Report, WriteFails, StagingFails, RevParseFails, PushFails, PostFails, Fault
  <2>2. QED
    BY <1>0, <2>1
<1>8. QED
  BY <1>1, <1>2, <1>3, <1>4, <1>5, <1>6, <1>7

-----------------------------------------------------------------------------
(* Every run carries what its place says                                   *)

LEMMA CarryingStep == IInv /\ [Next]_vars => \A u \in Threads : Carrying(u)'
<1> SUFFICES ASSUME IInv, [Next]_vars, NEW u \in Threads
             PROVE  Carrying(u)'
  OBVIOUS
<1>0. /\ TypeOK /\ Len(log) \in Nat /\ Carrying(u) /\ thread[u] \in Thread
      /\ ThreadTypes' /\ RepoTypes'
  BY LogFacts, ThreadStep, RepoStep DEF IInv, TypeOK
<1>1. CASE (\E d \in Devices, v \in Configs : Reconfigure(d, v)) \/ UNCHANGED vars
  <2>1. UNCHANGED <<thread, disk, index, log, remote>>
    BY <1>1, Zenon DEF Reconfigure, repo, vars
  <2>2. QED
    BY <1>0, <2>1 DEF Carrying
<1>2. CASE Crash
  <2>1. thread'[u] = Idle
    BY <1>0, <1>2, Starting
  <2>2. QED
    BY <2>1 DEF Carrying, Idle
<1>3. ASSUME NEW t \in Threads, t # u, Run(t) \/ GoWrong(t)
      PROVE  Carrying(u)'
  <2>1. /\ thread'[u] = thread[u] /\ Len(log') >= Len(log) /\ Len(log') \in Nat
        /\ Staging(u) => UNCHANGED <<disk, index, log>>
        /\ thread[u].pc = "pushing" => UNCHANGED remote
    BY <1>3, Others, TypeParts, ThreadStep, RepoStep, BookStep, LogFacts, LenProperties DEF RepoTypes
  <2>2. QED
    BY <1>0, <2>1 DEF Carrying, Staging, Early
<1>4. CASE \E d \in Devices : Capture(u, d)
  BY <1>0, <1>4, Starting DEF Carrying, TypeOK, Early
<1>5. CASE Acquire(u) \/ Push(u) \/ CommitDone(u)
  <2>1. UNCHANGED <<log, remote>> /\ thread[u].pc # "idle"
    BY <1>5 DEF Acquire, Push, CommitDone, repo
  <2>2. CASE Acquire(u)
    <3>1. Goes(u, "write", thread[u].commit, thread[u].base, thread[u].result) /\ thread[u].pc = "captured"
      BY <1>0, <2>2, Going DEF Acquire
    <3>2. QED
      BY <1>0, <2>1, <3>1 DEF Carrying, Goes, Early
  <2>3. CASE Push(u)
    <3>1. Goes(u, "pushing", thread[u].commit, remote, thread[u].result) /\ thread[u].pc = "push"
      BY <1>0, <2>3, Going DEF Push
    <3>2. QED
      BY <1>0, <2>1, <3>1 DEF Carrying, Goes, Early
  <2>4. CASE CommitDone(u)
    <3>1. /\ \/ Goes(u, "push", thread[u].commit, thread[u].base, thread[u].result)
             \/ Goes(u, "report", thread[u].commit, thread[u].base, "changed")
          /\ thread[u].pc = "rev-parse"
      BY <1>0, <2>4, Going DEF CommitDone
    <3>2. QED
      BY <1>0, <2>1, <3>1 DEF Carrying, Goes, Early
  <2>5. QED
    BY <1>5, <2>2, <2>3, <2>4
<1>6. CASE Write(u)
  <2>1. Goes(u, "add", thread[u].commit, thread[u].base, thread[u].result)
    BY <1>0, <1>6, Going
  <2>2. thread[u].pc = "write" /\ disk' = [disk EXCEPT ![thread[u].dev] = thread[u].text]
    BY <1>6 DEF Write
  <2>3. disk \in [Devices -> Files] /\ thread[u].dev \in Devices /\ thread[u].text \in Configs
    BY <1>0, <2>2 DEF TypeOK, Carrying
  <2>4. disk'[thread[u].dev] = thread[u].text
    BY <2>2, <2>3
  <2>5. QED
    BY <1>0, <2>1, <2>2, <2>3, <2>4 DEF Carrying, Goes, Early
<1>7. CASE Add(u)
  <2>1. Goes(u, "commit", thread[u].commit, thread[u].base, thread[u].result)
    BY <1>0, <1>7, Going
  <2>2. /\ thread[u].pc = "add" /\ index' = [index EXCEPT ![thread[u].dev] = disk[thread[u].dev]]
        /\ disk' = disk
    BY <1>7 DEF Add
  <2>3. index \in [Devices -> Configs \cup {NoFile}] /\ thread[u].dev \in Devices /\ thread[u].text \in Configs
    BY <1>0, <2>2 DEF TypeOK, Carrying
  <2>4. index'[thread[u].dev] = disk'[thread[u].dev]
    BY <2>2, <2>3
  <2>5. QED
    BY <1>0, <2>1, <2>2, <2>3, <2>4 DEF Carrying, Goes, Early
<1>8. CASE Commit(u)
  <2>1. Goes(u, "rev-parse", Len(log) + 1, thread[u].base, thread[u].result) /\ thread[u].pc = "commit"
    BY <1>0, <1>8, Going DEF Commit
  <2>2. Len(log') = Len(log) + 1
    <3>1. thread[u].dev \in Devices
      BY <1>0, <2>1 DEF Carrying
    <3>2. [by |-> thread[u].dev, tree |-> index] \in Entries
      BY <1>0, <3>1 DEF TypeOK, Entries, Trees
    <3>3. QED
      BY <1>0, <1>8, <3>2, Committing DEF Commit
  <2>3. Len(log) + 1 \in 1..Len(log')
    BY <1>0, <2>2
  <2>4. QED
    BY <1>0, <2>1, <2>3 DEF Carrying, Goes, Early
<1>9. CASE PushDone(u) \/ SameOnDisk(u) \/ NothingStaged(u) \/ StagingFails(u) \/ RevParseFails(u)
           \/ PushFails(u)
  <2>1. \E r \in Results : Goes(u, "report", thread[u].commit, thread[u].base, r)
    BY <1>0, <1>9, Going DEF Results
  <2>2. thread[u].pc # "idle"
    BY <1>9 DEF PushDone, SameOnDisk, NothingStaged, StagingFails, RevParseFails, PushFails
  <2>3. QED
    BY <1>0, <2>1, <2>2 DEF Carrying, Goes, Early
<1>10. CASE Report(u) \/ PostFails(u) \/ WriteFails(u)
  <2>1. thread'[u] = Idle
    BY <1>0, <1>10, Starting
  <2>2. QED
    BY <2>1 DEF Carrying, Idle
<1>11. QED
  BY <1>1, <1>2, <1>3, <1>4, <1>5, <1>6, <1>7, <1>8, <1>9, <1>10, Zenon DEF Next, Run, GoWrong

-----------------------------------------------------------------------------
(* Every run has an honest outcome                                         *)

LEMMA HonestStep == IInv /\ [Next]_vars => \A u \in Threads : Honest(u)'
<1> SUFFICES ASSUME IInv, [Next]_vars, NEW u \in Threads
             PROVE  Honest(u)'
  OBVIOUS
<1>0. /\ TypeOK /\ Len(log) \in Nat /\ remote \in Nat /\ faults \in Nat /\ Carrying(u) /\ Honest(u)
      /\ thread[u].commit \in Nat
  BY LogFacts DEF IInv, TypeOK, Thread
<1>n. remote' \in Nat /\ faults' \in Nat
  <2>1. RepoTypes' /\ BookTypes' /\ TypeOK'
    BY TypeParts, ThreadStep, RepoStep, BookStep
  <2>2. Len(log') \in Nat
    BY <2>1, LenProperties DEF RepoTypes
  <2>3. QED
    BY <2>1, <2>2, ConstantsAssumption DEF RepoTypes, BookTypes
<1>1. CASE (\E d \in Devices, v \in Configs : Reconfigure(d, v)) \/ UNCHANGED vars
  <2>1. UNCHANGED <<thread, remote, lost, faults>>
    BY <1>1, Zenon DEF Reconfigure, books, vars
  <2>2. QED
    BY <1>0, <2>1 DEF Honest
<1>2. CASE Crash \/ Report(u) \/ PostFails(u) \/ WriteFails(u)
  <2>1. thread'[u] = Idle
    BY <1>0, <1>2, Starting
  <2>2. QED
    BY <2>1 DEF Honest, Idle
<1>3. ASSUME NEW t \in Threads, t # u, Run(t) \/ GoWrong(t)
      PROVE  Honest(u)'
  <2>1. thread'[u] = thread[u] /\ remote' >= remote /\ lost \subseteq lost' /\ faults' >= faults
    BY <1>3, Others
  <2>2. thread[u].commit <= remote => thread[u].commit <= remote'
    BY <1>0, <1>n, <2>1
  <2>3. faults' = 0 => faults = 0
    BY <1>0, <1>n, <2>1
  <2>4. QED
    BY <1>0, <2>1, <2>2, <2>3 DEF Honest
<1>4. CASE \E d \in Devices : Capture(u, d)
  BY <1>0, <1>4, Starting DEF Honest
<1>o. Run(u) \/ GoWrong(u) => (faults' = 0 => faults = 0)
  <2>1. Run(u) \/ GoWrong(u) => faults' >= faults
    BY Others
  <2>2. QED
    BY <1>0, <1>n, <2>1
<1>5. CASE Acquire(u) \/ Write(u) \/ Add(u) \/ Commit(u) \/ Push(u)
  <2>1. \E p \in {"write", "add", "commit", "rev-parse", "pushing"} :
          \E c, b : Goes(u, p, c, b, thread[u].result)
    <3>1. Acquire(u) => Goes(u, "write", thread[u].commit, thread[u].base, thread[u].result)
      BY <1>0, Going
    <3>2. Write(u) => Goes(u, "add", thread[u].commit, thread[u].base, thread[u].result)
      BY <1>0, Going
    <3>3. Add(u) => Goes(u, "commit", thread[u].commit, thread[u].base, thread[u].result)
      BY <1>0, Going
    <3>4. Commit(u) => Goes(u, "rev-parse", Len(log) + 1, thread[u].base, thread[u].result)
      BY <1>0, Going
    <3>5. Push(u) => Goes(u, "pushing", thread[u].commit, remote, thread[u].result)
      BY <1>0, Going
    <3>6. QED
      BY <1>5, <3>1, <3>2, <3>3, <3>4, <3>5, Zenon
  <2>2. faults' = 0 => faults = 0
    BY <1>5, <1>o DEF Run
  <2>3. QED
    BY <1>0, <2>1, <2>2 DEF Honest, Goes
<1>6. CASE SameOnDisk(u) \/ NothingStaged(u) \/ StagingFails(u)
  <2>1. thread[u].commit = 0
    BY <1>0, <1>6 DEF SameOnDisk, NothingStaged, StagingFails, Carrying, Early
  <2>2. \E r \in {"no change", "error"} : Goes(u, "report", thread[u].commit, thread[u].base, r)
    BY <1>0, <1>6, Going
  <2>3. QED
    BY <2>1, <2>2 DEF Honest, Goes
<1>7. CASE CommitDone(u)
  <2>1. faults' = 0 => faults = 0
    BY <1>7, <1>o DEF Run
  <2>2. CASE PushEnabled
    <3>1. Goes(u, "push", thread[u].commit, thread[u].base, thread[u].result)
      BY <1>0, <1>7, <2>2, Going
    <3>2. QED
      BY <1>0, <2>1, <3>1 DEF Honest, Goes
  <2>3. CASE ~PushEnabled
    <3>1. Goes(u, "report", thread[u].commit, thread[u].base, "changed")
      BY <1>0, <1>7, <2>3, Going
    <3>2. QED
      BY <2>3, <3>1 DEF Honest, Goes
  <2>4. QED
    BY <2>2, <2>3
<1>8. CASE PushDone(u)
  <2>1. thread[u].pc = "pushing"
    BY <1>8 DEF PushDone
  <2>2. thread[u].base = remote
    BY <1>0, <2>1 DEF Carrying
  <2>3. thread[u].commit <= remote'
    <3>1. remote' \in {n \in thread[u].commit..Len(log) : remote <= n}
      BY <1>8, <2>2, Zenon DEF PushDone
    <3>2. QED
      BY <1>0, <3>1
  <2>4. Goes(u, "report", thread[u].commit, thread[u].base, "changed")
    BY <1>0, <1>8, <2>2, Going
  <2>5. QED
    BY <2>3, <2>4 DEF Honest, Goes
<1>9. CASE RevParseFails(u)
  <2>1. Goes(u, "report", thread[u].commit, thread[u].base, "error")
    BY <1>0, <1>9, Going
  <2>2. thread[u].commit \in lost'
    BY <1>9 DEF RevParseFails
  <2>3. QED
    BY <2>1, <2>2 DEF Honest, Goes
<1>10. CASE PushFails(u)
  <2>1. Goes(u, "report", thread[u].commit, thread[u].base, "push failed")
    BY <1>0, <1>10, Going
  <2>2. faults' # 0
    <3>1. faults' = faults + 1
      BY <1>10, Zenon DEF PushFails, Fault
    <3>2. QED
      BY <1>0, <3>1
  <2>3. QED
    BY <2>1, <2>2 DEF Honest, Goes
<1>11. QED
  BY <1>1, <1>2, <1>3, <1>4, <1>5, <1>6, <1>7, <1>8, <1>9, <1>10, Zenon DEF Next, Run, GoWrong

-----------------------------------------------------------------------------
(* Working tree, staging area and HEAD                                     *)

\* A run outside "add" and "commit" moves, and nothing else does.
LEMMA TidyStays ==
    ASSUME TypeOK, NEW t \in Threads, NEW d \in Devices, Tidy(d),
           thread[t].pc \notin {"add", "commit"},
           \A u \in Threads \ {t} : thread'[u] = thread[u],
           UNCHANGED <<disk, index, log, broken>>
    PROVE  Tidy(d)'
<1>1. \A u \in Threads : thread[u].pc \in {"add", "commit"} => thread'[u] = thread[u]
  OBVIOUS
<1>2. Committed(d)' = Committed(d)
  BY DEF Committed
<1>3. disk'[d] # index'[d] => d \in broken' \/ \E u \in Threads : thread'[u].pc = "add" /\ thread'[u].dev = d
  BY <1>1 DEF Tidy
<1>4. index'[d] # Committed(d)'
        => d \in broken' \/ \E u \in Threads : thread'[u].pc = "commit" /\ thread'[u].dev = d
  BY <1>1, <1>2 DEF Tidy
<1>5. QED
  BY <1>3, <1>4 DEF Tidy

LEMMA TidyStep == IInv /\ [Next]_vars => \A d \in Devices : Tidy(d)'
<1> SUFFICES ASSUME IInv, [Next]_vars, NEW d \in Devices
             PROVE  Tidy(d)'
  OBVIOUS
<1>0. /\ TypeOK /\ Tidy(d)
      /\ disk \in [Devices -> Files] /\ index \in [Devices -> Configs \cup {NoFile}]
  BY DEF IInv, TypeOK
<1>1. CASE (\E e \in Devices, v \in Configs : Reconfigure(e, v)) \/ UNCHANGED vars
  <2>1. UNCHANGED <<thread, disk, index, log, broken>>
    BY <1>1, Zenon DEF Reconfigure, repo, books, vars
  <2>2. QED
    BY <1>0, <2>1 DEF Tidy, Committed
<1>2. ASSUME NEW t \in Threads,
             \/ (\E e \in Devices : Capture(t, e)) \/ Acquire(t) \/ SameOnDisk(t) \/ CommitDone(t)
             \/ Push(t) \/ PushDone(t) \/ Report(t) \/ RevParseFails(t) \/ PushFails(t) \/ PostFails(t)
      PROVE  Tidy(d)'
  <2>1. thread[t].pc \notin {"add", "commit"}
    BY <1>2 DEF Capture, Acquire, SameOnDisk, CommitDone, Push, PushDone, Report, RevParseFails,
       PushFails, PostFails
  <2>2. UNCHANGED <<disk, index, log, broken>>
    BY <1>2, Zenon DEF Capture, Acquire, SameOnDisk, CommitDone, Push, PushDone, Report, RevParseFails,
       PushFails, PostFails, repo, books
  <2>3. \A u \in Threads \ {t} : thread'[u] = thread[u]
    BY <1>2, Others DEF Run, GoWrong
  <2>4. QED
    BY <1>0, <2>1, <2>2, <2>3, TidyStays
<1>3. ASSUME NEW t \in Threads, Write(t)
      PROVE  Tidy(d)'
  <2>1. /\ thread'[t].pc = "add" /\ thread'[t].dev = thread[t].dev /\ thread[t].pc = "write"
        /\ \A u \in Threads \ {t} : thread'[u] = thread[u]
    BY <1>0, <1>3, Going DEF Goes, Write
  <2>2. /\ disk' = [disk EXCEPT ![thread[t].dev] = thread[t].text]
        /\ UNCHANGED <<index, log, broken>>
    BY <1>3, Zenon DEF Write, books
  <2>3. Committed(d)' = Committed(d)
    BY <2>2 DEF Committed
  <2>4. disk'[d] # index'[d] => d \in broken' \/ \E u \in Threads : thread'[u].pc = "add" /\ thread'[u].dev = d
    <3>1. CASE d = thread[t].dev
      BY <2>1, <3>1
    <3>2. CASE d # thread[t].dev
      <4>1. disk'[d] = disk[d]
        BY <1>0, <2>2, <3>2
      <4>2. \A u \in Threads : thread[u].pc = "add" => thread'[u] = thread[u]
        BY <2>1
      <4>3. QED
        BY <1>0, <2>2, <4>1, <4>2 DEF Tidy
    <3>3. QED
      BY <3>1, <3>2
  <2>5. index'[d] # Committed(d)'
          => d \in broken' \/ \E u \in Threads : thread'[u].pc = "commit" /\ thread'[u].dev = d
    <3>1. \A u \in Threads : thread[u].pc = "commit" => thread'[u] = thread[u]
      BY <2>1
    <3>2. QED
      BY <1>0, <2>2, <2>3, <3>1 DEF Tidy
  <2>6. QED
    BY <2>4, <2>5 DEF Tidy
<1>4. ASSUME NEW t \in Threads, Add(t)
      PROVE  Tidy(d)'
  <2>1. /\ thread'[t].pc = "commit" /\ thread'[t].dev = thread[t].dev /\ thread[t].pc = "add"
        /\ \A u \in Threads \ {t} : thread'[u] = thread[u]
    BY <1>0, <1>4, Going DEF Goes, Add
  <2>2. /\ index' = [index EXCEPT ![thread[t].dev] = disk[thread[t].dev]]
        /\ UNCHANGED <<disk, log, broken>>
    BY <1>4, Zenon DEF Add, books
  <2>3. Committed(d)' = Committed(d)
    BY <2>2 DEF Committed
  <2>4. CASE d = thread[t].dev
    <3>1. index'[d] = disk'[d]
      BY <1>0, <2>2, <2>4
    <3>2. QED
      BY <2>1, <2>4, <3>1 DEF Tidy
  <2>5. CASE d # thread[t].dev
    <3>1. index'[d] = index[d] /\ disk'[d] = disk[d]
      BY <1>0, <2>2, <2>5
    <3>2. \A u \in Threads : thread[u].pc \in {"add", "commit"} /\ thread[u].dev = d => thread'[u] = thread[u]
      BY <2>1, <2>5
    <3>3. QED
      BY <1>0, <2>2, <2>3, <3>1, <3>2 DEF Tidy
  <2>6. QED
    BY <2>4, <2>5
<1>5. ASSUME NEW t \in Threads, NothingStaged(t) \/ Commit(t)
      PROVE  Tidy(d)'
  <2>1. /\ thread[t].pc = "commit" /\ thread[t].dev \in Devices /\ index[thread[t].dev] = disk[thread[t].dev]
        /\ UNCHANGED <<disk, index>> /\ broken' = broken \ {thread[t].dev}
    BY <1>5 DEF NothingStaged, Commit, IInv, Carrying, repo
  <2>2. \A u \in Threads \ {t} : thread'[u] = thread[u]
    BY <1>5, Others DEF Run
  <2>3. Committed(d)' = index[d]
    <3>1. CASE NothingStaged(t)
      BY <3>1 DEF NothingStaged, Committed, repo
    <3>2. CASE Commit(t)
      <4>1. log' = Append(log, [by |-> thread[t].dev, tree |-> index])
        BY <3>2 DEF Commit
      <4>2. [by |-> thread[t].dev, tree |-> index] \in Entries
        BY <1>0, <2>1 DEF Entries, Trees
      <4>3. Committed(d)' = [by |-> thread[t].dev, tree |-> index].tree[d]
        BY <1>0, <4>1, <4>2, Committing
      <4>4. QED
        BY <4>3
    <3>3. QED
      BY <1>5, <3>1, <3>2
  <2>4. disk'[d] # index'[d] => d \in broken' \/ \E u \in Threads : thread'[u].pc = "add" /\ thread'[u].dev = d
    <3>1. CASE d = thread[t].dev
      BY <2>1, <3>1
    <3>2. CASE d # thread[t].dev
      <4>1. \A u \in Threads : thread[u].pc = "add" => thread'[u] = thread[u]
        BY <2>1, <2>2
      <4>2. QED
        BY <1>0, <2>1, <3>2, <4>1 DEF Tidy
    <3>3. QED
      BY <3>1, <3>2
  <2>5. QED
    BY <2>1, <2>3, <2>4 DEF Tidy
<1>6. ASSUME NEW t \in Threads, StagingFails(t)
      PROVE  Tidy(d)'
  <2>1. UNCHANGED <<disk, index, log>> /\ broken' = broken \cup {thread[t].dev}
    BY <1>6, Zenon DEF StagingFails, repo
  <2>2. \A u \in Threads \ {t} : thread'[u] = thread[u]
    BY <1>6, Others DEF GoWrong
  <2>3. CASE d = thread[t].dev
    BY <2>1, <2>3 DEF Tidy
  <2>4. CASE d # thread[t].dev
    <3>1. \A u \in Threads : thread[u].dev = d => thread'[u] = thread[u]
      BY <2>2, <2>4
    <3>2. Committed(d)' = Committed(d)
      BY <2>1 DEF Committed
    <3>3. QED
      BY <1>0, <2>1, <3>1, <3>2 DEF Tidy
  <2>5. QED
    BY <2>3, <2>4
<1>w. ASSUME NEW t \in Threads, WriteFails(t)
      PROVE  Tidy(d)'
  <2>1. /\ thread[t].pc = "write" /\ UNCHANGED <<index, log>>
        /\ d \notin broken' => disk'[d] = disk[d] /\ d \notin broken
    BY <1>w, WriteFailing
  <2>2. \A u \in Threads : thread[u].pc \in {"add", "commit"} => thread'[u] = thread[u]
    BY <1>w, <2>1, Others DEF GoWrong
  <2>3. Committed(d)' = Committed(d)
    BY <2>1 DEF Committed
  <2>4. QED
    BY <1>0, <2>1, <2>2, <2>3 DEF Tidy
<1>7. CASE Crash
  <2>1. PICK torn \in SUBSET {thread[t].dev : t \in {u \in Threads : thread[u].pc = "write"}} :
          /\ disk' = [e \in Devices |-> IF e \in torn THEN Torn ELSE disk[e]]
          /\ broken' = broken \cup torn \cup {thread[t].dev :
                          t \in {u \in Threads : thread[u].pc \in {"add", "commit"}}}
    BY <1>7, Zenon DEF Crash
  <2>2. UNCHANGED <<index, log>> /\ Committed(d)' = Committed(d)
    BY <1>7 DEF Crash, Committed
  <2>3. \A u \in Threads : thread[u].pc \in {"add", "commit"} => thread[u].dev \in broken'
    BY <2>1
  <2>4. d \notin broken' => disk'[d] = disk[d] /\ d \notin broken
    BY <2>1
  <2>5. QED
    BY <1>0, <2>2, <2>3, <2>4 DEF Tidy
<1>8. QED
  BY <1>1, <1>2, <1>3, <1>4, <1>5, <1>6, <1>7, <1>w, Zenon DEF Next, Run, GoWrong

-----------------------------------------------------------------------------
(* Room for the commits under way                                          *)

LEMMA RoomStep == IInv /\ [Next]_vars => Room'
<1> SUFFICES ASSUME IInv, [Next]_vars
             PROVE  Room'
  OBVIOUS
<1>0. /\ TypeOK /\ Room /\ Len(log) \in Nat /\ IsFiniteSet(Pending) /\ Cardinality(Pending) \in Nat
  BY LogFacts, PendingFinite DEF IInv
<1>1. ASSUME Pending' \subseteq Pending, Len(log') = Len(log)
      PROVE  Room'
  <2>1. Cardinality(Pending') <= Cardinality(Pending) /\ Cardinality(Pending') \in Nat
    BY <1>0, <1>1, FS_Subset, FS_CardinalityType
  <2>2. QED
    BY <1>0, <1>1, <2>1, ConstantsAssumption DEF Room
<1>2. CASE (\E e \in Devices, v \in Configs : Reconfigure(e, v)) \/ UNCHANGED vars
  <2>1. UNCHANGED <<thread, log>>
    BY <1>2, Zenon DEF Reconfigure, repo, vars
  <2>2. QED
    BY <1>1, <2>1 DEF Pending
<1>3. ASSUME NEW t \in Threads, NEW d \in Devices, Capture(t, d)
      PROVE  Room'
  <2> DEFINE Busy == {u \in Threads : thread[u].pc # "idle"}
  <2>1. log' = log /\ thread[t].pc = "idle" /\ Len(log) + Cardinality(Busy) < MaxLog
    BY <1>3, Zenon DEF Capture, repo
  <2>2. Pending' \subseteq Busy \cup {t}
    BY <1>0, <1>3, Starting DEF Pending, Early
  <2>3. IsFiniteSet(Busy) /\ t \notin Busy
    BY <2>1, ConstantsAssumption, FS_Subset
  <2> HIDE DEF Busy
  <2>4. IsFiniteSet(Busy \cup {t}) /\ Cardinality(Busy \cup {t}) = Cardinality(Busy) + 1
    BY <2>3, FS_AddElement
  <2>5. Cardinality(Pending') <= Cardinality(Busy) + 1 /\ Cardinality(Pending') \in Nat
    BY <2>2, <2>4, FS_Subset, FS_CardinalityType
  <2>6. Cardinality(Busy) \in Nat
    BY <2>3, FS_CardinalityType
  <2>7. QED
    BY <1>0, <2>1, <2>5, <2>6, ConstantsAssumption DEF Room
<1>4. ASSUME NEW t \in Threads, Commit(t)
      PROVE  Room'
  <2>1. thread[t].pc = "commit" /\ thread[t].dev \in Devices
    BY <1>4 DEF Commit, IInv, Carrying
  <2>2. [by |-> thread[t].dev, tree |-> index] \in Entries
    BY <1>0, <2>1 DEF TypeOK, Entries, Trees
  <2>3. Len(log') = Len(log) + 1
    BY <1>0, <1>4, <2>2, Committing DEF Commit
  <2>4. Pending' \subseteq Pending \ {t} /\ t \in Pending
    BY <1>0, <1>4, <2>1, Going DEF Goes, Pending, Early
  <2>5. IsFiniteSet(Pending \ {t}) /\ Cardinality(Pending \ {t}) = Cardinality(Pending) - 1
    BY <1>0, <2>4, FS_RemoveElement
  <2>6. Cardinality(Pending') <= Cardinality(Pending) - 1 /\ Cardinality(Pending') \in Nat
    BY <2>4, <2>5, FS_Subset, FS_CardinalityType
  <2>7. QED
    BY <1>0, <2>3, <2>6, ConstantsAssumption DEF Room
<1>5. CASE Crash
  <2>1. Pending' = {}
    BY <1>0, <1>5, Starting DEF Pending, Idle, Early
  <2>2. log' = log
    BY <1>5 DEF Crash
  <2>3. QED
    BY <1>1, <2>1, <2>2
<1>6. ASSUME NEW t \in Threads,
             \/ Acquire(t) \/ SameOnDisk(t) \/ Write(t) \/ Add(t) \/ NothingStaged(t) \/ CommitDone(t)
             \/ Push(t) \/ PushDone(t) \/ Report(t) \/ GoWrong(t)
      PROVE  Room'
  <2>1. log' = log
    BY <1>6 DEF Acquire, SameOnDisk, Write, Add, NothingStaged, CommitDone, Push, PushDone, Report,
       GoWrong, WriteFails, StagingFails, RevParseFails, PushFails, PostFails, repo
  <2>2. \A u \in Threads \ {t} : thread'[u] = thread[u]
    BY <1>6, Others DEF Run
  <2>3. CASE Acquire(t) \/ Write(t) \/ Add(t)
    <3>1. thread[t].pc \in Early \ {"idle"}
      BY <2>3 DEF Acquire, Write, Add, Early
    <3>2. QED
      BY <1>1, <2>1, <2>2, <3>1 DEF Pending
  <2>4. CASE ~(Acquire(t) \/ Write(t) \/ Add(t))
    <3>1. CommitDone(t) => thread'[t].pc \in {"report", "push"}
      BY <1>0, Going DEF Goes
    <3>2. Push(t) => thread'[t].pc = "pushing"
      BY <1>0, Going DEF Goes
    <3>3. SameOnDisk(t) \/ NothingStaged(t) \/ PushDone(t) \/ StagingFails(t) \/ RevParseFails(t)
             \/ PushFails(t) => thread'[t].pc = "report"
      BY <1>0, Going DEF Goes
    <3>4. Report(t) \/ PostFails(t) \/ WriteFails(t) => thread'[t].pc = "idle"
      BY <1>0, Starting DEF Idle
    <3>5. thread'[t].pc \in {"report", "push", "pushing", "idle"}
      BY <1>6, <2>4, <3>1, <3>2, <3>3, <3>4 DEF GoWrong
    <3>6. QED
      BY <1>1, <2>1, <2>2, <3>5 DEF Pending, Early
  <2>5. QED
    BY <2>3, <2>4
<1>7. QED
  BY <1>2, <1>3, <1>4, <1>5, <1>6, Zenon DEF Next, Run

-----------------------------------------------------------------------------
(* Every commit is reported, and truly                                     *)

\* The jobs posted so far stay posted.
LEMMA PostedStays ==
    ASSUME IInv, [Next]_vars, NEW n \in Commits, posted[n] # "none"
    PROVE  posted'[n] # "none"
<1>1. posted \in [Commits -> {"none", "warning", "failed"}]
  BY DEF IInv, TypeOK
<1>2. CASE \E t \in Threads : Report(t)
  BY <1>1, <1>2 DEF Report
<1>3. CASE ~\E t \in Threads : Report(t)
  <2>1. posted' = posted
    BY <1>3 DEF Next, Run, GoWrong, Reconfigure, Capture, Acquire, SameOnDisk, Write, Add, NothingStaged,
       Commit, CommitDone, Push, PushDone, WriteFails, StagingFails, RevParseFails, PushFails, PostFails, Crash,
       books, vars
  <2>2. QED
    BY <2>1
<1>4. QED
  BY <1>2, <1>3

LEMMA DriftStep == IInv /\ [Next]_vars => DriftIsPosted'
<1> SUFFICES ASSUME IInv, [Next]_vars, NEW n \in 1..Len(log'), posted'[n] = "none", n \notin lost'
             PROVE  \E t \in Threads : thread'[t].commit = n
  BY DEF DriftIsPosted
<1>0. /\ TypeOK /\ Len(log) \in Nat /\ Len(log') \in Nat /\ Len(log') <= MaxLog /\ MaxLog \in Nat
      /\ posted \in [Commits -> {"none", "warning", "failed"}]
  <2>1. TypeOK'
    BY TypeParts, ThreadStep, RepoStep, BookStep
  <2>2. Len(log') \in Nat /\ Len(log') <= MaxLog
    BY <2>1, LenProperties DEF TypeOK
  <2>3. QED
    BY <2>2, LogFacts, ConstantsAssumption DEF IInv, TypeOK
<1>n. n \in Commits /\ n # 0
  BY <1>0 DEF Commits
<1>p. posted[n] = "none"
  BY <1>n, PostedStays
\* A commit that was there before.
<1>w. ASSUME n \in 1..Len(log), n \notin lost
      PROVE  \E t \in Threads : thread[t].commit = n
  BY <1>p, <1>w DEF IInv, DriftIsPosted
<1>1. CASE (\E e \in Devices, v \in Configs : Reconfigure(e, v)) \/ UNCHANGED vars
  <2>1. UNCHANGED <<thread, log, lost>>
    BY <1>1, Zenon DEF Reconfigure, repo, books, vars
  <2>2. QED
    BY <1>w, <2>1
<1>2. ASSUME NEW t \in Threads, Commit(t)
      PROVE  \E u \in Threads : thread'[u].commit = n
  <2>1. /\ thread'[t].commit = Len(log) + 1 /\ thread[t].commit = 0
        /\ \A u \in Threads \ {t} : thread'[u] = thread[u]
    BY <1>0, <1>2, Going DEF Goes, Commit, IInv, Carrying, Early
  <2>2. Len(log') = Len(log) + 1 /\ lost' = lost
    <3>1. thread[t].dev \in Devices
      BY <1>2 DEF Commit, IInv, Carrying
    <3>2. [by |-> thread[t].dev, tree |-> index] \in Entries
      BY <1>0, <3>1 DEF TypeOK, Entries, Trees
    <3>3. QED
      BY <1>0, <1>2, <3>2, Committing DEF Commit
  <2>3. CASE n = Len(log) + 1
    BY <2>1, <2>3
  <2>4. CASE n # Len(log) + 1
    <3>1. n \in 1..Len(log)
      BY <1>0, <2>2, <2>4
    <3>2. PICK u \in Threads : thread[u].commit = n
      BY <1>w, <2>2, <3>1
    <3>3. QED
      BY <1>n, <2>1, <3>2
  <2>5. QED
    BY <2>3, <2>4
<1>3. ASSUME NEW t \in Threads, ~Commit(t), Run(t) \/ GoWrong(t)
      PROVE  \E u \in Threads : thread'[u].commit = n
  <2>1. log' = log
    BY <1>3 DEF Run, GoWrong, Capture, Acquire, SameOnDisk, Write, Add, NothingStaged, CommitDone, Push,
       PushDone, Report, WriteFails, StagingFails, RevParseFails, PushFails, PostFails, repo
  <2>2. lost \subseteq lost' /\ \A u \in Threads \ {t} : thread'[u] = thread[u]
    BY <1>3, Others
  <2>3. PICK u \in Threads : thread[u].commit = n
    BY <1>w, <2>1, <2>2
  <2>4. CASE u # t
    BY <2>2, <2>3, <2>4
  <2>5. CASE u = t
    <3>1. thread[t].pc \notin Early
      BY <1>n, <2>3, <2>5 DEF IInv, Carrying
    <3>2. ~\E d \in Devices : Capture(t, d)
      BY <3>1 DEF Capture, Early
    <3>3. ~Report(t)
      <4>1. SUFFICES ASSUME Report(t)
                     PROVE  FALSE
        OBVIOUS
      <4>2. thread[t].pc = "report" /\ lost' = lost
        BY <4>1 DEF Report
      <4>3. thread[t].result \in {"changed", "push failed"}
        BY <1>n, <2>3, <2>5, <4>2 DEF IInv, Honest
      <4>4. posted'[n] \in {"warning", "failed"}
        BY <1>0, <1>n, <2>3, <2>5, <4>1, <4>3 DEF Report
      <4>5. QED
        BY <4>4
    <3>4. ~PostFails(t)
      BY <1>n, <2>3, <2>5 DEF PostFails
    <3>w. ~WriteFails(t)
      BY <3>1 DEF WriteFails, Early
    <3>5. thread'[t].commit = thread[t].commit
      <4>1. CommitDone(t) => thread'[t].commit = thread[t].commit
        BY <1>0, Going DEF Goes
      <4>2. Acquire(t) \/ SameOnDisk(t) \/ Write(t) \/ Add(t) \/ NothingStaged(t) \/ Push(t) \/ PushDone(t)
               => thread'[t].commit = thread[t].commit
        BY <1>0, Going DEF Goes
      <4>3. StagingFails(t) \/ RevParseFails(t) \/ PushFails(t) => thread'[t].commit = thread[t].commit
        BY <1>0, Going DEF Goes
      <4>4. QED
        BY <1>3, <3>2, <3>3, <3>4, <3>w, <4>1, <4>2, <4>3, Zenon DEF Run, GoWrong
    <3>6. QED
      BY <2>3, <2>5, <3>5
  <2>6. QED
    BY <2>4, <2>5
<1>4. CASE Crash
  <2>1. log' = log /\ lost' = lost \cup ({thread[t].commit : t \in Threads} \ {0})
    BY <1>4, Zenon DEF Crash
  <2>2. QED
    BY <1>n, <1>w, <2>1
<1>5. QED
  BY <1>1, <1>2, <1>3, <1>4, Zenon DEF Next

LEMMA MirroredStep == IInv /\ [Next]_vars => Mirrored'
<1> SUFFICES ASSUME IInv, [Next]_vars, PushEnabled, NEW n \in Commits, posted'[n] = "warning"
             PROVE  n <= remote'
  BY DEF Mirrored, Commits
<1>0. /\ TypeOK /\ remote \in Nat /\ n \in Nat
      /\ posted \in [Commits -> {"none", "warning", "failed"}]
      /\ posted[n] = "warning" => n <= remote
  BY LogFacts DEF IInv, TypeOK, Mirrored, Commits
<1>1. ASSUME NEW t \in Threads, Report(t)
      PROVE  n <= remote'
  <2>1. thread[t].pc = "report" /\ remote' = remote
    BY <1>1 DEF Report
  <2>2. CASE n = thread[t].commit /\ thread[t].result = "changed"
    BY <2>1, <2>2 DEF IInv, Honest
  <2>3. CASE ~(n = thread[t].commit /\ thread[t].result = "changed")
    <3>1. posted[n] = "warning"
      BY <1>0, <1>1, <2>3 DEF Report
    <3>2. QED
      BY <1>0, <2>1, <3>1
  <2>4. QED
    BY <2>2, <2>3
<1>2. CASE ~\E t \in Threads : Report(t)
  <2>1. posted' = posted
    BY <1>2 DEF Next, Run, GoWrong, Reconfigure, Capture, Acquire, SameOnDisk, Write, Add, NothingStaged,
       Commit, CommitDone, Push, PushDone, WriteFails, StagingFails, RevParseFails, PushFails, PostFails, Crash,
       books, vars
  <2>2. remote' >= remote
    <3>1. CASE \E t \in Threads : Run(t) \/ GoWrong(t)
      BY <3>1, Others
    <3>2. CASE ~\E t \in Threads : Run(t) \/ GoWrong(t)
      <4>1. remote' = remote
        BY <3>2 DEF Next, Reconfigure, Crash, vars
      <4>2. QED
        BY <1>0, <4>1
    <3>3. QED
      BY <3>1, <3>2
  <2>3. remote' \in Nat
    <3>1. RepoTypes'
      BY RepoStep
    <3>2. QED
      BY <3>1, LenProperties DEF RepoTypes
  <2>4. QED
    BY <1>0, <2>1, <2>2, <2>3
<1>3. QED
  BY <1>1, <1>2

-----------------------------------------------------------------------------
(* The invariant, and what follows from it                                 *)

LEMMA Inductive == IInv /\ [Next]_vars => IInv'
BY TypeParts, ThreadStep, RepoStep, BookStep, CarryingStep, HonestStep, TidyStep, RoomStep,
   DriftStep, MirroredStep DEF IInv

LEMMA Invariance == Spec => []IInv
<1>1. Init => IInv
  BY IInvInit
<1>2. IInv /\ [Next]_vars => IInv'
  BY Inductive
<1>3. QED
  BY <1>1, <1>2, PTL DEF Spec

\* The repository, the threads and the locks stay well typed: whatever two threads
\* do to the one repository, each lock has exactly the holder that is inside its
\* section, and the log has room for every commit under way.
THEOREM TypeCorrect == Spec => []TypeOK
<1>1. IInv => TypeOK
  BY DEF IInv
<1>2. QED
  BY <1>1, Invariance, PTL

\* "The file already matched on disk" may be reported as no change: the file on
\* disk is in HEAD, unless its device is being staged, or a file operation, a git
\* command or a process failed half way (gitrepo.py:80-95, 178-207).
THEOREM NoChangeIsCommitted == Spec => []DiskIsCommitted
<1>1. IInv => DiskIsCommitted
  <2> SUFFICES ASSUME IInv, NEW d \in Devices, disk[d] # Committed(d), d \notin broken
               PROVE  \E t \in Threads : Staging(t) /\ thread[t].dev = d
    BY DEF DiskIsCommitted
  <2>1. Tidy(d)
    BY DEF IInv
  <2>2. CASE disk[d] # index[d]
    BY <2>1, <2>2 DEF Tidy, Staging
  <2>3. CASE disk[d] = index[d]
    BY <2>1, <2>3 DEF Tidy, Staging
  <2>4. QED
    BY <2>2, <2>3
<1>2. QED
  BY <1>1, Invariance, PTL

\* No commit goes unreported: its drift job is posted, its run is still under way,
\* or the run or its post died with a fault.
THEOREM NoSilentCommit == Spec => []DriftIsPosted
<1>1. IInv => DriftIsPosted
  BY DEF IInv
<1>2. QED
  BY <1>1, Invariance, PTL

\* With a mirror configured, a drift job without a failure means that the commit
\* is on the mirror.
THEOREM SuccessReachedMirror == Spec => []WarningIsMirrored
<1>1. IInv => WarningIsMirrored
  <2>1. IInv => \A n \in 1..Len(log) : n \in Commits
    BY LogFacts, ConstantsAssumption DEF IInv, TypeOK, Commits
  <2>2. QED
    BY <2>1 DEF IInv, Mirrored, WarningIsMirrored
<1>2. QED
  BY <1>1, Invariance, PTL

\* Two exports at once never make each other's push fail: without a fault no run
\* ends with a push error (gitrepo.py:97-100).
THEOREM PushesDoNotCollide == Spec => []NoFalsePushError
<1>1. IInv => NoFalsePushError
  BY DEF IInv, Honest, NoFalsePushError
<1>2. QED
  BY <1>1, Invariance, PTL

\* A commit made for one device changes that device's file and no other, except
\* what an earlier failure left staged (gitrepo.py:91-95).
THEOREM CommitsAreOwn == Spec => CommitIsOwn
<1> DEFINE Own == \A t \in Threads, d \in Devices :
                    Len(log') > Len(log) /\ log'[Len(log')].tree[d] # Committed(d)
                       => d = log'[Len(log')].by \/ d \in broken
<1>1. IInv /\ [Next]_vars => [Own]_vars
  <2> SUFFICES ASSUME IInv, [Next]_vars, NEW s \in Threads, NEW d \in Devices, Len(log') > Len(log),
                      log'[Len(log')].tree[d] # Committed(d)
               PROVE  d = log'[Len(log')].by \/ d \in broken
    OBVIOUS
  <2>0. TypeOK /\ Len(log) \in Nat
    BY LogFacts DEF IInv
  <2>1. log' # log
    BY <2>0
  <2>2. PICK t \in Threads : Commit(t)
    BY <2>1 DEF Next, Run, GoWrong, Reconfigure, Capture, Acquire, SameOnDisk, Write, Add, NothingStaged,
       CommitDone, Push, PushDone, Report, WriteFails, StagingFails, RevParseFails, PushFails, PostFails, Crash,
       repo, vars
  <2>3. /\ thread[t].pc = "commit" /\ thread[t].dev \in Devices
        /\ log' = Append(log, [by |-> thread[t].dev, tree |-> index])
    BY <2>2 DEF Commit, IInv, Carrying
  <2>4. [by |-> thread[t].dev, tree |-> index] \in Entries
    BY <2>0, <2>3 DEF TypeOK, Entries, Trees
  <2>5. log'[Len(log')] = [by |-> thread[t].dev, tree |-> index]
    BY <2>0, <2>3, <2>4, Committing
  <2>6. index[d] # Committed(d)
    BY <2>5
  <2>7. CASE d \in broken
    BY <2>7
  <2>8. CASE d \notin broken
    <3>1. PICK u \in Threads : thread[u].pc = "commit" /\ thread[u].dev = d
      BY <2>6, <2>8 DEF IInv, Tidy
    <3>2. u = t
      BY <2>0, <2>3, <3>1, Exclusive DEF Staging
    <3>3. QED
      BY <2>5, <3>1, <3>2
  <2>9. QED
    BY <2>7, <2>8
<1>2. QED
  BY <1>1, Invariance, PTL DEF Spec, CommitIsOwn
=============================================================================
