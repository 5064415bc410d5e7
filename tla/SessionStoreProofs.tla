------------------------- MODULE SessionStoreProofs -------------------------
(***************************************************************************)
(* What SessionStore promises for every value of its constants: types, that *)
(* no durable change is forgotten, that a clean stop leaves the last       *)
(* Session on disk, that Snapshots only get newer, and that checkouts,     *)
(* Workspaces and their Terminals agree through operations and stops.      *)
(*                                                                         *)
(* A lemma about a step names the actions that need an argument of their   *)
(* own first; those that leave the conjunct alone follow together.         *)
(***************************************************************************)
EXTENDS SessionStore, TLAPS

(* Types, one lemma for each part of TypeOK.                               *)

\* Phases only follow each other.
LEMMA MainTypeStep ==
    ASSUME TypeOK, [Next]_vars
    PROVE  MainType'
<1>1. ASSUME NEW w \in Worktrees, CloseWorkspace(w) \/ SplitPane(w) PROVE MainType'
  BY <1>1
     DEF CloseWorkspace, SplitPane, TypeOK, MainType, main
<1>2. ASSUME NEW m \in Monitors, BeginReap(m) \/ FinishReap(m) PROVE MainType'
  BY <1>2
     DEF BeginReap, FinishReap, TypeOK, MainType, main
<1>3. ASSUME NEW c \in Clients, BeginCreate(c) \/ BeginRemove(c) \/ MakeCheckout(c) \/
             ApproveCreate(c) \/ CommitCreate(c) \/ UndoCreate(c) \/ ApproveRemove(c) \/
             RemoveCheckout(c) \/ CommitRemove(c) \/ RestoreRemoval(c) PROVE MainType'
  BY <1>3
     DEF BeginCreate, BeginRemove, MakeCheckout, ApproveCreate, CommitCreate, UndoCreate,
         ApproveRemove, RemoveCheckout, CommitRemove, RestoreRemoval, Job, Idle, TypeOK,
         MainType, main
<1>4. CASE StartEmpty \/ StartRestored \/ StartRejected \/ LocalLayout \/ Record \/ Take
           \/ Write \/ WriteFails \/ AfterWrite \/ AfterFailure \/ BeginStop \/
           LeaveLoop \/ Drained \/ Flush \/ Joined \/ Crash \/ UNCHANGED vars
  BY <1>4
     DEF StartEmpty, StartRestored, StartRejected, LocalLayout, Record, Take, Write,
         WriteFails, AfterWrite, AfterFailure, BeginStop, LeaveLoop, Drained, Flush,
         Joined, Crash, Begin, Empty, Valid, Recording, Idle, vars, TypeOK, MainType, main
<1> QED
  BY <1>1, <1>2, <1>3, <1>4
     DEF Next, Start, Changes, Operates, Works

\* Flags stay Boolean.
LEMMA FlagsTypeStep ==
    ASSUME TypeOK, [Next]_vars
    PROVE  FlagsType'
<1>1. ASSUME NEW w \in Worktrees, CloseWorkspace(w) \/ SplitPane(w) PROVE FlagsType'
  BY <1>1
     DEF CloseWorkspace, SplitPane, Change, Schedule, TypeOK, FlagsType, main, queue, disk
<1>2. ASSUME NEW m \in Monitors, BeginReap(m) \/ FinishReap(m) PROVE FlagsType'
  BY <1>2
     DEF BeginReap, FinishReap, MayRecord, Change, Schedule, TypeOK, FlagsType, main,
         queue, disk
<1>3. ASSUME NEW c \in Clients, BeginCreate(c) \/ BeginRemove(c) \/ MakeCheckout(c) \/
             ApproveCreate(c) \/ CommitCreate(c) \/ UndoCreate(c) \/ ApproveRemove(c) \/
             RemoveCheckout(c) \/ CommitRemove(c) \/ RestoreRemoval(c) PROVE FlagsType'
  BY <1>3
     DEF BeginCreate, BeginRemove, MakeCheckout, ApproveCreate, CommitCreate, UndoCreate,
         ApproveRemove, RemoveCheckout, CommitRemove, RestoreRemoval, Job, Idle, Change,
         Schedule, MayRecord, Restored, TypeOK, FlagsType, main, queue, disk
<1>4. CASE StartEmpty \/ StartRestored \/ StartRejected \/ LocalLayout \/ Record \/ Take
           \/ Write \/ WriteFails \/ AfterWrite \/ AfterFailure \/ BeginStop \/
           LeaveLoop \/ Drained \/ Flush \/ Joined \/ Crash \/ UNCHANGED vars
  BY ZenonT(60), <1>4
     DEF StartEmpty, StartRestored, StartRejected, LocalLayout, Record, Take, Write,
         WriteFails, AfterWrite, AfterFailure, BeginStop, LeaveLoop, Drained, Flush,
         Joined, Crash, Begin, Empty, Valid, SetAside, Change, Schedule, PutBack, Idle,
         vars, TypeOK, FlagsType, main, queue, disk
<1> QED
  BY <1>1, <1>2, <1>3, <1>4
     DEF Next, Start, Changes, Operates, Works

\* Jobs and reaping monitors.
LEMMA JobsTypeStep ==
    ASSUME TypeOK, [Next]_vars
    PROVE  JobsType'
<1>1. ASSUME NEW c \in Clients, BeginCreate(c) PROVE JobsType'
  BY <1>1
     DEF BeginCreate, Job, Idle, TypeOK, JobsType, Jobs, Creating, Removing, SaveType,
         Snapshots, live, queue, worker, disk
<1>2. ASSUME NEW c \in Clients, BeginRemove(c) PROVE JobsType'
  BY <1>2
     DEF BeginRemove, Job, Idle, TypeOK, JobsType, Jobs, Creating, Removing, SaveType,
         Snapshots, live, queue, worker, disk
<1>3. ASSUME NEW w \in Worktrees, CloseWorkspace(w) \/ SplitPane(w) PROVE JobsType'
  BY <1>3
     DEF CloseWorkspace, SplitPane, Change, Changed, Schedule, TypeOK, JobsType, Jobs,
         Creating, Removing, jobs, queue, worker, disk
<1>4. ASSUME NEW m \in Monitors, BeginReap(m) \/ FinishReap(m) PROVE JobsType'
  BY <1>4
     DEF BeginReap, FinishReap, MayRecord, Change, Changed, Schedule, TypeOK, JobsType,
         Jobs, Creating, Removing, live, queue, worker, disk
<1>5. ASSUME NEW c \in Clients, MakeCheckout(c) \/ ApproveCreate(c) \/ CommitCreate(c)
             \/ UndoCreate(c) \/ ApproveRemove(c) \/ RemoveCheckout(c) \/
             CommitRemove(c) \/ RestoreRemoval(c) PROVE JobsType'
  BY <1>5
     DEF MakeCheckout, ApproveCreate, CommitCreate, UndoCreate, ApproveRemove,
         RemoveCheckout, CommitRemove, RestoreRemoval, At, Go, Finish, Job, Idle, Change,
         Changed, Schedule, MayRecord, Restored, TypeOK, JobsType, Jobs, Creating,
         Removing, live, queue, worker, disk
<1>6. CASE StartEmpty \/ StartRestored \/ StartRejected \/ LocalLayout \/ Record \/ Take
           \/ Write \/ WriteFails \/ AfterWrite \/ AfterFailure \/ BeginStop \/
           LeaveLoop \/ Drained \/ Flush \/ Joined \/ Crash \/ UNCHANGED vars
  BY <1>6
     DEF StartEmpty, StartRestored, StartRejected, LocalLayout, Record, Take, Write,
         WriteFails, AfterWrite, AfterFailure, BeginStop, LeaveLoop, Drained, Flush,
         Joined, Crash, Begin, Empty, Valid, Change, Changed, Schedule, PutBack, Retries,
         NoOperations, Idle, vars, TypeOK, JobsType, Jobs, Creating, Removing, jobs, live,
         queue, worker, disk
<1> QED
  BY <1>1, <1>2, <1>3, <1>4, <1>5, <1>6
     DEF Next, Start, Changes, Operates, Works

\* Snapshots, wherever they are.
LEMMA SaveTypeStep ==
    ASSUME TypeOK, [Next]_vars
    PROVE  SaveType'
<1>1. CASE StartRestored
  BY <1>1
     DEF StartRestored, Begin, Valid, TypeOK, SaveType, JobsType, Jobs, Snapshots, jobs
<1>2. ASSUME NEW c \in Clients, CommitCreate(c) PROVE SaveType'
  BY <1>2
     DEF CommitCreate, At, Go, Finish, Job, Idle, Change, Changed, Schedule, TypeOK,
         SaveType, JobsType, Jobs, Snapshots, queue, worker, disk
<1>3. ASSUME NEW w \in Worktrees, CloseWorkspace(w) \/ SplitPane(w) PROVE SaveType'
  BY <1>3
     DEF CloseWorkspace, SplitPane, Change, Changed, Schedule, TypeOK, SaveType,
         Snapshots, jobs, queue, worker, disk
<1>4. ASSUME NEW m \in Monitors, BeginReap(m) \/ FinishReap(m) PROVE SaveType'
  BY <1>4
     DEF BeginReap, FinishReap, MayRecord, Change, Changed, Schedule, TypeOK, SaveType,
         Snapshots, live, queue, worker, disk
<1>5. ASSUME NEW c \in Clients, BeginCreate(c) \/ BeginRemove(c) \/ MakeCheckout(c) \/
             ApproveCreate(c) \/ UndoCreate(c) \/ ApproveRemove(c) \/ RemoveCheckout(c)
             \/ CommitRemove(c) \/ RestoreRemoval(c) PROVE SaveType'
  BY <1>5
     DEF BeginCreate, BeginRemove, MakeCheckout, ApproveCreate, UndoCreate, ApproveRemove,
         RemoveCheckout, CommitRemove, RestoreRemoval, Job, Idle, At, Go, Finish,
         MayRecord, Change, Changed, Schedule, Restored, TypeOK, SaveType, Snapshots,
         live, queue, worker, disk
<1>6. CASE StartEmpty \/ StartRejected \/ LocalLayout \/ Record \/ Take \/ Write \/
           WriteFails \/ AfterWrite \/ AfterFailure \/ BeginStop \/ LeaveLoop \/ Drained
           \/ Flush \/ Joined \/ Crash \/ UNCHANGED vars
  BY <1>6
     DEF StartEmpty, StartRejected, LocalLayout, Record, Take, Write, WriteFails,
         AfterWrite, AfterFailure, BeginStop, LeaveLoop, Drained, Flush, Joined, Crash,
         Begin, Empty, Change, Changed, Schedule, PutBack, Retries, NoOperations, Idle,
         vars, TypeOK, SaveType, Snapshots, jobs, live, queue, worker, disk
<1> QED
  BY <1>1, <1>2, <1>3, <1>4, <1>5, <1>6
     DEF Next, Start, Changes, Operates, Works

\* Checkouts and Terminals are of Worktrees.
LEMMA TreesTypeStep ==
    ASSUME TypeOK, [Next]_vars
    PROVE  TreesType'
<1>1. CASE StartRestored
  BY <1>1
     DEF StartRestored, Begin, Valid, TypeOK, TreesType, JobsType, Jobs, SaveType,
         Snapshots, jobs, trees
<1>2. ASSUME NEW c \in Clients, BeginCreate(c) PROVE TreesType'
  BY <1>2
     DEF BeginCreate, Job, Idle, TypeOK, TreesType, JobsType, Jobs, SaveType, Snapshots,
         live, queue, worker, disk
<1>3. ASSUME NEW c \in Clients, BeginRemove(c) PROVE TreesType'
  BY <1>3
     DEF BeginRemove, Job, Idle, TypeOK, TreesType, JobsType, Jobs, SaveType, Snapshots,
         live, queue, worker, disk, trees
<1>4. ASSUME NEW c \in Clients, MakeCheckout(c) PROVE TreesType'
  BY <1>4
     DEF MakeCheckout, At, Go, Finish, Job, Idle, TypeOK, TreesType, JobsType, Jobs,
         SaveType, Snapshots, live, queue, worker, disk
<1>5. ASSUME NEW c \in Clients, CommitCreate(c) PROVE TreesType'
  BY <1>5
     DEF CommitCreate, At, Go, Finish, Job, Idle, Change, Changed, Schedule, TypeOK,
         TreesType, JobsType, Jobs, SaveType, Snapshots, queue, worker, disk, trees
<1>6. ASSUME NEW c \in Clients, UndoCreate(c) PROVE TreesType'
  BY <1>6
     DEF UndoCreate, At, Finish, Idle, TypeOK, TreesType, JobsType, Jobs, SaveType,
         Snapshots, live, queue, worker, disk
<1>7. ASSUME NEW c \in Clients, RestoreRemoval(c) PROVE TreesType'
  BY <1>7
     DEF RestoreRemoval, At, Finish, Idle, MayRecord, Change, Changed, Schedule, Restored,
         TypeOK, TreesType, JobsType, Jobs, SaveType, Snapshots, queue, worker, disk,
         trees
<1>8. ASSUME NEW c \in Clients, RemoveCheckout(c) PROVE TreesType'
  BY <1>8
     DEF RemoveCheckout, At, Go, Job, Idle, TypeOK, TreesType, JobsType, Jobs, SaveType,
         Snapshots, live, queue, worker, disk
<1>9. ASSUME NEW w \in Worktrees, CloseWorkspace(w) \/ SplitPane(w) PROVE TreesType'
  BY <1>9
     DEF CloseWorkspace, SplitPane, Change, Changed, Schedule, TypeOK, TreesType,
         JobsType, Jobs, SaveType, Snapshots, jobs, queue, worker, disk, trees
<1>10. ASSUME NEW m \in Monitors, BeginReap(m) \/ FinishReap(m) PROVE TreesType'
  BY <1>10
     DEF BeginReap, FinishReap, MayRecord, Change, Changed, Schedule, TypeOK, TreesType,
         JobsType, Jobs, SaveType, Snapshots, live, queue, worker, disk, trees
<1>11. ASSUME NEW c \in Clients, ApproveCreate(c) \/ ApproveRemove(c) \/ CommitRemove(c)
             PROVE TreesType'
  BY <1>11
     DEF ApproveCreate, ApproveRemove, CommitRemove, At, Go, Finish, Job, Idle, MayRecord,
         Change, Changed, Schedule, TypeOK, TreesType, JobsType, Jobs, SaveType,
         Snapshots, live, queue, worker, disk, trees
<1>12. CASE StartEmpty \/ StartRejected \/ LocalLayout \/ Record \/ Take \/ Write \/
           WriteFails \/ AfterWrite \/ AfterFailure \/ BeginStop \/ LeaveLoop \/ Drained
           \/ Flush \/ Joined \/ Crash \/ UNCHANGED vars
  BY <1>12
     DEF StartEmpty, StartRejected, LocalLayout, Record, Take, Write, WriteFails,
         AfterWrite, AfterFailure, BeginStop, LeaveLoop, Drained, Flush, Joined, Crash,
         Begin, Empty, Change, Changed, Schedule, PutBack, Retries, NoOperations, Idle,
         vars, TypeOK, TreesType, JobsType, Jobs, SaveType, Snapshots, jobs, live, queue,
         worker, disk, trees
<1> QED
  BY <1>1, <1>2, <1>3, <1>4, <1>5, <1>6, <1>7, <1>8, <1>9, <1>10, <1>11, <1>12
     DEF Next, Start, Changes, Operates, Works

\* Only Take picks a Snapshot up, and every other step of the worker drops it.
LEMMA HoldingStep ==
    ASSUME TypeOK, [Next]_vars
    PROVE  Holding'
<1>1. ASSUME NEW w \in Worktrees, CloseWorkspace(w) \/ SplitPane(w) PROVE Holding'
  BY <1>1
     DEF CloseWorkspace, SplitPane, TypeOK, Holding, worker
<1>2. ASSUME NEW m \in Monitors, BeginReap(m) \/ FinishReap(m) PROVE Holding'
  BY <1>2
     DEF BeginReap, FinishReap, TypeOK, Holding, worker
<1>3. ASSUME NEW c \in Clients, BeginCreate(c) \/ BeginRemove(c) \/ MakeCheckout(c) \/
             ApproveCreate(c) \/ CommitCreate(c) \/ UndoCreate(c) \/ ApproveRemove(c) \/
             RemoveCheckout(c) \/ CommitRemove(c) \/ RestoreRemoval(c) PROVE Holding'
  BY <1>3
     DEF BeginCreate, BeginRemove, MakeCheckout, ApproveCreate, CommitCreate, UndoCreate,
         ApproveRemove, RemoveCheckout, CommitRemove, RestoreRemoval, Job, Idle, TypeOK,
         Holding, worker
<1>4. CASE StartEmpty \/ StartRestored \/ StartRejected \/ LocalLayout \/ Record \/ Take
           \/ Write \/ WriteFails \/ AfterWrite \/ AfterFailure \/ BeginStop \/
           LeaveLoop \/ Drained \/ Flush \/ Joined \/ Crash \/ UNCHANGED vars
  BY <1>4
     DEF StartEmpty, StartRestored, StartRejected, LocalLayout, Record, Take, Write,
         WriteFails, AfterWrite, AfterFailure, BeginStop, LeaveLoop, Drained, Flush,
         Joined, Crash, Begin, Empty, Valid, PutBack, Idle, vars, TypeOK, Holding, worker
<1> QED
  BY <1>1, <1>2, <1>3, <1>4
     DEF Next, Start, Changes, Operates, Works

\* Whoever queues a Snapshot sets the deadline; Take clears both.
LEMMA ArmedStep ==
    ASSUME TypeOK, [Next]_vars
    PROVE  Armed'
<1>1. CASE StartRestored
  BY <1>1
     DEF StartRestored, Begin, Valid, TypeOK, Armed, Holding, FlagsType
<1>2. CASE Take
  BY <1>2
     DEF Take, TypeOK, Armed, Holding, FlagsType, main, disk
<1>3. CASE AfterFailure
  BY <1>3
     DEF AfterFailure, PutBack, Retries, TypeOK, Armed, Holding, FlagsType, main, disk
<1>4. CASE Flush
  BY <1>4
     DEF Flush, TypeOK, Armed, Holding, FlagsType, worker, disk
<1>5. ASSUME NEW w \in Worktrees, CloseWorkspace(w) \/ SplitPane(w) PROVE Armed'
  BY <1>5
     DEF CloseWorkspace, SplitPane, Change, Schedule, TypeOK, Armed, Holding, FlagsType,
         main, queue, worker, disk
<1>6. ASSUME NEW m \in Monitors, BeginReap(m) \/ FinishReap(m) PROVE Armed'
  BY <1>6
     DEF BeginReap, FinishReap, MayRecord, Change, Schedule, TypeOK, Armed, Holding,
         FlagsType, main, queue, worker, disk
<1>7. ASSUME NEW c \in Clients, BeginCreate(c) \/ BeginRemove(c) \/ MakeCheckout(c) \/
             ApproveCreate(c) \/ CommitCreate(c) \/ UndoCreate(c) \/ ApproveRemove(c) \/
             RemoveCheckout(c) \/ CommitRemove(c) \/ RestoreRemoval(c) PROVE Armed'
  BY <1>7
     DEF BeginCreate, BeginRemove, MakeCheckout, ApproveCreate, CommitCreate, UndoCreate,
         ApproveRemove, RemoveCheckout, CommitRemove, RestoreRemoval, Job, Idle, Change,
         Schedule, MayRecord, Restored, TypeOK, Armed, Holding, FlagsType, main, queue,
         worker, disk
<1>8. CASE StartEmpty \/ StartRejected \/ LocalLayout \/ Record \/ Write \/ WriteFails
           \/ AfterWrite \/ BeginStop \/ LeaveLoop \/ Drained \/ Joined \/ Crash \/
           UNCHANGED vars
  BY <1>8
     DEF StartEmpty, StartRejected, LocalLayout, Record, Write, WriteFails, AfterWrite,
         BeginStop, LeaveLoop, Drained, Joined, Crash, Begin, Empty, SetAside, Change,
         Schedule, Idle, vars, TypeOK, Armed, Holding, FlagsType, main, queue, worker,
         disk
<1> QED
  BY <1>1, <1>2, <1>3, <1>4, <1>5, <1>6, <1>7, <1>8
     DEF Next, Start, Changes, Operates, Works

LEMMA TypeStep == TypeOK /\ [Next]_vars => TypeOK'
  BY MainTypeStep, FlagsTypeStep, JobsTypeStep, SaveTypeStep, TreesTypeStep, HoldingStep,
     ArmedStep DEF TypeOK

LEMMA TypeInit == Init => TypeOK
<1> SUFFICES ASSUME Init PROVE TypeOK
  OBVIOUS
<1>1. MainType /\ TreesType /\ Holding /\ Armed
  BY DEF Init, MainType, TreesType, Holding, Armed
<1>2. FlagsType
  BY DEF Init, FlagsType
<1>3. JobsType /\ SaveType
  BY DEF Init, JobsType, Jobs, SaveType, Snapshots, Empty
<1> QED
  BY <1>1, <1>2, <1>3 DEF TypeOK

(* Every variable has its type, the worker holds a Snapshot exactly while it *)
(* writes one, and a deadline is set exactly while one waits               *)
(* (persistence.rs:278).                                                   *)
THEOREM TypeCorrect == Spec => []TypeOK
  BY TypeInit, TypeStep, PTL DEF Spec

-----------------------------------------------------------------------------
(* The Snapshot worker.  Between two steps of a stop the newest Session    *)
(* is still on its way or on disk, nobody changes it once the operations   *)
(* have drained, and a worker that ends by itself leaves nothing behind.   *)
Newest ==
    \/ pending = {session}
    \/ pending = {} /\ writing = {session}
    \/ pending = {} /\ writing = {} /\ Durable(session)

AtMostOne(S) == \A s, t \in S : s = t

\* No operation or reaping monitor is left once the drain is over.
Drains == phase \in {"down", "closing", "flushing", "stopped"} => NoOperations

\* The worker runs until it is told to stop, which only a flush does, and the
\* Server stops after it.
WorkerLives ==
    /\ ending <=> phase \in {"flushing", "stopped"}
    /\ phase \in {"serving", "draining", "closing"} => stage \notin {"ended", "failed"}
    /\ phase = "stopped" => stage \in {"ended", "failed"}

\* Told to stop, the worker ends with nothing left, unless it gave up.
EndsEmpty ==
    /\ phase = "flushing" => stage = "failed" \/ Newest
    /\ phase \in {"flushing", "stopped"} /\ stage = "ended" =>
         pending = {} /\ writing = {} /\ Durable(session)

\* At most one Snapshot at each place, and none under the path of a file that
\* cannot be restored.
Places ==
    /\ AtMostOne(file) /\ AtMostOne(pending) /\ AtMostOne(writing)
    /\ foreign => file = {}

SaveInv ==
    TypeOK /\ UnsavedIsQueued /\ Drains /\ WorkerLives /\ EndsEmpty /\ Places

\* A change replaces what waits, and a failed write returns only to an empty queue.
LEMMA UnsavedStep ==
    ASSUME SaveInv, [Next]_vars
    PROVE  UnsavedIsQueued'
<1>1. CASE StartRestored
  BY <1>1
     DEF StartRestored, Begin, Valid, SaveInv, TypeOK, UnsavedIsQueued, Durable, Places,
         AtMostOne, WorkerLives, Holding, SaveType, FlagsType
<1>2. CASE Take
  BY <1>2
     DEF Take, SaveInv, TypeOK, UnsavedIsQueued, Durable, Places, AtMostOne, WorkerLives,
         Holding, SaveType, FlagsType, main, live, disk
<1>3. CASE Write
  BY <1>3
     DEF Write, SaveInv, TypeOK, UnsavedIsQueued, Durable, Places, AtMostOne, WorkerLives,
         Holding, SaveType, FlagsType, main, live, queue
<1>4. CASE AfterWrite
  BY <1>4
     DEF AfterWrite, SaveInv, TypeOK, UnsavedIsQueued, Durable, Places, AtMostOne,
         WorkerLives, Holding, SaveType, FlagsType, main, live, queue, disk
<1>5. CASE AfterFailure
  BY <1>5
     DEF AfterFailure, PutBack, Retries, SaveInv, TypeOK, UnsavedIsQueued, Durable,
         Places, AtMostOne, WorkerLives, Holding, SaveType, FlagsType, main, live, disk
<1>6. CASE Flush
  BY <1>6
     DEF Flush, Changed, SaveInv, TypeOK, UnsavedIsQueued, Durable, Places, AtMostOne,
         WorkerLives, Holding, SaveType, FlagsType, worker, disk
<1>7. CASE Joined
  BY <1>7
     DEF Joined, SaveInv, TypeOK, UnsavedIsQueued, Durable, Places, AtMostOne,
         WorkerLives, Holding, SaveType, FlagsType, live, queue, worker, disk
<1>8. ASSUME NEW w \in Worktrees, CloseWorkspace(w) \/ SplitPane(w) PROVE
             UnsavedIsQueued'
  BY <1>8
     DEF CloseWorkspace, SplitPane, Change, Changed, Schedule, SaveInv, TypeOK,
         UnsavedIsQueued, Durable, Places, AtMostOne, WorkerLives, Holding, SaveType,
         FlagsType, main, queue, worker, disk
<1>9. ASSUME NEW m \in Monitors, BeginReap(m) \/ FinishReap(m) PROVE UnsavedIsQueued'
  BY <1>9
     DEF BeginReap, FinishReap, MayRecord, Change, Changed, Schedule, SaveInv, TypeOK,
         UnsavedIsQueued, Durable, Places, AtMostOne, WorkerLives, Holding, SaveType,
         FlagsType, main, live, queue, worker, disk
<1>10. ASSUME NEW c \in Clients, BeginCreate(c) \/ BeginRemove(c) \/ MakeCheckout(c) \/
             ApproveCreate(c) \/ CommitCreate(c) \/ UndoCreate(c) \/ ApproveRemove(c) \/
             RemoveCheckout(c) \/ CommitRemove(c) \/ RestoreRemoval(c) PROVE
             UnsavedIsQueued'
  BY <1>10
     DEF BeginCreate, BeginRemove, MakeCheckout, ApproveCreate, CommitCreate, UndoCreate,
         ApproveRemove, RemoveCheckout, CommitRemove, RestoreRemoval, Job, Idle, Change,
         Changed, Schedule, MayRecord, Restored, SaveInv, TypeOK, UnsavedIsQueued,
         Durable, Places, AtMostOne, WorkerLives, Holding, SaveType, FlagsType, main,
         live, queue, worker, disk
<1>11. CASE StartEmpty \/ StartRejected \/ LocalLayout \/ Record \/ WriteFails \/
           BeginStop \/ LeaveLoop \/ Drained \/ Crash \/ UNCHANGED vars
  BY <1>11
     DEF StartEmpty, StartRejected, LocalLayout, Record, WriteFails, BeginStop, LeaveLoop,
         Drained, Crash, Begin, Empty, SetAside, Change, Changed, Schedule, Recording,
         Idle, vars, SaveInv, TypeOK, UnsavedIsQueued, Durable, Places, AtMostOne,
         WorkerLives, Holding, SaveType, FlagsType, main, live, queue, worker, disk
<1> QED
  BY <1>1, <1>2, <1>3, <1>4, <1>5, <1>6, <1>7, <1>8, <1>9, <1>10, <1>11
     DEF Next, Start, Changes, Operates, Works

\* Operations begin while the Server serves, and draining waits for them.
LEMMA DrainsStep ==
    ASSUME Drains, TypeOK, [Next]_vars
    PROVE  Drains'
<1>1. CASE Drained
  BY <1>1
     DEF Drained, NoOperations, TypeOK, Drains, JobsType, jobs
<1>2. ASSUME NEW w \in Worktrees, CloseWorkspace(w) \/ SplitPane(w) PROVE Drains'
  BY <1>2
     DEF CloseWorkspace, SplitPane, TypeOK, Drains, NoOperations, JobsType, main, jobs
<1>3. ASSUME NEW m \in Monitors, BeginReap(m) \/ FinishReap(m) PROVE Drains'
  BY <1>3
     DEF BeginReap, FinishReap, TypeOK, Drains, NoOperations, JobsType, main
<1>4. ASSUME NEW c \in Clients, BeginCreate(c) \/ BeginRemove(c) \/ MakeCheckout(c) \/
             ApproveCreate(c) \/ CommitCreate(c) \/ UndoCreate(c) \/ ApproveRemove(c) \/
             RemoveCheckout(c) \/ CommitRemove(c) \/ RestoreRemoval(c) PROVE Drains'
  BY <1>4
     DEF BeginCreate, BeginRemove, MakeCheckout, ApproveCreate, CommitCreate, UndoCreate,
         ApproveRemove, RemoveCheckout, CommitRemove, RestoreRemoval, Job, Idle, At, Go,
         Finish, Restored, TypeOK, Drains, NoOperations, JobsType, main
<1>5. CASE StartEmpty \/ StartRestored \/ StartRejected \/ LocalLayout \/ Record \/ Take
           \/ Write \/ WriteFails \/ AfterWrite \/ AfterFailure \/ BeginStop \/
           LeaveLoop \/ Flush \/ Joined \/ Crash \/ UNCHANGED vars
  BY <1>5
     DEF StartEmpty, StartRestored, StartRejected, LocalLayout, Record, Take, Write,
         WriteFails, AfterWrite, AfterFailure, BeginStop, LeaveLoop, Flush, Joined, Crash,
         Begin, Empty, Valid, Recording, Idle, vars, TypeOK, Drains, NoOperations,
         JobsType, main, jobs
<1> QED
  BY <1>1, <1>2, <1>3, <1>4, <1>5
     DEF Next, Start, Changes, Operates, Works

\* Before the stop a deadline comes with a Snapshot, so the worker never ends.
LEMMA WorkerLivesStep ==
    ASSUME SaveInv, [Next]_vars
    PROVE  WorkerLives'
<1>1. CASE Take
  BY <1>1
     DEF Take, SaveInv, TypeOK, WorkerLives, Armed, FlagsType, MainType, main, disk
<1>2. CASE AfterWrite
  BY <1>2
     DEF AfterWrite, SaveInv, TypeOK, WorkerLives, Armed, FlagsType, MainType, main,
         queue, disk
<1>3. CASE AfterFailure
  BY <1>3
     DEF AfterFailure, PutBack, Retries, SaveInv, TypeOK, WorkerLives, Armed, FlagsType,
         MainType, main, disk
<1>4. CASE Joined
  BY <1>4
     DEF Joined, SaveInv, TypeOK, WorkerLives, Armed, FlagsType, MainType, queue, worker,
         disk
<1>5. ASSUME NEW w \in Worktrees, CloseWorkspace(w) \/ SplitPane(w) PROVE WorkerLives'
  BY <1>5
     DEF CloseWorkspace, SplitPane, Change, Schedule, SaveInv, TypeOK, WorkerLives, Armed,
         FlagsType, MainType, main, queue, worker, disk
<1>6. ASSUME NEW m \in Monitors, BeginReap(m) \/ FinishReap(m) PROVE WorkerLives'
  BY <1>6
     DEF BeginReap, FinishReap, MayRecord, Change, Schedule, SaveInv, TypeOK, WorkerLives,
         Armed, FlagsType, MainType, main, queue, worker, disk
<1>7. ASSUME NEW c \in Clients, BeginCreate(c) \/ BeginRemove(c) \/ MakeCheckout(c) \/
             ApproveCreate(c) \/ CommitCreate(c) \/ UndoCreate(c) \/ ApproveRemove(c) \/
             RemoveCheckout(c) \/ CommitRemove(c) \/ RestoreRemoval(c) PROVE
             WorkerLives'
  BY <1>7
     DEF BeginCreate, BeginRemove, MakeCheckout, ApproveCreate, CommitCreate, UndoCreate,
         ApproveRemove, RemoveCheckout, CommitRemove, RestoreRemoval, Job, Idle, Change,
         Schedule, MayRecord, Restored, SaveInv, TypeOK, WorkerLives, Armed, FlagsType,
         MainType, main, queue, worker, disk
<1>8. CASE StartEmpty \/ StartRestored \/ StartRejected \/ LocalLayout \/ Record \/
           Write \/ WriteFails \/ BeginStop \/ LeaveLoop \/ Drained \/ Flush \/ Crash \/
           UNCHANGED vars
  BY <1>8
     DEF StartEmpty, StartRestored, StartRejected, LocalLayout, Record, Write, WriteFails,
         BeginStop, LeaveLoop, Drained, Flush, Crash, Begin, Empty, Valid, SetAside,
         Change, Schedule, Recording, Idle, vars, SaveInv, TypeOK, WorkerLives, Armed,
         FlagsType, MainType, main, queue, worker, disk
<1> QED
  BY <1>1, <1>2, <1>3, <1>4, <1>5, <1>6, <1>7, <1>8
     DEF Next, Start, Changes, Operates, Works

\* After the drain no change is made, so the worker catches up or gives up.
LEMMA EndsEmptyStep ==
    ASSUME SaveInv, [Next]_vars
    PROVE  EndsEmpty'
<1>1. CASE Take
  BY <1>1
     DEF Take, SaveInv, TypeOK, EndsEmpty, WorkerLives, UnsavedIsQueued, Newest, Durable,
         Drains, NoOperations, Holding, FlagsType, MainType, main, jobs, live, disk
<1>2. CASE Write
  BY <1>2
     DEF Write, SaveInv, TypeOK, EndsEmpty, WorkerLives, UnsavedIsQueued, Newest, Durable,
         Drains, NoOperations, Holding, FlagsType, MainType, main, jobs, live, queue
<1>3. CASE AfterWrite
  BY <1>3
     DEF AfterWrite, SaveInv, TypeOK, EndsEmpty, WorkerLives, UnsavedIsQueued, Newest,
         Durable, Drains, NoOperations, Holding, FlagsType, MainType, main, jobs, live,
         queue, disk
<1>4. CASE AfterFailure
  BY <1>4
     DEF AfterFailure, PutBack, Retries, SaveInv, TypeOK, EndsEmpty, WorkerLives,
         UnsavedIsQueued, Newest, Durable, Drains, NoOperations, Holding, FlagsType,
         MainType, main, jobs, live, disk
<1>5. CASE Flush
  BY <1>5
     DEF Flush, Changed, SaveInv, TypeOK, EndsEmpty, WorkerLives, UnsavedIsQueued, Newest,
         Durable, Drains, NoOperations, Holding, FlagsType, MainType, jobs, worker, disk
<1>6. CASE Joined
  BY <1>6
     DEF Joined, SaveInv, TypeOK, EndsEmpty, WorkerLives, UnsavedIsQueued, Newest,
         Durable, Drains, NoOperations, Holding, FlagsType, MainType, jobs, live, queue,
         worker, disk
<1>7. ASSUME NEW w \in Worktrees, CloseWorkspace(w) \/ SplitPane(w) PROVE EndsEmpty'
  BY <1>7
     DEF CloseWorkspace, SplitPane, Change, Changed, Schedule, SaveInv, TypeOK, EndsEmpty,
         WorkerLives, UnsavedIsQueued, Newest, Durable, Drains, NoOperations, Holding,
         FlagsType, MainType, main, jobs, queue, worker, disk
<1>8. ASSUME NEW m \in Monitors, BeginReap(m) \/ FinishReap(m) PROVE EndsEmpty'
  BY <1>8
     DEF BeginReap, FinishReap, MayRecord, Change, Changed, Schedule, SaveInv, TypeOK,
         EndsEmpty, WorkerLives, UnsavedIsQueued, Newest, Durable, Drains, NoOperations,
         Holding, FlagsType, MainType, main, live, queue, worker, disk
<1>9. ASSUME NEW c \in Clients, BeginCreate(c) \/ BeginRemove(c) \/ MakeCheckout(c) \/
             ApproveCreate(c) \/ CommitCreate(c) \/ UndoCreate(c) \/ ApproveRemove(c) \/
             RemoveCheckout(c) \/ CommitRemove(c) \/ RestoreRemoval(c) PROVE EndsEmpty'
  BY <1>9
     DEF BeginCreate, BeginRemove, MakeCheckout, ApproveCreate, CommitCreate, UndoCreate,
         ApproveRemove, RemoveCheckout, CommitRemove, RestoreRemoval, Job, Idle, At, Go,
         Finish, Change, Changed, Schedule, MayRecord, Restored, SaveInv, TypeOK,
         EndsEmpty, WorkerLives, UnsavedIsQueued, Newest, Durable, Drains, NoOperations,
         Holding, FlagsType, MainType, main, live, queue, worker, disk
<1>10. CASE StartEmpty \/ StartRestored \/ StartRejected \/ LocalLayout \/ Record \/
           WriteFails \/ BeginStop \/ LeaveLoop \/ Drained \/ Crash \/ UNCHANGED vars
  BY <1>10
     DEF StartEmpty, StartRestored, StartRejected, LocalLayout, Record, WriteFails,
         BeginStop, LeaveLoop, Drained, Crash, Begin, Empty, Valid, SetAside, Change,
         Changed, Schedule, Recording, NoOperations, Idle, vars, SaveInv, TypeOK,
         EndsEmpty, WorkerLives, UnsavedIsQueued, Newest, Durable, Drains, Holding,
         FlagsType, MainType, main, jobs, live, queue, worker, disk
<1> QED
  BY <1>1, <1>2, <1>3, <1>4, <1>5, <1>6, <1>7, <1>8, <1>9, <1>10
     DEF Next, Start, Changes, Operates, Works

\* Every queue is replaced, never extended.
LEMMA PlacesStep ==
    ASSUME SaveInv, [Next]_vars
    PROVE  Places'
<1>1. CASE StartRestored
  BY <1>1
     DEF StartRestored, Begin, Valid, SaveInv, TypeOK, Places, AtMostOne, FlagsType
<1>2. CASE LocalLayout
  BY <1>2
     DEF LocalLayout, Change, Schedule, SaveInv, TypeOK, Places, AtMostOne, FlagsType,
         main, queue, worker, disk
<1>3. CASE Record
  BY <1>3
     DEF Record, Change, Schedule, SaveInv, TypeOK, Places, AtMostOne, FlagsType, main,
         queue, worker, disk
<1>4. ASSUME NEW w \in Worktrees, CloseWorkspace(w) PROVE Places'
  BY <1>4
     DEF CloseWorkspace, Change, Schedule, SaveInv, TypeOK, Places, AtMostOne, FlagsType,
         main, queue, worker, disk
<1>5. ASSUME NEW w \in Worktrees, SplitPane(w) PROVE Places'
  BY <1>5
     DEF SplitPane, Change, Schedule, SaveInv, TypeOK, Places, AtMostOne, FlagsType, main,
         queue, worker, disk
<1>6. ASSUME NEW m \in Monitors, FinishReap(m) PROVE Places'
  BY <1>6
     DEF FinishReap, MayRecord, Change, Schedule, SaveInv, TypeOK, Places, AtMostOne,
         FlagsType, main, queue, worker, disk
<1>7. ASSUME NEW c \in Clients, CommitCreate(c) PROVE Places'
  BY <1>7
     DEF CommitCreate, Change, Schedule, SaveInv, TypeOK, Places, AtMostOne, FlagsType,
         main, queue, worker, disk
<1>8. ASSUME NEW c \in Clients, ApproveRemove(c) PROVE Places'
  BY <1>8
     DEF ApproveRemove, MayRecord, Change, Schedule, SaveInv, TypeOK, Places, AtMostOne,
         FlagsType, main, queue, worker, disk
<1>9. ASSUME NEW c \in Clients, CommitRemove(c) PROVE Places'
  BY <1>9
     DEF CommitRemove, Change, Schedule, SaveInv, TypeOK, Places, AtMostOne, FlagsType,
         main, queue, worker, disk
<1>10. ASSUME NEW c \in Clients, RestoreRemoval(c) PROVE Places'
  BY <1>10
     DEF RestoreRemoval, MayRecord, Change, Schedule, Restored, SaveInv, TypeOK, Places,
         AtMostOne, FlagsType, main, queue, worker, disk
<1>11. CASE Take
  BY <1>11
     DEF Take, SaveInv, TypeOK, Places, AtMostOne, FlagsType, main, disk
<1>12. CASE Write
  BY <1>12
     DEF Write, SaveInv, TypeOK, Places, AtMostOne, FlagsType, main, queue
<1>13. CASE AfterFailure
  BY <1>13
     DEF AfterFailure, PutBack, Retries, SaveInv, TypeOK, Places, AtMostOne, FlagsType,
         main, disk
<1>14. CASE Flush
  BY <1>14
     DEF Flush, SaveInv, TypeOK, Places, AtMostOne, FlagsType, worker, disk
<1>15. ASSUME NEW m \in Monitors, BeginReap(m) PROVE Places'
  BY <1>15
     DEF BeginReap, SaveInv, TypeOK, Places, AtMostOne, FlagsType, main, queue, worker,
         disk
<1>16. ASSUME NEW c \in Clients, BeginCreate(c) \/ BeginRemove(c) \/ MakeCheckout(c) \/
             ApproveCreate(c) \/ UndoCreate(c) \/ RemoveCheckout(c) PROVE Places'
  BY <1>16
     DEF BeginCreate, BeginRemove, MakeCheckout, ApproveCreate, UndoCreate,
         RemoveCheckout, Job, Idle, SaveInv, TypeOK, Places, AtMostOne, FlagsType, main,
         queue, worker, disk
<1>17. CASE StartEmpty \/ StartRejected \/ WriteFails \/ AfterWrite \/ BeginStop \/
           LeaveLoop \/ Drained \/ Joined \/ Crash \/ UNCHANGED vars
  BY <1>17
     DEF StartEmpty, StartRejected, WriteFails, AfterWrite, BeginStop, LeaveLoop, Drained,
         Joined, Crash, Begin, Empty, SetAside, Idle, vars, SaveInv, TypeOK, Places,
         AtMostOne, FlagsType, main, queue, worker, disk
<1> QED
  BY <1>1, <1>2, <1>3, <1>4, <1>5, <1>6, <1>7, <1>8, <1>9, <1>10, <1>11, <1>12, <1>13,
     <1>14, <1>15, <1>16, <1>17
     DEF Next, Start, Changes, Operates, Works

LEMMA SaveStep == SaveInv /\ [Next]_vars => SaveInv'
  BY TypeStep, UnsavedStep, DrainsStep, WorkerLivesStep, EndsEmptyStep, PlacesStep DEF SaveInv

LEMMA SaveInit == Init => SaveInv
BY TypeInit DEF Init, UnsavedIsQueued, Drains, NoOperations, EndsEmpty, WorkerLives, Places,
   AtMostOne, SaveInv

(* While the Server runs, the newest Session waits, is being written, or is on *)
(* disk, whatever writes fail and whenever it changes (persistence.rs:260). *)
THEOREM NoChangeIsForgotten == Spec => []UnsavedIsQueued
<1>1. SaveInv => UnsavedIsQueued
  BY DEF SaveInv
<1> QED
  BY <1>1, SaveInit, SaveStep, PTL DEF Spec

(* A Server that stopped without reporting an error left its last Session on *)
(* disk (server.rs:379).                                                   *)
THEOREM StopsKeepAll == Spec => []CleanStopKeepsAll
<1>1. SaveInv => CleanStopKeepsAll
  BY DEF SaveInv, EndsEmpty, CleanStopKeepsAll
<1> QED
  BY <1>1, SaveInit, SaveStep, PTL DEF Spec

-----------------------------------------------------------------------------
(* Snapshots only get newer on their way to the disk.                      *)
Older(S, T) == \A s \in S, t \in T : s.version < t.version

Versions ==
    /\ Older(file, writing) /\ Older(file, pending) /\ Older(writing, pending)
    /\ phase # "down" =>
         \A s \in file \cup pending \cup writing : s.version <= session.version

\* A change is newer than all there is, and a Snapshot only moves to an older one's place.
LEMMA VersionsStep ==
    ASSUME SaveInv, Versions, [Next]_vars
    PROVE  Versions'
<1>1. CASE StartRestored
  BY <1>1
     DEF StartRestored, Begin, Valid, SaveInv, TypeOK, Versions, Older, Places, AtMostOne,
         Drains, NoOperations, Idle, SaveType, Snapshots, Holding, jobs
<1>2. CASE StartRejected
  BY <1>2
     DEF StartRejected, Begin, Empty, SetAside, SaveInv, TypeOK, Versions, Older, Places,
         AtMostOne, Drains, NoOperations, Idle, SaveType, Snapshots, Holding, jobs
<1>3. CASE StartEmpty
  BY <1>3
     DEF StartEmpty, Begin, Empty, SaveInv, TypeOK, Versions, Older, Places, AtMostOne,
         Drains, NoOperations, Idle, SaveType, Snapshots, Holding, jobs
<1>4. CASE LocalLayout
  BY <1>4
     DEF LocalLayout, Change, Changed, Schedule, SaveInv, TypeOK, Versions, Older, Places,
         AtMostOne, Drains, NoOperations, Idle, SaveType, Snapshots, Holding, main, jobs,
         queue, worker, disk
<1>5. CASE Record
  BY <1>5
     DEF Record, Change, Changed, Schedule, Recording, SaveInv, TypeOK, Versions, Older,
         Places, AtMostOne, Drains, NoOperations, Idle, SaveType, Snapshots, Holding,
         main, jobs, queue, worker, disk
<1>6. ASSUME NEW w \in Worktrees, CloseWorkspace(w) PROVE Versions'
  BY <1>6
     DEF CloseWorkspace, Change, Changed, Schedule, SaveInv, TypeOK, Versions, Older,
         Places, AtMostOne, Drains, NoOperations, Idle, SaveType, Snapshots, Holding,
         main, jobs, queue, worker, disk
<1>7. ASSUME NEW w \in Worktrees, SplitPane(w) PROVE Versions'
  BY <1>7
     DEF SplitPane, Change, Changed, Schedule, SaveInv, TypeOK, Versions, Older, Places,
         AtMostOne, Drains, NoOperations, Idle, SaveType, Snapshots, Holding, main, jobs,
         queue, worker, disk
<1>8. ASSUME NEW m \in Monitors, FinishReap(m) PROVE Versions'
  BY <1>8
     DEF FinishReap, MayRecord, Change, Changed, Schedule, SaveInv, TypeOK, Versions,
         Older, Places, AtMostOne, Drains, NoOperations, Idle, SaveType, Snapshots,
         Holding, main, queue, worker, disk
<1>9. ASSUME NEW c \in Clients, CommitCreate(c) PROVE Versions'
  BY <1>9
     DEF CommitCreate, At, Go, Finish, Job, Idle, Change, Changed, Schedule, SaveInv,
         TypeOK, Versions, Older, Places, AtMostOne, Drains, NoOperations, SaveType,
         Snapshots, Holding, main, queue, worker, disk
<1>10. ASSUME NEW c \in Clients, ApproveRemove(c) PROVE Versions'
  BY <1>10
     DEF ApproveRemove, At, Go, Finish, Job, Idle, MayRecord, Change, Changed, Schedule,
         SaveInv, TypeOK, Versions, Older, Places, AtMostOne, Drains, NoOperations,
         SaveType, Snapshots, Holding, main, live, queue, worker, disk
<1>11. ASSUME NEW c \in Clients, CommitRemove(c) PROVE Versions'
  BY <1>11
     DEF CommitRemove, At, Finish, Idle, Change, Changed, Schedule, SaveInv, TypeOK,
         Versions, Older, Places, AtMostOne, Drains, NoOperations, SaveType, Snapshots,
         Holding, main, live, queue, worker, disk
<1>12. ASSUME NEW c \in Clients, RestoreRemoval(c) PROVE Versions'
  BY <1>12
     DEF RestoreRemoval, At, Finish, Idle, MayRecord, Change, Changed, Schedule, Restored,
         SaveInv, TypeOK, Versions, Older, Places, AtMostOne, Drains, NoOperations,
         SaveType, Snapshots, Holding, main, queue, worker, disk
<1>13. CASE Take
  BY <1>13
     DEF Take, SaveInv, TypeOK, Versions, Older, Places, AtMostOne, Drains, NoOperations,
         Idle, SaveType, Snapshots, Holding, main, jobs, live, disk
<1>14. CASE Write
  BY <1>14
     DEF Write, SaveInv, TypeOK, Versions, Older, Places, AtMostOne, Drains, NoOperations,
         Idle, SaveType, Snapshots, Holding, main, jobs, live, queue
<1>15. CASE AfterFailure
  BY <1>15
     DEF AfterFailure, PutBack, Retries, SaveInv, TypeOK, Versions, Older, Places,
         AtMostOne, Drains, NoOperations, Idle, SaveType, Snapshots, Holding, main, jobs,
         live, disk
<1>16. CASE Flush
  BY <1>16
     DEF Flush, Changed, SaveInv, TypeOK, Versions, Older, Places, AtMostOne, Drains,
         NoOperations, Idle, SaveType, Snapshots, Holding, jobs, worker, disk
<1>17. ASSUME NEW m \in Monitors, BeginReap(m) PROVE Versions'
  BY <1>17
     DEF BeginReap, SaveInv, TypeOK, Versions, Older, Places, AtMostOne, Drains,
         NoOperations, Idle, SaveType, Snapshots, Holding, main, live, queue, worker, disk
<1>18. ASSUME NEW c \in Clients, BeginCreate(c) \/ BeginRemove(c) \/ MakeCheckout(c) \/
             ApproveCreate(c) \/ UndoCreate(c) \/ RemoveCheckout(c) PROVE Versions'
  BY <1>18
     DEF BeginCreate, BeginRemove, MakeCheckout, ApproveCreate, UndoCreate,
         RemoveCheckout, Job, Idle, At, Go, Finish, SaveInv, TypeOK, Versions, Older,
         Places, AtMostOne, Drains, NoOperations, SaveType, Snapshots, Holding, main,
         live, queue, worker, disk
<1>19. CASE WriteFails \/ AfterWrite \/ BeginStop \/ LeaveLoop \/ Drained \/ Joined \/
           Crash \/ UNCHANGED vars
  BY <1>19
     DEF WriteFails, AfterWrite, BeginStop, LeaveLoop, Drained, Joined, Crash,
         NoOperations, Idle, Empty, vars, SaveInv, TypeOK, Versions, Older, Places,
         AtMostOne, Drains, SaveType, Snapshots, Holding, main, jobs, live, queue, worker,
         disk
<1> QED
  BY <1>1, <1>2, <1>3, <1>4, <1>5, <1>6, <1>7, <1>8, <1>9, <1>10, <1>11, <1>12, <1>13,
     <1>14, <1>15, <1>16, <1>17, <1>18, <1>19
     DEF Next, Start, Changes, Operates, Works

(* Every write replaces the Snapshot on disk by a newer one, over crashes and *)
(* restarts too (persistence.rs:212).                                      *)
THEOREM NoOldSnapshotReturns == Spec => WritesGoForward
<1>1. Init => Versions
  BY DEF Init, Versions, Older
<1>2. SaveInv /\ Versions /\ [Next]_vars => Versions'
  BY VersionsStep
<1>3. Versions => [\A old \in file, new \in writing :
                     stage' = "written" => old.version < new.version]_vars
  BY DEF Versions, Older
<1> QED
  BY <1>1, <1>2, <1>3, SaveInit, SaveStep, PTL DEF Spec, WritesGoForward

(* When moving files aside works, a file that cannot be restored only      *)
(* waits for the next start.                                               *)
ForeignWaits == RenameMayFail \/ (foreign => phase = "down" /\ stage = "ended")

\* A start sets the file aside before anything can be written.
LEMMA ForeignStep ==
    ASSUME SaveInv, ForeignWaits, [Next]_vars
    PROVE  ForeignWaits'
<1>1. CASE StartRejected
  BY <1>1 DEF ForeignWaits, StartRejected, SetAside
<1>2. CASE StartEmpty
  BY <1>2, RenameAssumption
     DEF StartEmpty, Begin, Empty, SaveInv, TypeOK, ForeignWaits, WorkerLives, Places,
         FlagsType
<1>3. CASE StartRestored
  BY <1>3, RenameAssumption
     DEF StartRestored, Begin, Valid, SaveInv, TypeOK, ForeignWaits, WorkerLives, Places,
         FlagsType
<1>4. CASE Take
  BY <1>4, RenameAssumption
     DEF Take, SaveInv, TypeOK, ForeignWaits, WorkerLives, Places, FlagsType, main, disk
<1>5. CASE Write
  BY <1>5, RenameAssumption
     DEF Write, SaveInv, TypeOK, ForeignWaits, WorkerLives, Places, FlagsType, main, queue
<1>6. CASE AfterWrite
  BY <1>6, RenameAssumption
     DEF AfterWrite, SaveInv, TypeOK, ForeignWaits, WorkerLives, Places, FlagsType, main,
         queue, disk
<1>7. CASE AfterFailure
  BY <1>7, RenameAssumption
     DEF AfterFailure, PutBack, Retries, SaveInv, TypeOK, ForeignWaits, WorkerLives,
         Places, FlagsType, main, disk
<1>8. CASE Crash
  BY <1>8, RenameAssumption
     DEF Crash, Idle, Empty, SaveInv, TypeOK, ForeignWaits, WorkerLives, Places,
         FlagsType, disk
<1>9. CASE Joined
  BY <1>9, RenameAssumption
     DEF Joined, SaveInv, TypeOK, ForeignWaits, WorkerLives, Places, FlagsType, queue,
         worker, disk
<1>10. ASSUME NEW w \in Worktrees, CloseWorkspace(w) \/ SplitPane(w) PROVE ForeignWaits'
  BY <1>10, RenameAssumption
     DEF CloseWorkspace, SplitPane, Change, Schedule, SaveInv, TypeOK, ForeignWaits,
         WorkerLives, Places, FlagsType, main, queue, worker, disk
<1>11. ASSUME NEW m \in Monitors, BeginReap(m) \/ FinishReap(m) PROVE ForeignWaits'
  BY <1>11, RenameAssumption
     DEF BeginReap, FinishReap, MayRecord, Change, Schedule, SaveInv, TypeOK,
         ForeignWaits, WorkerLives, Places, FlagsType, main, queue, worker, disk
<1>12. ASSUME NEW c \in Clients, BeginCreate(c) \/ BeginRemove(c) \/ MakeCheckout(c) \/
             ApproveCreate(c) \/ CommitCreate(c) \/ UndoCreate(c) \/ ApproveRemove(c) \/
             RemoveCheckout(c) \/ CommitRemove(c) \/ RestoreRemoval(c) PROVE
             ForeignWaits'
  BY <1>12, RenameAssumption
     DEF BeginCreate, BeginRemove, MakeCheckout, ApproveCreate, CommitCreate, UndoCreate,
         ApproveRemove, RemoveCheckout, CommitRemove, RestoreRemoval, Job, Idle, Change,
         Schedule, MayRecord, Restored, SaveInv, TypeOK, ForeignWaits, WorkerLives,
         Places, FlagsType, main, queue, worker, disk
<1>13. CASE LocalLayout \/ Record \/ WriteFails \/ BeginStop \/ LeaveLoop \/ Drained \/
           Flush \/ UNCHANGED vars
  BY <1>13, RenameAssumption
     DEF LocalLayout, Record, WriteFails, BeginStop, LeaveLoop, Drained, Flush, Change,
         Schedule, Recording, vars, SaveInv, TypeOK, ForeignWaits, WorkerLives, Places,
         FlagsType, main, queue, worker, disk
<1> QED
  BY <1>1, <1>2, <1>3, <1>4, <1>5, <1>6, <1>7, <1>8, <1>9, <1>10, <1>11, <1>12, <1>13
     DEF Next, Start, Changes, Operates, Works

\* Only a start takes it from the path.
LEMMA AsideStep ==
    ASSUME SaveInv, ForeignWaits, ~RenameMayFail, [Next]_vars
    PROVE  foreign /\ ~foreign' => aside'
<1>1. CASE StartRejected
  BY <1>1
     DEF StartRejected, Begin, Empty, SetAside, SaveInv, TypeOK, ForeignWaits, Holding,
         FlagsType
<1>2. CASE Write
  BY <1>2
     DEF Write, SaveInv, TypeOK, ForeignWaits, Holding, FlagsType, main, queue
<1>3. ASSUME NEW w \in Worktrees, CloseWorkspace(w) \/ SplitPane(w) PROVE foreign /\
             ~foreign' => aside'
  BY <1>3
     DEF CloseWorkspace, SplitPane, Change, Schedule, SaveInv, TypeOK, ForeignWaits,
         Holding, FlagsType, main, queue, worker, disk
<1>4. ASSUME NEW m \in Monitors, BeginReap(m) \/ FinishReap(m) PROVE foreign /\
             ~foreign' => aside'
  BY <1>4
     DEF BeginReap, FinishReap, MayRecord, Change, Schedule, SaveInv, TypeOK,
         ForeignWaits, Holding, FlagsType, main, queue, worker, disk
<1>5. ASSUME NEW c \in Clients, BeginCreate(c) \/ BeginRemove(c) \/ MakeCheckout(c) \/
             ApproveCreate(c) \/ CommitCreate(c) \/ UndoCreate(c) \/ ApproveRemove(c) \/
             RemoveCheckout(c) \/ CommitRemove(c) \/ RestoreRemoval(c) PROVE foreign /\
             ~foreign' => aside'
  BY <1>5
     DEF BeginCreate, BeginRemove, MakeCheckout, ApproveCreate, CommitCreate, UndoCreate,
         ApproveRemove, RemoveCheckout, CommitRemove, RestoreRemoval, Job, Idle, Change,
         Schedule, MayRecord, Restored, SaveInv, TypeOK, ForeignWaits, Holding, FlagsType,
         main, queue, worker, disk
<1>6. CASE StartEmpty \/ StartRestored \/ LocalLayout \/ Record \/ Take \/ WriteFails \/
           AfterWrite \/ AfterFailure \/ BeginStop \/ LeaveLoop \/ Drained \/ Flush \/
           Joined \/ Crash \/ UNCHANGED vars
  BY <1>6
     DEF StartEmpty, StartRestored, LocalLayout, Record, Take, WriteFails, AfterWrite,
         AfterFailure, BeginStop, LeaveLoop, Drained, Flush, Joined, Crash, Begin, Empty,
         Valid, Change, Schedule, Recording, PutBack, Idle, vars, SaveInv, TypeOK,
         ForeignWaits, Holding, FlagsType, main, queue, worker, disk
<1> QED
  BY <1>1, <1>2, <1>3, <1>4, <1>5, <1>6
     DEF Next, Start, Changes, Operates, Works

(* Unless a rename fails, a file that cannot be restored leaves the path only *)
(* by being moved aside (persistence.rs:138).                              *)
THEOREM ForeignFilesSurvive == ASSUME ~RenameMayFail PROVE Spec => ForeignIsKept
<1>1. Init => ForeignWaits
  BY DEF Init, ForeignWaits
<1>2. SaveInv /\ ForeignWaits /\ [Next]_vars => ForeignWaits'
  BY ForeignStep
<1>3. SaveInv /\ ForeignWaits /\ [Next]_vars => [foreign /\ ~foreign' => aside']_vars
  BY AsideStep
<1> QED
  BY <1>1, <1>2, <1>3, SaveInit, SaveStep, PTL DEF Spec, ForeignIsKept

-----------------------------------------------------------------------------
(* Operations and checkouts.  Only a Worktree whose creation began is on   *)
(* disk, in a Session, in a Snapshot or in an operation.                   *)
MadeFirst ==
    /\ checkouts \subseteq made /\ session.managed \subseteq made
    /\ \A s \in file \cup pending \cup writing : s.managed \subseteq made
    /\ \A c \in Clients : job[c] # Idle => job[c].tree \in made

\* Once made, a checkout stays while its creation runs, and the Worktree is
\* neither in the Session nor in another operation.
OwnCreation ==
    \A c \in Clients : At(c, Creating) =>
        /\ job[c].tree \notin session.managed
        /\ \A d \in Clients \ {c} : job[d] # Idle => job[d].tree # job[c].tree
        /\ job[c].tree \in checkouts <=> ~At(c, {"make"})

TreeInv == TypeOK /\ Drains /\ MadeFirst /\ OwnCreation /\ RemovedIsClosed

\* Worktrees come into being by BeginCreate alone.
LEMMA MadeFirstStep ==
    ASSUME TreeInv, [Next]_vars
    PROVE  MadeFirst'
<1>1. CASE StartRestored
  BY <1>1
     DEF StartRestored, Begin, Valid, TreeInv, TypeOK, MadeFirst, JobsType, Jobs,
         SaveType, jobs, trees
<1>2. ASSUME NEW c \in Clients, BeginCreate(c) PROVE MadeFirst'
  BY <1>2
     DEF BeginCreate, Job, Idle, TreeInv, TypeOK, MadeFirst, JobsType, Jobs, SaveType,
         live, queue, worker, disk
<1>3. ASSUME NEW c \in Clients, BeginRemove(c) PROVE MadeFirst'
  BY <1>3
     DEF BeginRemove, Job, Idle, TreeInv, TypeOK, MadeFirst, JobsType, Jobs, SaveType,
         live, queue, worker, disk, trees
<1>4. ASSUME NEW c \in Clients, MakeCheckout(c) PROVE MadeFirst'
  BY <1>4
     DEF MakeCheckout, At, Go, Finish, Job, Idle, TreeInv, TypeOK, MadeFirst, JobsType,
         Jobs, SaveType, live, queue, worker, disk
<1>5. ASSUME NEW c \in Clients, ApproveCreate(c) PROVE MadeFirst'
  BY <1>5
     DEF ApproveCreate, At, Go, Job, Idle, TreeInv, TypeOK, MadeFirst, JobsType, Jobs,
         SaveType, live, queue, worker, disk, trees
<1>6. ASSUME NEW c \in Clients, CommitCreate(c) PROVE MadeFirst'
  BY <1>6
     DEF CommitCreate, At, Go, Finish, Job, Idle, Change, Changed, Schedule, TreeInv,
         TypeOK, MadeFirst, JobsType, Jobs, SaveType, queue, worker, disk, trees
<1>7. ASSUME NEW c \in Clients, UndoCreate(c) PROVE MadeFirst'
  BY <1>7
     DEF UndoCreate, At, Finish, Idle, TreeInv, TypeOK, MadeFirst, JobsType, Jobs,
         SaveType, live, queue, worker, disk
<1>8. ASSUME NEW c \in Clients, ApproveRemove(c) PROVE MadeFirst'
  BY <1>8
     DEF ApproveRemove, At, Go, Finish, Job, Idle, MayRecord, Change, Changed, Schedule,
         TreeInv, TypeOK, MadeFirst, JobsType, Jobs, SaveType, live, queue, worker, disk,
         trees
<1>9. ASSUME NEW c \in Clients, RemoveCheckout(c) PROVE MadeFirst'
  BY <1>9
     DEF RemoveCheckout, At, Go, Job, Idle, TreeInv, TypeOK, MadeFirst, JobsType, Jobs,
         SaveType, live, queue, worker, disk
<1>10. ASSUME NEW c \in Clients, CommitRemove(c) PROVE MadeFirst'
  BY <1>10
     DEF CommitRemove, At, Finish, Idle, Change, Changed, Schedule, TreeInv, TypeOK,
         MadeFirst, JobsType, Jobs, SaveType, live, queue, worker, disk, trees
<1>11. ASSUME NEW c \in Clients, RestoreRemoval(c) PROVE MadeFirst'
  BY <1>11
     DEF RestoreRemoval, At, Finish, Idle, MayRecord, Change, Changed, Schedule, Restored,
         TreeInv, TypeOK, MadeFirst, JobsType, Jobs, SaveType, queue, worker, disk, trees
<1>12. ASSUME NEW w \in Worktrees, CloseWorkspace(w) \/ SplitPane(w) PROVE MadeFirst'
  BY <1>12
     DEF CloseWorkspace, SplitPane, Change, Changed, Schedule, TreeInv, TypeOK, MadeFirst,
         JobsType, Jobs, SaveType, jobs, queue, worker, disk, trees
<1>13. ASSUME NEW m \in Monitors, BeginReap(m) \/ FinishReap(m) PROVE MadeFirst'
  BY <1>13
     DEF BeginReap, FinishReap, MayRecord, Change, Changed, Schedule, TreeInv, TypeOK,
         MadeFirst, JobsType, Jobs, SaveType, live, queue, worker, disk, trees
<1>14. CASE StartEmpty \/ StartRejected \/ LocalLayout \/ Record \/ Take \/ Write \/
           WriteFails \/ AfterWrite \/ AfterFailure \/ BeginStop \/ LeaveLoop \/ Drained
           \/ Flush \/ Joined \/ Crash \/ UNCHANGED vars
  BY <1>14
     DEF StartEmpty, StartRejected, LocalLayout, Record, Take, Write, WriteFails,
         AfterWrite, AfterFailure, BeginStop, LeaveLoop, Drained, Flush, Joined, Crash,
         Begin, Empty, Change, Changed, Schedule, PutBack, Retries, NoOperations, Idle,
         vars, TreeInv, TypeOK, MadeFirst, JobsType, Jobs, SaveType, jobs, live, queue,
         worker, disk, trees
<1> QED
  BY <1>1, <1>2, <1>3, <1>4, <1>5, <1>6, <1>7, <1>8, <1>9, <1>10, <1>11, <1>12, <1>13,
     <1>14
     DEF Next, Start, Changes, Operates, Works

\* A new Worktree is unknown to everybody else until its creation commits.
LEMMA OwnCreationStep ==
    ASSUME TreeInv, [Next]_vars
    PROVE  OwnCreation'
<1>1. CASE StartRestored
  BY <1>1
     DEF StartRestored, Begin, Valid, TreeInv, TypeOK, OwnCreation, MadeFirst, Drains,
         NoOperations, Idle, JobsType, Jobs, Creating, Removing, At, jobs, trees
<1>2. ASSUME NEW c \in Clients, BeginCreate(c) PROVE OwnCreation'
  BY <1>2
     DEF BeginCreate, Job, Idle, TreeInv, TypeOK, OwnCreation, MadeFirst, Drains,
         NoOperations, JobsType, Jobs, Creating, Removing, At, main, live, queue, worker,
         disk
<1>3. ASSUME NEW c \in Clients, BeginRemove(c) PROVE OwnCreation'
  BY <1>3
     DEF BeginRemove, Job, Idle, TreeInv, TypeOK, OwnCreation, MadeFirst, Drains,
         NoOperations, JobsType, Jobs, Creating, Removing, At, main, live, queue, worker,
         disk, trees
<1>4. ASSUME NEW c \in Clients, MakeCheckout(c) PROVE OwnCreation'
  BY <1>4
     DEF MakeCheckout, At, Go, Finish, Job, Idle, TreeInv, TypeOK, OwnCreation, MadeFirst,
         Drains, NoOperations, JobsType, Jobs, Creating, Removing, main, live, queue,
         worker, disk
<1>5. ASSUME NEW c \in Clients, ApproveCreate(c) PROVE OwnCreation'
  BY <1>5
     DEF ApproveCreate, At, Go, Job, Idle, TreeInv, TypeOK, OwnCreation, MadeFirst,
         Drains, NoOperations, JobsType, Jobs, Creating, Removing, main, live, queue,
         worker, disk, trees
<1>6. ASSUME NEW c \in Clients, CommitCreate(c) PROVE OwnCreation'
  BY <1>6
     DEF CommitCreate, At, Go, Finish, Job, Idle, Change, Changed, Schedule, TreeInv,
         TypeOK, OwnCreation, MadeFirst, Drains, NoOperations, JobsType, Jobs, Creating,
         Removing, main, queue, worker, disk, trees
<1>7. ASSUME NEW c \in Clients, UndoCreate(c) PROVE OwnCreation'
  BY <1>7
     DEF UndoCreate, At, Finish, Idle, TreeInv, TypeOK, OwnCreation, MadeFirst, Drains,
         NoOperations, JobsType, Jobs, Creating, Removing, main, live, queue, worker, disk
<1>8. ASSUME NEW c \in Clients, ApproveRemove(c) PROVE OwnCreation'
  BY <1>8
     DEF ApproveRemove, At, Go, Finish, Job, Idle, MayRecord, Change, Changed, Schedule,
         TreeInv, TypeOK, OwnCreation, MadeFirst, Drains, NoOperations, JobsType, Jobs,
         Creating, Removing, main, live, queue, worker, disk, trees
<1>9. ASSUME NEW c \in Clients, RemoveCheckout(c) PROVE OwnCreation'
  BY <1>9
     DEF RemoveCheckout, At, Go, Job, Idle, TreeInv, TypeOK, OwnCreation, MadeFirst,
         Drains, NoOperations, JobsType, Jobs, Creating, Removing, main, live, queue,
         worker, disk
<1>10. ASSUME NEW c \in Clients, CommitRemove(c) PROVE OwnCreation'
  BY <1>10
     DEF CommitRemove, At, Finish, Idle, Change, Changed, Schedule, TreeInv, TypeOK,
         OwnCreation, MadeFirst, Drains, NoOperations, JobsType, Jobs, Creating, Removing,
         main, live, queue, worker, disk, trees
<1>11. ASSUME NEW c \in Clients, RestoreRemoval(c) PROVE OwnCreation'
  BY <1>11
     DEF RestoreRemoval, At, Finish, Idle, MayRecord, Change, Changed, Schedule, Restored,
         TreeInv, TypeOK, OwnCreation, MadeFirst, Drains, NoOperations, JobsType, Jobs,
         Creating, Removing, main, queue, worker, disk, trees
<1>12. ASSUME NEW w \in Worktrees, CloseWorkspace(w) \/ SplitPane(w) PROVE OwnCreation'
  BY <1>12
     DEF CloseWorkspace, SplitPane, Change, Changed, Schedule, TreeInv, TypeOK,
         OwnCreation, MadeFirst, Drains, NoOperations, Idle, JobsType, Jobs, Creating,
         Removing, At, main, jobs, queue, worker, disk, trees
<1>13. ASSUME NEW m \in Monitors, BeginReap(m) \/ FinishReap(m) PROVE OwnCreation'
  BY <1>13
     DEF BeginReap, FinishReap, MayRecord, Change, Changed, Schedule, TreeInv, TypeOK,
         OwnCreation, MadeFirst, Drains, NoOperations, Idle, JobsType, Jobs, Creating,
         Removing, At, main, live, queue, worker, disk, trees
<1>14. CASE StartEmpty \/ StartRejected \/ LocalLayout \/ Record \/ Take \/ Write \/
           WriteFails \/ AfterWrite \/ AfterFailure \/ BeginStop \/ LeaveLoop \/ Drained
           \/ Flush \/ Joined \/ Crash \/ UNCHANGED vars
  BY <1>14
     DEF StartEmpty, StartRejected, LocalLayout, Record, Take, Write, WriteFails,
         AfterWrite, AfterFailure, BeginStop, LeaveLoop, Drained, Flush, Joined, Crash,
         Begin, Empty, Change, Changed, Schedule, Recording, PutBack, Retries,
         NoOperations, Idle, vars, TreeInv, TypeOK, OwnCreation, MadeFirst, Drains,
         JobsType, Jobs, Creating, Removing, At, main, jobs, live, queue, worker, disk,
         trees
<1> QED
  BY <1>1, <1>2, <1>3, <1>4, <1>5, <1>6, <1>7, <1>8, <1>9, <1>10, <1>11, <1>12, <1>13,
     <1>14
     DEF Next, Start, Changes, Operates, Works

\* A checkout goes by a removal, which then closes the Workspace, or by undoing a creation.
LEMMA RemovedStep ==
    ASSUME TreeInv, [Next]_vars
    PROVE  RemovedIsClosed'
<1>1. CASE StartRestored
  BY <1>1
     DEF StartRestored, Begin, Valid, TreeInv, TypeOK, RemovedIsClosed, OwnCreation,
         Drains, NoOperations, JobsType, Jobs, Creating, Removing, At, Job, jobs, trees
<1>2. ASSUME NEW c \in Clients, BeginCreate(c) PROVE RemovedIsClosed'
  BY <1>2
     DEF BeginCreate, Job, Idle, TreeInv, TypeOK, RemovedIsClosed, OwnCreation, Drains,
         NoOperations, JobsType, Jobs, Creating, Removing, At, main, live
<1>3. ASSUME NEW c \in Clients, BeginRemove(c) PROVE RemovedIsClosed'
  BY <1>3
     DEF BeginRemove, Job, Idle, TreeInv, TypeOK, RemovedIsClosed, OwnCreation, Drains,
         NoOperations, JobsType, Jobs, Creating, Removing, At, main, live, trees
<1>4. ASSUME NEW c \in Clients, MakeCheckout(c) PROVE RemovedIsClosed'
  BY <1>4
     DEF MakeCheckout, At, Go, Finish, Job, Idle, TreeInv, TypeOK, RemovedIsClosed,
         OwnCreation, Drains, NoOperations, JobsType, Jobs, Creating, Removing, main, live
<1>5. ASSUME NEW c \in Clients, ApproveCreate(c) PROVE RemovedIsClosed'
  BY <1>5
     DEF ApproveCreate, At, Go, Job, Idle, TreeInv, TypeOK, RemovedIsClosed, OwnCreation,
         Drains, NoOperations, JobsType, Jobs, Creating, Removing, main, live, trees
<1>6. ASSUME NEW c \in Clients, CommitCreate(c) PROVE RemovedIsClosed'
  BY <1>6
     DEF CommitCreate, At, Go, Finish, Job, Idle, Change, Changed, TreeInv, TypeOK,
         RemovedIsClosed, OwnCreation, Drains, NoOperations, JobsType, Jobs, Creating,
         Removing, main, trees
<1>7. ASSUME NEW c \in Clients, UndoCreate(c) PROVE RemovedIsClosed'
  BY <1>7
     DEF UndoCreate, At, Finish, Job, Idle, TreeInv, TypeOK, RemovedIsClosed, OwnCreation,
         Drains, NoOperations, JobsType, Jobs, Creating, Removing, main, live
<1>8. ASSUME NEW c \in Clients, ApproveRemove(c) PROVE RemovedIsClosed'
  BY <1>8
     DEF ApproveRemove, At, Go, Finish, Job, Idle, MayRecord, Change, Changed, TreeInv,
         TypeOK, RemovedIsClosed, OwnCreation, Drains, NoOperations, JobsType, Jobs,
         Creating, Removing, main, live, trees
<1>9. ASSUME NEW c \in Clients, RemoveCheckout(c) PROVE RemovedIsClosed'
  BY <1>9
     DEF RemoveCheckout, At, Go, Job, Idle, TreeInv, TypeOK, RemovedIsClosed, OwnCreation,
         Drains, NoOperations, JobsType, Jobs, Creating, Removing, main, live
<1>10. ASSUME NEW c \in Clients, CommitRemove(c) PROVE RemovedIsClosed'
  BY <1>10
     DEF CommitRemove, At, Finish, Job, Idle, Change, Changed, TreeInv, TypeOK,
         RemovedIsClosed, OwnCreation, Drains, NoOperations, JobsType, Jobs, Creating,
         Removing, main, live, trees
<1>11. ASSUME NEW c \in Clients, RestoreRemoval(c) PROVE RemovedIsClosed'
  BY <1>11
     DEF RestoreRemoval, At, Finish, Job, Idle, MayRecord, Change, Changed, Restored,
         TreeInv, TypeOK, RemovedIsClosed, OwnCreation, Drains, NoOperations, JobsType,
         Jobs, Creating, Removing, main, trees
<1>12. ASSUME NEW w \in Worktrees, CloseWorkspace(w) \/ SplitPane(w) PROVE
             RemovedIsClosed'
  BY <1>12
     DEF CloseWorkspace, SplitPane, Change, Changed, TreeInv, TypeOK, RemovedIsClosed,
         OwnCreation, Drains, NoOperations, JobsType, Jobs, Creating, Removing, At, Job,
         main, jobs, trees
<1>13. ASSUME NEW m \in Monitors, BeginReap(m) \/ FinishReap(m) PROVE RemovedIsClosed'
  BY <1>13
     DEF BeginReap, FinishReap, MayRecord, Change, Changed, TreeInv, TypeOK,
         RemovedIsClosed, OwnCreation, Drains, NoOperations, JobsType, Jobs, Creating,
         Removing, At, Job, main, live, trees
<1>14. CASE StartEmpty \/ StartRejected \/ LocalLayout \/ Record \/ Take \/ Write \/
           WriteFails \/ AfterWrite \/ AfterFailure \/ BeginStop \/ LeaveLoop \/ Drained
           \/ Flush \/ Joined \/ Crash \/ UNCHANGED vars
  BY <1>14
     DEF StartEmpty, StartRejected, LocalLayout, Record, Take, Write, WriteFails,
         AfterWrite, AfterFailure, BeginStop, LeaveLoop, Drained, Flush, Joined, Crash,
         Begin, Empty, Change, Changed, Recording, NoOperations, Idle, vars, TreeInv,
         TypeOK, RemovedIsClosed, OwnCreation, Drains, JobsType, Jobs, Creating, Removing,
         At, Job, main, jobs, live, trees
<1> QED
  BY <1>1, <1>2, <1>3, <1>4, <1>5, <1>6, <1>7, <1>8, <1>9, <1>10, <1>11, <1>12, <1>13,
     <1>14
     DEF Next, Start, Changes, Operates, Works

LEMMA TreeStep == TreeInv /\ [Next]_vars => TreeInv'
  BY TypeStep, DrainsStep, MadeFirstStep, OwnCreationStep, RemovedStep DEF TreeInv

LEMMA TreeInit == Init => TreeInv
BY TypeInit DEF Init, Drains, NoOperations, MadeFirst, RemovedIsClosed, Empty, OwnCreation, At,
   Creating, Idle, TreeInv

(* A managed Workspace has its checkout, unless an operation is about to close *)
(* it or its failed removal was reported, during a stop too (operation.rs:163). *)
THEOREM RemovalsAreClosed == Spec => []RemovedIsClosed
<1>1. TreeInv => RemovedIsClosed
  BY DEF TreeInv
<1> QED
  BY <1>1, TreeInit, TreeStep, PTL DEF Spec

(* Who a checkout belongs to.  NoOrphan says that any operation may hold   *)
(* it; a removal need not, because its Workspace still does.               *)
Accounted ==
    lost \/ \A w \in checkouts :
        \/ w \in session.managed \/ w \in kept \/ w \in broken
        \/ \E c \in Clients : At(c, Creating) /\ job[c].tree = w

\* The checkout is gone when the Workspace is about to close, and nobody makes
\* it again.
RemovedIsGone == \A c \in Clients : At(c, {"removed"}) => job[c].tree \notin checkouts

\* A Server that never crashed is down only before its first life, and without
\* an error of its last flush it starts again from the Session it had.
FirstLife == phase = "down" /\ ~lost => checkouts = {}
FailureIsLoss == phase = "stopped" /\ ~lost => stage = "ended"

OrphanInv == SaveInv /\ TreeInv /\ RemovedIsGone /\ FirstLife /\ FailureIsLoss /\ Accounted

\* A removed checkout does not return.
LEMMA RemovedIsGoneStep ==
    ASSUME TreeInv, RemovedIsGone, [Next]_vars
    PROVE  RemovedIsGone'
<1>1. ASSUME NEW c \in Clients, BeginCreate(c) PROVE RemovedIsGone'
  BY <1>1
     DEF BeginCreate, Job, Idle, TreeInv, TypeOK, RemovedIsGone, OwnCreation, JobsType,
         Jobs, Creating, Removing, At, live
<1>2. ASSUME NEW c \in Clients, BeginRemove(c) PROVE RemovedIsGone'
  BY <1>2
     DEF BeginRemove, Job, Idle, TreeInv, TypeOK, RemovedIsGone, OwnCreation, JobsType,
         Jobs, Creating, Removing, At, live, trees
<1>3. ASSUME NEW c \in Clients, MakeCheckout(c) PROVE RemovedIsGone'
  BY <1>3
     DEF MakeCheckout, At, Go, Finish, Job, Idle, TreeInv, TypeOK, RemovedIsGone,
         OwnCreation, JobsType, Jobs, Creating, Removing, live
<1>4. ASSUME NEW c \in Clients, ApproveCreate(c) PROVE RemovedIsGone'
  BY <1>4
     DEF ApproveCreate, At, Go, Job, Idle, TreeInv, TypeOK, RemovedIsGone, OwnCreation,
         JobsType, Jobs, Creating, Removing, live, trees
<1>5. ASSUME NEW c \in Clients, CommitCreate(c) PROVE RemovedIsGone'
  BY <1>5
     DEF CommitCreate, At, Go, Finish, Job, Idle, Change, Changed, TreeInv, TypeOK,
         RemovedIsGone, OwnCreation, JobsType, Jobs, Creating, Removing, trees
<1>6. ASSUME NEW c \in Clients, UndoCreate(c) PROVE RemovedIsGone'
  BY <1>6
     DEF UndoCreate, At, Finish, Idle, TreeInv, TypeOK, RemovedIsGone, OwnCreation,
         JobsType, Jobs, Creating, Removing, live
<1>7. ASSUME NEW c \in Clients, ApproveRemove(c) PROVE RemovedIsGone'
  BY <1>7
     DEF ApproveRemove, At, Go, Finish, Job, Idle, MayRecord, Change, Changed, TreeInv,
         TypeOK, RemovedIsGone, OwnCreation, JobsType, Jobs, Creating, Removing, live,
         trees
<1>8. ASSUME NEW c \in Clients, RemoveCheckout(c) PROVE RemovedIsGone'
  BY <1>8
     DEF RemoveCheckout, At, Go, Job, Idle, TreeInv, TypeOK, RemovedIsGone, OwnCreation,
         JobsType, Jobs, Creating, Removing, live
<1>9. ASSUME NEW c \in Clients, CommitRemove(c) PROVE RemovedIsGone'
  BY <1>9
     DEF CommitRemove, At, Finish, Idle, Change, Changed, TreeInv, TypeOK, RemovedIsGone,
         OwnCreation, JobsType, Jobs, Creating, Removing, live, trees
<1>10. ASSUME NEW c \in Clients, RestoreRemoval(c) PROVE RemovedIsGone'
  BY <1>10
     DEF RestoreRemoval, At, Finish, Idle, MayRecord, Change, Changed, Restored, TreeInv,
         TypeOK, RemovedIsGone, OwnCreation, JobsType, Jobs, Creating, Removing, trees
<1>11. ASSUME NEW w \in Worktrees, CloseWorkspace(w) \/ SplitPane(w) PROVE
             RemovedIsGone'
  BY <1>11
     DEF CloseWorkspace, SplitPane, Change, Changed, TreeInv, TypeOK, RemovedIsGone, At,
         jobs, trees
<1>12. ASSUME NEW m \in Monitors, BeginReap(m) \/ FinishReap(m) PROVE RemovedIsGone'
  BY <1>12
     DEF BeginReap, FinishReap, MayRecord, Change, Changed, TreeInv, TypeOK,
         RemovedIsGone, At, live, trees
<1>13. CASE StartEmpty \/ StartRestored \/ StartRejected \/ LocalLayout \/ Record \/
           Take \/ Write \/ WriteFails \/ AfterWrite \/ AfterFailure \/ BeginStop \/
           LeaveLoop \/ Drained \/ Flush \/ Joined \/ Crash \/ UNCHANGED vars
  BY <1>13
     DEF StartEmpty, StartRestored, StartRejected, LocalLayout, Record, Take, Write,
         WriteFails, AfterWrite, AfterFailure, BeginStop, LeaveLoop, Drained, Flush,
         Joined, Crash, Begin, Empty, Valid, Change, Changed, NoOperations, Idle, vars,
         TreeInv, TypeOK, RemovedIsGone, At, jobs, live, trees
<1> QED
  BY <1>1, <1>2, <1>3, <1>4, <1>5, <1>6, <1>7, <1>8, <1>9, <1>10, <1>11, <1>12, <1>13
     DEF Next, Start, Changes, Operates, Works

\* Every loss is a crash or a failed flush.
LEMMA LossStep ==
    ASSUME OrphanInv, [Next]_vars
    PROVE  FirstLife' /\ FailureIsLoss'
<1>1. ASSUME NEW w \in Worktrees, CloseWorkspace(w) \/ SplitPane(w) PROVE FirstLife' /\
             FailureIsLoss'
  BY <1>1
     DEF CloseWorkspace, SplitPane, Change, Schedule, OrphanInv, TreeInv, Drains,
         NoOperations, SaveInv, TypeOK, FirstLife, FailureIsLoss, WorkerLives, FlagsType,
         Idle, main, jobs, queue, worker, disk, trees
<1>2. ASSUME NEW m \in Monitors, BeginReap(m) \/ FinishReap(m) PROVE FirstLife' /\
             FailureIsLoss'
  BY <1>2
     DEF BeginReap, FinishReap, MayRecord, Change, Schedule, OrphanInv, TreeInv, Drains,
         NoOperations, SaveInv, TypeOK, FirstLife, FailureIsLoss, WorkerLives, FlagsType,
         Idle, main, queue, worker, disk, trees
<1>3. ASSUME NEW c \in Clients, BeginCreate(c) \/ BeginRemove(c) \/ MakeCheckout(c) \/
             ApproveCreate(c) \/ CommitCreate(c) \/ UndoCreate(c) \/ ApproveRemove(c) \/
             RemoveCheckout(c) \/ CommitRemove(c) \/ RestoreRemoval(c) PROVE FirstLife'
             /\ FailureIsLoss'
  BY <1>3
     DEF BeginCreate, BeginRemove, MakeCheckout, ApproveCreate, CommitCreate, UndoCreate,
         ApproveRemove, RemoveCheckout, CommitRemove, RestoreRemoval, Job, Idle, At, Go,
         Finish, Change, Schedule, MayRecord, Restored, OrphanInv, TreeInv, Drains,
         NoOperations, SaveInv, TypeOK, FirstLife, FailureIsLoss, WorkerLives, FlagsType,
         main, queue, worker, disk, trees
<1>4. CASE StartEmpty \/ StartRestored \/ StartRejected \/ LocalLayout \/ Record \/ Take
           \/ Write \/ WriteFails \/ AfterWrite \/ AfterFailure \/ BeginStop \/
           LeaveLoop \/ Drained \/ Flush \/ Joined \/ Crash \/ UNCHANGED vars
  BY <1>4
     DEF StartEmpty, StartRestored, StartRejected, LocalLayout, Record, Take, Write,
         WriteFails, AfterWrite, AfterFailure, BeginStop, LeaveLoop, Drained, Flush,
         Joined, Crash, Begin, Empty, Valid, SetAside, Change, Schedule, Recording,
         PutBack, NoOperations, Idle, vars, OrphanInv, TreeInv, Drains, SaveInv, TypeOK,
         FirstLife, FailureIsLoss, WorkerLives, FlagsType, main, jobs, queue, worker,
         disk, trees
<1> QED
  BY <1>1, <1>2, <1>3, <1>4
     DEF Next, Start, Changes, Operates, Works

\* Each step that lets go of a checkout hands it on, or says so.
LEMMA AccountedStep ==
    ASSUME OrphanInv, [Next]_vars
    PROVE  Accounted'
<1>1. CASE StartRestored
  BY <1>1
     DEF StartRestored, Begin, Valid, OrphanInv, TreeInv, SaveInv, TypeOK, Accounted,
         RemovedIsGone, FirstLife, FailureIsLoss, EndsEmpty, Durable, Places, AtMostOne,
         Empty, Drains, JobsType, Jobs, Creating, Removing, At, FlagsType, jobs, trees
<1>2. CASE StartEmpty
  BY <1>2
     DEF StartEmpty, Begin, Empty, OrphanInv, TreeInv, SaveInv, TypeOK, Accounted,
         RemovedIsGone, FirstLife, FailureIsLoss, EndsEmpty, Durable, Places, AtMostOne,
         Drains, JobsType, Jobs, Creating, Removing, At, FlagsType, jobs, trees
<1>3. CASE StartRejected
  BY <1>3
     DEF StartRejected, Begin, Empty, SetAside, OrphanInv, TreeInv, SaveInv, TypeOK,
         Accounted, RemovedIsGone, FirstLife, FailureIsLoss, EndsEmpty, Durable, Places,
         AtMostOne, Drains, JobsType, Jobs, Creating, Removing, At, FlagsType, jobs, trees
<1>4. ASSUME NEW c \in Clients, BeginCreate(c) PROVE Accounted'
  BY <1>4
     DEF BeginCreate, Job, Idle, OrphanInv, TreeInv, SaveInv, TypeOK, Accounted,
         RemovedIsGone, FirstLife, FailureIsLoss, EndsEmpty, Durable, Places, AtMostOne,
         Empty, Drains, JobsType, Jobs, Creating, Removing, At, FlagsType, main, live,
         queue, worker, disk
<1>5. ASSUME NEW c \in Clients, BeginRemove(c) PROVE Accounted'
  BY <1>5
     DEF BeginRemove, Job, Idle, OrphanInv, TreeInv, SaveInv, TypeOK, Accounted,
         RemovedIsGone, FirstLife, FailureIsLoss, EndsEmpty, Durable, Places, AtMostOne,
         Empty, Drains, JobsType, Jobs, Creating, Removing, At, FlagsType, main, live,
         queue, worker, disk, trees
<1>6. ASSUME NEW c \in Clients, MakeCheckout(c) PROVE Accounted'
  <2>1. /\ job[c].stage = "make" /\ job \in [Clients -> Jobs]
        /\ UNCHANGED <<session, kept, broken, lost>>
    BY <1>6 DEF MakeCheckout, At, live, trees, OrphanInv, SaveInv, TypeOK, JobsType
  <2>2. CASE /\ job' = [job EXCEPT ![c] = Job("made", job[c].tree)]
             /\ checkouts' = checkouts \cup {job[c].tree}
    BY <2>1, <2>2 DEF At, Creating, Job, OrphanInv, Accounted
  <2>3. CASE job' = [job EXCEPT ![c] = Idle] /\ checkouts' = checkouts
    BY <2>1, <2>3 DEF OrphanInv, TreeInv, OwnCreation, At, Creating, Accounted
  <2> QED
    BY <1>6, <2>2, <2>3 DEF MakeCheckout, Go, Finish
<1>7. ASSUME NEW c \in Clients, ApproveCreate(c) PROVE Accounted'
  BY <1>7
     DEF ApproveCreate, At, Go, Job, Idle, OrphanInv, TreeInv, SaveInv, TypeOK, Accounted,
         RemovedIsGone, FirstLife, FailureIsLoss, EndsEmpty, Durable, Places, AtMostOne,
         Empty, Drains, JobsType, Jobs, Creating, Removing, FlagsType, main, live, queue,
         worker, disk, trees
<1>8. ASSUME NEW c \in Clients, CommitCreate(c) PROVE Accounted'
  BY <1>8
     DEF CommitCreate, At, Go, Finish, Job, Idle, Change, Changed, Schedule, OrphanInv,
         TreeInv, SaveInv, TypeOK, Accounted, RemovedIsGone, FirstLife, FailureIsLoss,
         EndsEmpty, Durable, Places, AtMostOne, Empty, Drains, JobsType, Jobs, Creating,
         Removing, FlagsType, main, queue, worker, disk, trees
<1>9. ASSUME NEW c \in Clients, UndoCreate(c) PROVE Accounted'
  BY <1>9
     DEF UndoCreate, At, Finish, Idle, OrphanInv, TreeInv, SaveInv, TypeOK, Accounted,
         RemovedIsGone, FirstLife, FailureIsLoss, EndsEmpty, Durable, Places, AtMostOne,
         Empty, Drains, JobsType, Jobs, Creating, Removing, FlagsType, main, live, queue,
         worker, disk
<1>10. ASSUME NEW c \in Clients, ApproveRemove(c) PROVE Accounted'
  BY <1>10
     DEF ApproveRemove, At, Go, Finish, Job, Idle, MayRecord, Change, Changed, Schedule,
         OrphanInv, TreeInv, SaveInv, TypeOK, Accounted, RemovedIsGone, FirstLife,
         FailureIsLoss, EndsEmpty, Durable, Places, AtMostOne, Empty, Drains, JobsType,
         Jobs, Creating, Removing, FlagsType, main, live, queue, worker, disk, trees
<1>11. ASSUME NEW c \in Clients, RemoveCheckout(c) PROVE Accounted'
  BY <1>11
     DEF RemoveCheckout, At, Go, Job, Idle, OrphanInv, TreeInv, SaveInv, TypeOK,
         Accounted, RemovedIsGone, FirstLife, FailureIsLoss, EndsEmpty, Durable, Places,
         AtMostOne, Empty, Drains, JobsType, Jobs, Creating, Removing, FlagsType, main,
         live, queue, worker, disk
<1>12. ASSUME NEW c \in Clients, CommitRemove(c) PROVE Accounted'
  BY <1>12
     DEF CommitRemove, At, Finish, Idle, Change, Changed, Schedule, OrphanInv, TreeInv,
         SaveInv, TypeOK, Accounted, RemovedIsGone, FirstLife, FailureIsLoss, EndsEmpty,
         Durable, Places, AtMostOne, Empty, Drains, JobsType, Jobs, Creating, Removing,
         FlagsType, main, live, queue, worker, disk, trees
<1>13. ASSUME NEW c \in Clients, RestoreRemoval(c) PROVE Accounted'
  BY <1>13
     DEF RestoreRemoval, At, Finish, Idle, MayRecord, Change, Changed, Schedule, Restored,
         OrphanInv, TreeInv, SaveInv, TypeOK, Accounted, RemovedIsGone, FirstLife,
         FailureIsLoss, EndsEmpty, Durable, Places, AtMostOne, Empty, Drains, JobsType,
         Jobs, Creating, Removing, FlagsType, main, queue, worker, disk, trees
<1>14. ASSUME NEW w \in Worktrees, CloseWorkspace(w) PROVE Accounted'
  BY <1>14
     DEF CloseWorkspace, Change, Changed, Schedule, OrphanInv, TreeInv, SaveInv, TypeOK,
         Accounted, RemovedIsGone, FirstLife, FailureIsLoss, EndsEmpty, Durable, Places,
         AtMostOne, Empty, Drains, JobsType, Jobs, Creating, Removing, At, FlagsType,
         main, jobs, queue, worker, disk
<1>15. ASSUME NEW w \in Worktrees, SplitPane(w) PROVE Accounted'
  BY <1>15
     DEF SplitPane, Change, Changed, Schedule, OrphanInv, TreeInv, SaveInv, TypeOK,
         Accounted, At, FlagsType, main, jobs, queue, worker, disk, trees
<1>16. ASSUME NEW m \in Monitors, BeginReap(m) \/ FinishReap(m) PROVE Accounted'
  BY <1>16
     DEF BeginReap, FinishReap, MayRecord, Change, Changed, Schedule, OrphanInv, TreeInv,
         SaveInv, TypeOK, Accounted, At, FlagsType, main, live, queue, worker, disk, trees
<1>17. CASE LocalLayout \/ Record \/ Take \/ Write \/ WriteFails \/ AfterWrite \/
           AfterFailure \/ BeginStop \/ LeaveLoop \/ Drained \/ Flush \/ Joined \/ Crash
           \/ UNCHANGED vars
  BY <1>17
     DEF LocalLayout, Record, Take, Write, WriteFails, AfterWrite, AfterFailure,
         BeginStop, LeaveLoop, Drained, Flush, Joined, Crash, Change, Changed, Schedule,
         Recording, PutBack, Retries, NoOperations, Idle, Empty, vars, OrphanInv, TreeInv,
         SaveInv, TypeOK, Accounted, At, FlagsType, main, jobs, live, queue, worker, disk,
         trees
<1> QED
  BY <1>1, <1>2, <1>3, <1>4, <1>5, <1>6, <1>7, <1>8, <1>9, <1>10, <1>11, <1>12, <1>13,
     <1>14, <1>15, <1>16, <1>17
     DEF Next, Start, Changes, Operates, Works

(* As long as no Session was lost, every checkout Condr made belongs to a  *)
(* Workspace or an operation, or Condr said that it stays (ADR 0005).      *)
THEOREM CheckoutsHaveOwners == Spec => []NoOrphan
<1>1. Init => OrphanInv
  BY SaveInit, TreeInit DEF Init, RemovedIsGone, At, Idle, FirstLife, FailureIsLoss, Accounted,
     OrphanInv
<1>2. OrphanInv /\ [Next]_vars => OrphanInv'
  BY SaveStep, TreeStep, RemovedIsGoneStep, LossStep, AccountedStep DEF OrphanInv
<1>3. OrphanInv => NoOrphan
  BY DEF OrphanInv, Accounted, NoOrphan, At, Creating, Idle
<1> QED
  BY <1>1, <1>2, <1>3, PTL DEF Spec

\* Terminals are taken by one removal, which closes the Workspace or restores them.
LEMMA ComeBackStep ==
    ASSUME TypeOK, TerminalsComeBack, [Next]_vars
    PROVE  TerminalsComeBack'
<1>1. ASSUME NEW c \in Clients, BeginCreate(c) PROVE TerminalsComeBack'
  BY <1>1
     DEF BeginCreate, Job, Idle, TypeOK, TerminalsComeBack, JobsType, Jobs, Creating,
         Removing, FlagsType, main, live, queue, disk
<1>2. ASSUME NEW c \in Clients, BeginRemove(c) PROVE TerminalsComeBack'
  BY <1>2
     DEF BeginRemove, Job, Idle, TypeOK, TerminalsComeBack, JobsType, Jobs, Creating,
         Removing, FlagsType, main, live, queue, disk
<1>3. ASSUME NEW c \in Clients, MakeCheckout(c) PROVE TerminalsComeBack'
  BY <1>3
     DEF MakeCheckout, At, Go, Finish, Job, Idle, TypeOK, TerminalsComeBack, JobsType,
         Jobs, Creating, Removing, FlagsType, main, live, queue, disk
<1>4. ASSUME NEW c \in Clients, ApproveCreate(c) PROVE TerminalsComeBack'
  BY <1>4
     DEF ApproveCreate, At, Go, Job, Idle, TypeOK, TerminalsComeBack, JobsType, Jobs,
         Creating, Removing, FlagsType, main, live, queue, disk
<1>5. ASSUME NEW c \in Clients, CommitCreate(c) PROVE TerminalsComeBack'
  BY <1>5
     DEF CommitCreate, At, Go, Finish, Job, Idle, Change, Changed, Schedule, TypeOK,
         TerminalsComeBack, JobsType, Jobs, Creating, Removing, FlagsType, main, queue,
         disk
<1>6. ASSUME NEW c \in Clients, UndoCreate(c) PROVE TerminalsComeBack'
  BY <1>6
     DEF UndoCreate, At, Finish, Job, Idle, TypeOK, TerminalsComeBack, JobsType, Jobs,
         Creating, Removing, FlagsType, main, live, queue, disk
<1>7. ASSUME NEW c \in Clients, ApproveRemove(c) PROVE TerminalsComeBack'
  BY <1>7
     DEF ApproveRemove, At, Go, Finish, Job, Idle, MayRecord, Change, Changed, Schedule,
         TypeOK, TerminalsComeBack, JobsType, Jobs, Creating, Removing, FlagsType, main,
         live, queue, disk
<1>8. ASSUME NEW c \in Clients, RemoveCheckout(c) PROVE TerminalsComeBack'
  BY <1>8
     DEF RemoveCheckout, At, Go, Job, Idle, TypeOK, TerminalsComeBack, JobsType, Jobs,
         Creating, Removing, FlagsType, main, live, queue, disk
<1>9. ASSUME NEW c \in Clients, CommitRemove(c) PROVE TerminalsComeBack'
  BY <1>9
     DEF CommitRemove, At, Finish, Job, Idle, Change, Changed, Schedule, TypeOK,
         TerminalsComeBack, JobsType, Jobs, Creating, Removing, FlagsType, main, live,
         queue, disk
<1>10. ASSUME NEW c \in Clients, RestoreRemoval(c) PROVE TerminalsComeBack'
  BY <1>10
     DEF RestoreRemoval, At, Finish, Job, Idle, MayRecord, Change, Changed, Schedule,
         Restored, TypeOK, TerminalsComeBack, JobsType, Jobs, Creating, Removing,
         FlagsType, main, queue, disk
<1>11. ASSUME NEW w \in Worktrees, CloseWorkspace(w) \/ SplitPane(w) PROVE
             TerminalsComeBack'
  BY <1>11
     DEF CloseWorkspace, SplitPane, Change, Changed, Schedule, TypeOK, TerminalsComeBack,
         JobsType, Jobs, Creating, Removing, Job, FlagsType, main, jobs, queue, disk
<1>12. ASSUME NEW m \in Monitors, BeginReap(m) \/ FinishReap(m) PROVE TerminalsComeBack'
  BY <1>12
     DEF BeginReap, FinishReap, MayRecord, Change, Changed, Schedule, TypeOK,
         TerminalsComeBack, JobsType, Jobs, Creating, Removing, Job, FlagsType, main,
         live, queue, disk
<1>13. CASE StartEmpty \/ StartRestored \/ StartRejected \/ LocalLayout \/ Record \/
           Take \/ Write \/ WriteFails \/ AfterWrite \/ AfterFailure \/ BeginStop \/
           LeaveLoop \/ Drained \/ Flush \/ Joined \/ Crash \/ UNCHANGED vars
  BY <1>13
     DEF StartEmpty, StartRestored, StartRejected, LocalLayout, Record, Take, Write,
         WriteFails, AfterWrite, AfterFailure, BeginStop, LeaveLoop, Drained, Flush,
         Joined, Crash, Begin, Empty, Valid, SetAside, Change, Changed, Schedule,
         Recording, PutBack, NoOperations, Idle, vars, TypeOK, TerminalsComeBack,
         JobsType, Jobs, Creating, Removing, Job, FlagsType, main, jobs, live, queue, disk
<1> QED
  BY <1>1, <1>2, <1>3, <1>4, <1>5, <1>6, <1>7, <1>8, <1>9, <1>10, <1>11, <1>12, <1>13
     DEF Next, Start, Changes, Operates, Works

(* While the Server serves, a managed Workspace runs its Terminals or an   *)
(* operation that took them still runs (operation.rs:251).                 *)
THEOREM TerminalsAreRestored == Spec => []TerminalsComeBack
<1>1. Init => TerminalsComeBack
  BY DEF Init, TerminalsComeBack
<1> QED
  BY <1>1, TypeInit, TypeStep, ComeBackStep, PTL DEF Spec

-----------------------------------------------------------------------------
(* Session and checkouts agree: a managed Workspace has its checkout, a     *)
(* checkout has its Workspace, over every crash and refusal.                *)
THEOREM SessionAndCheckoutsAgree == Spec => []CheckoutsAgree
<1>1. TypeOK /\ RemovedIsClosed /\ NoOrphan => CheckoutsAgree
  BY DEF CheckoutsAgree
<1> QED
  BY <1>1, TypeCorrect, RemovalsAreClosed, CheckoutsHaveOwners, PTL
=============================================================================
