----------------------- MODULE ReleasePipeline_proofs -----------------------
(***************************************************************************)
(* Proofs about module ReleasePipeline, for any number of jobs, versions,  *)
(* builds, developers' commits, tags and faults: what a Release serves was *)
(* built from the branch or the tag, edits of developers are lost only to  *)
(* the synchronisation of a package file that was read with them, and jobs *)
(* of one group leave the stores with the file of the Release.             *)
(***************************************************************************)
EXTENDS ReleasePipeline, TLAPS

\* Steps of a job that works on the update it may push.
Committing == {"run", "fetch", "push", "refetch"}
\* Steps of a job that makes the Release or looks for its asset.
Releasing == {"classify", "recover", "inspect", "create", "upload", "resolve",
              "locate"}

\* A job remembers the commit it checked out; a job for a tag, the tag's.
CheckoutFacts(r) ==
  /\ r.pc \in {"pending"} \cup Committing \cup Releasing =>
       /\ r.sha > 0 /\ r.handed = None
       /\ r.serves # 0 => release[r.serves].tag = r.sha
  /\ r.pc \in {"fetch", "push", "refetch"} => r.serves = 0

\* The working tree is what was checked out but for the version, until it is
\* on the branch or belongs to the tag.
TreeFacts(r) ==
  /\ r.pc \notin {"idle", "pending"} => r.tree \in Tree
  /\ r.pc \in Committing => Edits(r.tree) = Edits(branch[r.sha])
  /\ r.pc \in Releasing /\ r.serves # 0 => Edits(r.tree) = Edits(branch[r.sha])
  /\ r.pc = "run" /\ r.serves = 0 => r.tree = branch[r.sha]
  /\ r.pc \in Releasing =>
       IF r.serves = 0 THEN r.tree \in ToSet(branch)
       ELSE r.tree.version = r.serves

\* The verified build is of the working tree; what is handed to the stores is
\* of its version.
BuildFacts(r) ==
  /\ r.pc \in Committing \cup Releasing /\ r.lpk # None => r.lpk.tree = r.tree
  /\ r.pc \in {"idle", "pending", "run"} => r.lpk = None
  /\ r.handed # None => r.handed.tree.version = r.tree.version

JobFacts(r) ==
  /\ r \in Job /\ r.sha <= Tip /\ r.commit <= Tip
  /\ CheckoutFacts(r) /\ TreeFacts(r) /\ BuildFacts(r)

\* A Release's asset has its version, and comes from the branch or the tag.
AssetInv ==
  \A v \in Version : release[v].asset # None =>
    /\ release[v].asset.tree.version = v
    /\ \/ release[v].asset.tree \in ToSet(branch)
       \/ /\ release[v].tag # 0
          /\ Edits(release[v].asset.tree) = Edits(branch[release[v].tag])

\* Revisions count the commits of developers.
RevInv == \A i \in 1..Tip : branch[i].rev <= budget.edits

IInv ==
  /\ TypeOK /\ AssetInv /\ RevInv
  /\ \A j \in Jobs : JobFacts(job[j])

\* Without overlap one job runs; an asset that it has not found missing is not
\* replaced, and what it hands to the stores is what the Release serves.
ServingFacts(j) ==
  /\ At(j, "create") \/ At(j, "upload") => ReleaseOf(j).asset = None
  /\ At(j, "private") \/ At(j, "official") =>
       job[j].handed = ReleaseOf(j).asset

OneRuns == \A i, j \in Jobs : Running(i) /\ Running(j) => i = j

ServingInv ==
  /\ ~setting.overlap => OneRuns /\ \A j \in Jobs : ServingFacts(j)
  /\ StoresServeTheRelease

BudgetType ==
  [edits : 0..MaxEdits, tags : 0..MaxTags, faults : 0..MaxFaults]

\* What every step may do to the branch and to the tags that others rely on.
BranchGrows ==
  branch' = branch \/ \E tree \in Tree : branch' = Append(branch, tree)
TagsStay ==
  \A v \in Version : release[v].tag # 0 => release'[v].tag = release[v].tag

\* Job j moves and the other jobs do not.
Moves(j) ==
  job' \in [Jobs -> Job] /\ \A i \in Jobs : i # j => job'[i] = job[i]

-----------------------------------------------------------------------------
(* Lemmas about the shared state                                            *)

\* The variables, typed one by one.
LEMMA Fields ==
  ASSUME IInv
  PROVE  /\ setting \in Settings /\ setting \in Setting /\ upstream \in Version
         /\ branch \in Seq(Tree) /\ Tip \in Nat /\ Tip > 0
         /\ release \in [Version -> Release]
         /\ private \in [Version -> LPK \cup {None}]
         /\ official \in [Version -> LPK \cup {None}]
         /\ job \in [Jobs -> Job] /\ budget \in BudgetType
         /\ \A v \in Version : release[v].tag \in 0..Tip
         /\ \A j \in Jobs : JobFacts(job[j])
<1>1. TypeOK /\ branch \in Seq(Tree) /\ Tip \in Nat
  BY DEF IInv, TypeOK, Tip
<1>2. \A v \in Version : release[v].tag \in Nat
  BY <1>1 DEF TypeOK, Release
<1> QED BY <1>1, <1>2, SettingsAssumption DEF IInv, TypeOK, BudgetType

\* Every commit stays where it is, on a branch that keeps its type.
LEMMA CommitsStay ==
  ASSUME branch \in Seq(Tree), Tip > 0, BranchGrows
  PROVE  /\ branch' \in Seq(Tree) /\ Tip' \in Nat /\ Tip' >= Tip /\ Tip' > 0
         /\ \A i \in 1..Tip : branch'[i] = branch[i]
         /\ \A tree \in ToSet(branch) : tree \in ToSet(branch)'
<1>1. CASE branch' = branch
  BY <1>1 DEF Tip, ToSet
<1>2. ASSUME NEW tree \in Tree, branch' = Append(branch, tree)
      PROVE  /\ branch' \in Seq(Tree) /\ Tip' = Tip + 1
             /\ \A i \in 1..Tip : branch'[i] = branch[i]
  BY <1>2 DEF Tip
<1>3. ASSUME NEW tree \in Tree, branch' = Append(branch, tree)
      PROVE  \A t \in ToSet(branch) : t \in ToSet(branch)'
  BY <1>2, <1>3 DEF Tip, ToSet
<1> QED BY <1>1, <1>2, <1>3 DEF BranchGrows, Tip

\* What is known of a job that does not move stays true.
LEMMA OtherJobKeeps ==
  ASSUME IInv, BranchGrows, TagsStay, NEW j \in Jobs, job'[j] = job[j]
  PROVE  JobFacts(job[j])'
<1>1. /\ Tip' \in Nat /\ Tip' >= Tip /\ Tip \in Nat
      /\ \A i \in 1..Tip : branch'[i] = branch[i]
      /\ \A tree \in ToSet(branch) : tree \in ToSet(branch)'
  BY Fields, CommitsStay
<1>2. JobFacts(job[j]) /\ job[j] \in Job /\ job[j].sha \in Nat
      /\ job[j].commit \in Nat /\ job[j].serves \in 0..MaxVersion
  BY Fields DEF Job
<1>3. job[j].sha > 0 => job[j].sha \in 1..Tip
  BY <1>1, <1>2 DEF JobFacts
<1>4. job[j].sha > 0 => branch'[job[j].sha] = branch[job[j].sha]
  BY <1>1, <1>3
<1>5. CheckoutFacts(job[j])'
  <2>1. job[j].serves # 0 => job[j].serves \in Version
    BY <1>2, SettingsAssumption DEF Version
  <2> QED BY <1>2, <2>1 DEF JobFacts, CheckoutFacts, TagsStay
<1>6. TreeFacts(job[j])'
  <2>1. job[j].pc \in Committing \cup Releasing => job[j].sha > 0
    BY <1>2 DEF JobFacts, CheckoutFacts
  <2>2. TreeFacts(job[j])
    BY <1>2 DEF JobFacts
  <2>3. job[j].pc = "run" => job[j].pc \in Committing
    BY DEF Committing
  <2>4. /\ job'[j].pc \in Committing => Edits(job'[j].tree) = Edits(branch'[job'[j].sha])
        /\ job'[j].pc \in Releasing /\ job'[j].serves # 0 =>
             Edits(job'[j].tree) = Edits(branch'[job'[j].sha])
        /\ job'[j].pc = "run" /\ job'[j].serves = 0 =>
             job'[j].tree = branch'[job'[j].sha]
    BY <1>4, <2>1, <2>2, <2>3 DEF TreeFacts
  <2>5. job[j].pc \in Releasing /\ job[j].serves = 0 => job[j].tree \in ToSet(branch)'
    BY <1>1, <2>2 DEF TreeFacts
  <2> QED BY <2>2, <2>4, <2>5 DEF TreeFacts
<1>7. BuildFacts(job[j])'
  BY <1>2 DEF JobFacts, BuildFacts
<1>8. job'[j] \in Job /\ job'[j].sha <= Tip' /\ job'[j].commit <= Tip'
  BY <1>1, <1>2 DEF JobFacts
<1> QED BY <1>5, <1>6, <1>7, <1>8 DEF JobFacts

\* A step that leaves an asset or removes it keeps what is known of assets.
LEMMA AssetsKept ==
  ASSUME IInv, BranchGrows, TagsStay,
         \A v \in Version : release'[v].asset \in {None, release[v].asset}
  PROVE  AssetInv'
<1>1. /\ \A i \in 1..Tip : branch'[i] = branch[i]
      /\ \A tree \in ToSet(branch) : tree \in ToSet(branch)'
  BY Fields, CommitsStay
<1>2. SUFFICES ASSUME NEW v \in Version, release'[v].asset # None
               PROVE  /\ release'[v].asset.tree.version = v
                      /\ \/ release'[v].asset.tree \in ToSet(branch)'
                         \/ /\ release'[v].tag # 0
                            /\ Edits(release'[v].asset.tree) =
                                 Edits(branch'[release'[v].tag])
  BY DEF AssetInv
<1>3. release'[v].asset = release[v].asset /\ release[v].asset # None
  BY <1>2
<1>4. release[v].asset.tree.version = v
  BY <1>3 DEF IInv, AssetInv
<1>5. CASE release[v].asset.tree \in ToSet(branch)
  BY <1>1, <1>3, <1>4, <1>5
<1>6. CASE /\ release[v].tag # 0
           /\ Edits(release[v].asset.tree) = Edits(branch[release[v].tag])
  <2>1. release[v].tag \in 1..Tip
    BY <1>6, Fields
  <2>2. release'[v].tag = release[v].tag
    BY <1>6 DEF TagsStay
  <2> QED BY <1>1, <1>3, <1>4, <1>6, <2>1, <2>2
<1> QED BY <1>3, <1>5, <1>6 DEF IInv, AssetInv

\* A step of one job keeps the invariant, if what it does to the shared state
\* and to its own outputs is in order.
LEMMA StepKeeps ==
  ASSUME IInv, NEW j \in Jobs, BranchGrows, TagsStay, Moves(j),
         JobFacts(job[j])', setting' = setting, upstream' \in Version,
         release' \in [Version -> Release],
         \A v \in Version : release'[v].tag <= Tip',
         private' \in [Version -> LPK \cup {None}],
         official' \in [Version -> LPK \cup {None}],
         budget' \in BudgetType, AssetInv', RevInv'
  PROVE  IInv'
<1>1. \A i \in Jobs : JobFacts(job[i])'
  BY OtherJobKeeps DEF Moves
<1>2. branch' \in Seq(Tree) /\ Tip' > 0 /\ setting' \in Settings
  BY Fields, CommitsStay
<1>3. \A i \in Jobs : /\ job'[i].sha <= Tip' /\ job'[i].commit <= Tip'
                      /\ job'[i].handed # None =>
                           job'[i].handed.tree.version = V(i)'
  BY <1>1 DEF JobFacts, BuildFacts, V
<1>4. TypeOK'
  BY <1>2, <1>3 DEF TypeOK, Moves, BudgetType
<1> QED BY <1>1, <1>4 DEF IInv

\* The same for a step that changes nothing shared.
LEMMA LocalKeeps ==
  ASSUME IInv, NEW j \in Jobs, UNCHANGED <<setting, remote>>,
         budget' \in BudgetType, budget'.edits = budget.edits,
         Moves(j), JobFacts(job[j])'
  PROVE  IInv'
<1>1. /\ UNCHANGED <<setting, upstream, branch, release, private, official>>
      /\ Tip' = Tip
  BY DEF remote, Tip
<1>2. BranchGrows /\ TagsStay
  BY <1>1 DEF BranchGrows, TagsStay
<1>3. \A v \in Version : release'[v].tag <= Tip'
  BY <1>1, Fields
<1>4. AssetInv' /\ RevInv'
  BY <1>1 DEF IInv, AssetInv, RevInv
<1> QED BY <1>1, <1>2, <1>3, <1>4, Fields, StepKeeps

\* A job that ends leaves nothing behind.
LEMMA EndFacts ==
  ASSUME IInv, NEW j \in Jobs, End(j), Tip' \in Nat
  PROVE  Moves(j) /\ JobFacts(job[j])'
<1>1. IdleJob \in Job
  BY SettingsAssumption DEF IdleJob, Job, PC
<1>2. Moves(j) /\ job'[j] = IdleJob
  BY <1>1, Fields DEF End, Moves
<1> QED BY <1>1, <1>2
        DEF JobFacts, CheckoutFacts, TreeFacts, BuildFacts, IdleJob, Committing,
            Releasing

\* A job that goes on to step pc keeps its outputs.
LEMMA GotoMoves ==
  ASSUME IInv, NEW j \in Jobs, NEW pc \in PC, Goto(j, pc)
  PROVE  /\ Moves(j) /\ job'[j] = [job[j] EXCEPT !.pc = pc]
         /\ job'[j].pc = pc /\ job'[j].serves = job[j].serves
         /\ job'[j].sha = job[j].sha /\ job'[j].tree = job[j].tree
         /\ job'[j].commit = job[j].commit /\ job'[j].lpk = job[j].lpk
         /\ job'[j].handed = job[j].handed
<1>1. job \in [Jobs -> Job] /\ job[j] \in Job
  BY Fields
<1>2. job' = [job EXCEPT ![j].pc = pc]
  BY DEF Goto
<1>3. job'[j] = [job[j] EXCEPT !.pc = pc] /\ \A i \in Jobs : i # j => job'[i] = job[i]
  BY <1>1, <1>2
<1>4. [job[j] EXCEPT !.pc = pc] \in Job
  BY <1>1 DEF Job
<1>5. job' \in [Jobs -> Job]
  BY <1>1, <1>2, <1>3, <1>4
<1> QED BY <1>1, <1>3, <1>5 DEF Moves, Job

LEMMA SpendKeeps ==
  ASSUME IInv, NEW kind \in {"edits", "tags", "faults"}, Spend(kind)
  PROVE  /\ budget' \in BudgetType
         /\ budget'.edits = budget.edits + (IF kind = "edits" THEN 1 ELSE 0)
<1>1. budget \in BudgetType
  BY Fields
<1>2. CASE kind = "edits"
  BY <1>1, <1>2, SettingsAssumption DEF Spend, Bound, BudgetType
<1>3. CASE kind = "tags"
  BY <1>1, <1>3, SettingsAssumption DEF Spend, Bound, BudgetType
<1>4. CASE kind = "faults"
  BY <1>1, <1>4, SettingsAssumption DEF Spend, Bound, BudgetType
<1> QED BY <1>2, <1>3, <1>4

\* A step that changes the job only keeps the invariant, if the job's new
\* outputs are in order.
LEMMA SilentKeeps ==
  ASSUME IInv, NEW j \in Jobs, UNCHANGED <<setting, remote, budget>>,
         Moves(j), JobFacts(job[j])'
  PROVE  IInv'
  BY LocalKeeps, Fields

\* Nothing shared changes: the facts about the shared state are the same.
LEMMA SharedSame ==
  ASSUME UNCHANGED <<setting, remote>>
  PROVE  /\ branch' = branch /\ release' = release /\ upstream' = upstream
         /\ private' = private /\ official' = official /\ setting' = setting
         /\ Tip' = Tip /\ ToSet(branch)' = ToSet(branch)
  BY DEF remote, Tip

LEMMA EndKeeps ==
  ASSUME IInv, NEW j \in Jobs, UNCHANGED <<setting, remote, budget>>, End(j)
  PROVE  IInv'
<1>1. Tip' \in Nat
  BY SharedSame, Fields
<1> QED BY <1>1, EndFacts, SilentKeeps

\* Going on within the steps that make the Release, or to and within those of
\* the stores, keeps what is known of the outputs.
LEMMA GoesOn ==
  ASSUME IInv, NEW j \in Jobs, NEW pc \in PC, Goto(j, pc),
         BranchGrows, TagsStay,
         \/ job[j].pc \in Releasing /\ pc \in Releasing
         \/ /\ job[j].pc \notin {"idle", "pending"}
            /\ pc \in {"download", "private", "official", "sync", "put"}
         \/ /\ job[j].pc \in {"fetch", "push"}
            /\ pc \in {"push", "refetch"}
  PROVE  Moves(j) /\ JobFacts(job[j])'
<1>1. /\ Tip' \in Nat /\ Tip' >= Tip /\ Tip \in Nat
      /\ \A i \in 1..Tip : branch'[i] = branch[i]
      /\ \A tree \in ToSet(branch) : tree \in ToSet(branch)'
  BY Fields, CommitsStay
<1>2. JobFacts(job[j]) /\ job[j] \in Job /\ job[j].sha \in Nat
      /\ job[j].commit \in Nat /\ job[j].serves \in 0..MaxVersion
  BY Fields DEF Job
<1>3. job[j].sha > 0 => branch'[job[j].sha] = branch[job[j].sha]
  BY <1>1, <1>2 DEF JobFacts
<1>4. job[j].pc \notin {"idle", "pending"}
  BY DEF Releasing
<1>5. /\ Moves(j) /\ job'[j] \in Job
      /\ job'[j].pc = pc /\ job'[j].serves = job[j].serves
      /\ job'[j].sha = job[j].sha /\ job'[j].tree = job[j].tree
      /\ job'[j].commit = job[j].commit /\ job'[j].lpk = job[j].lpk
      /\ job'[j].handed = job[j].handed
  BY GotoMoves DEF Moves
<1>6. CheckoutFacts(job[j])'
  <2>1. job[j].serves # 0 => job[j].serves \in Version
    BY <1>2, SettingsAssumption DEF Version
  <2> QED BY <1>2, <1>5, <2>1
          DEF JobFacts, CheckoutFacts, TagsStay, Committing, Releasing
<1>7. TreeFacts(job[j])'
  <2>1. job[j].pc \in Committing \cup Releasing => job[j].sha > 0
    BY <1>2 DEF JobFacts, CheckoutFacts
  <2>2. TreeFacts(job[j])
    BY <1>2 DEF JobFacts
  <2>3. pc \in Committing =>
          /\ pc # "run" /\ job[j].pc \in Committing
    BY DEF Committing, Releasing
  <2>4. pc \in Releasing => job[j].pc \in Releasing
    BY DEF Releasing
  <2>5. /\ job'[j].pc \in Committing => Edits(job'[j].tree) = Edits(branch'[job'[j].sha])
        /\ job'[j].pc \in Releasing /\ job'[j].serves # 0 =>
             Edits(job'[j].tree) = Edits(branch'[job'[j].sha])
    BY <1>3, <1>5, <2>1, <2>2, <2>3, <2>4 DEF TreeFacts
  <2>6. pc \in Releasing /\ job[j].serves = 0 => job[j].tree \in ToSet(branch)'
    BY <1>1, <2>2, <2>4 DEF TreeFacts
  <2>7. job'[j].tree \in Tree /\ job'[j].pc # "run"
    BY <1>4, <1>5, <2>2 DEF TreeFacts, Releasing
  <2> QED BY <1>5, <2>2, <2>4, <2>5, <2>6, <2>7 DEF TreeFacts
<1>8. BuildFacts(job[j])'
  BY <1>2, <1>5 DEF JobFacts, BuildFacts, Committing, Releasing
<1> QED BY <1>1, <1>2, <1>5, <1>6, <1>7, <1>8 DEF JobFacts

\* The same, for a step that changes nothing shared.
LEMMA GotoKeeps ==
  ASSUME IInv, NEW j \in Jobs, NEW pc \in PC, Goto(j, pc),
         UNCHANGED <<setting, remote, budget>>,
         \/ job[j].pc \in Releasing /\ pc \in Releasing
         \/ /\ job[j].pc \notin {"idle", "pending"}
            /\ pc \in {"download", "private", "official", "sync", "put"}
         \/ /\ job[j].pc \in {"fetch", "push"}
            /\ pc \in {"push", "refetch"}
  PROVE  IInv'
<1>1. BranchGrows /\ TagsStay
  BY SharedSame DEF BranchGrows, TagsStay
<1> QED BY <1>1, GoesOn, SilentKeeps

-----------------------------------------------------------------------------
(* Events that queue jobs                                                   *)

\* A queued job has nothing but the commit and the tag it is for.
Queued(sha, serves) ==
  [IdleJob EXCEPT !.pc = "pending", !.sha = sha, !.serves = serves]

LEMMA QueuedJob ==
  ASSUME NEW sha \in Nat, NEW serves \in 0..MaxVersion
  PROVE  /\ Queued(sha, serves) \in Job
         /\ Queued(sha, serves).pc = "pending" /\ Queued(sha, serves).sha = sha
         /\ Queued(sha, serves).serves = serves /\ Queued(sha, serves).lpk = None
         /\ Queued(sha, serves).handed = None /\ Queued(sha, serves).commit = 0
<1>1. IdleJob \in Job
  BY SettingsAssumption DEF IdleJob, Job, PC
<1>2. IdleJob.lpk = None /\ IdleJob.handed = None /\ IdleJob.commit = 0
  BY DEF IdleJob
<1> QED BY <1>1, <1>2 DEF Job, PC, Queued

LEMMA TriggerStep ==
  ASSUME IInv, NEW j \in Jobs, Trigger(j)
  PROVE  IInv'
<1>1. UNCHANGED <<setting, remote, budget>>
  BY DEF Trigger
<1> DEFINE r == [IdleJob EXCEPT !.pc = "pending", !.sha = Tip]
<1>2. /\ r \in Job /\ r.pc = "pending" /\ r.sha = Tip /\ r.serves = 0
      /\ r.lpk = None /\ r.handed = None /\ r.commit = 0
  <2>1. IdleJob \in Job /\ Tip \in Nat
    BY Fields, SettingsAssumption DEF IdleJob, Job, PC
  <2>2. /\ IdleJob.lpk = None /\ IdleJob.handed = None /\ IdleJob.commit = 0
        /\ IdleJob.serves = 0
    BY DEF IdleJob
  <2> QED BY <2>1, <2>2 DEF Job, PC
<1>3. job' = [job EXCEPT ![j] = r]
  BY DEF Trigger
<1> HIDE DEF r
<1>4. Moves(j) /\ job'[j] = r
  BY <1>2, <1>3, Fields DEF Moves
<1>5. JobFacts(job[j])'
  BY <1>1, <1>2, <1>4, SharedSame, Fields
  DEF JobFacts, CheckoutFacts, TreeFacts, BuildFacts, Committing, Releasing
<1> QED BY <1>1, <1>4, <1>5, SilentKeeps

LEMMA RerunStep ==
  ASSUME IInv, NEW j \in Jobs, Rerun(j)
  PROVE  IInv'
<1>1. UNCHANGED <<setting, remote>> /\ Spend("tags")
  BY DEF Rerun
<1>2. PICK v \in Version :
        /\ release[v].tag # 0
        /\ job' = [job EXCEPT ![j] = [IdleJob EXCEPT !.pc = "pending",
                                        !.sha = release[v].tag, !.serves = v]]
  BY DEF Rerun
<1> DEFINE r == Queued(release[v].tag, v)
<1>3. /\ release[v].tag \in 1..Tip /\ release[v].tag \in Nat
      /\ v \in 0..MaxVersion
  BY <1>2, Fields, SettingsAssumption DEF Version
<1>4. /\ r \in Job /\ r.pc = "pending" /\ r.sha = release[v].tag /\ r.serves = v
      /\ r.lpk = None /\ r.handed = None /\ r.commit = 0
  <2>1. Tip \in Nat
    BY Fields
  <2> QED BY <1>3, <2>1, QueuedJob
<1>5. job' = [job EXCEPT ![j] = r]
  BY <1>2 DEF Queued
<1> HIDE DEF r
<1>6. Moves(j) /\ job'[j] = r
  BY <1>4, <1>5, Fields DEF Moves
<1>7. JobFacts(job[j])'
  BY <1>1, <1>3, <1>4, <1>6, SharedSame, Fields
  DEF JobFacts, CheckoutFacts, TreeFacts, BuildFacts, Committing, Releasing
<1>8. budget' \in BudgetType /\ budget'.edits = budget.edits
  BY <1>1, SpendKeeps, Fields DEF BudgetType
<1> QED BY <1>1, <1>6, <1>7, <1>8, LocalKeeps

LEMMA TagPushedStep ==
  ASSUME IInv, NEW j \in Jobs, TagPushed(j)
  PROVE  IInv'
<1>1. PICK v \in Version, exists \in BOOLEAN :
        /\ Spend("tags") /\ release[v].tag = 0
        /\ release' = [release EXCEPT ![v].tag = Tip, ![v].exists = exists]
        /\ job' = [job EXCEPT ![j] =
              [IdleJob EXCEPT !.pc = "pending", !.sha = Tip, !.serves = v]]
  BY DEF TagPushed
<1>2. UNCHANGED <<setting, upstream, branch, private, official>> /\ Tip' = Tip
  BY DEF TagPushed, stores, Tip
<1> DEFINE r == Queued(Tip, v)
<1>3. v \in 0..MaxVersion /\ Tip \in 0..Tip
  BY Fields, SettingsAssumption DEF Version
<1>4. /\ r \in Job /\ r.pc = "pending" /\ r.sha = Tip /\ r.serves = v
      /\ r.lpk = None /\ r.handed = None /\ r.commit = 0
  <2>1. Tip \in Nat
    BY Fields
  <2> QED BY <1>3, <2>1, QueuedJob
<1>5. job' = [job EXCEPT ![j] = r]
  BY <1>1 DEF Queued
<1> HIDE DEF r
<1>6. Moves(j) /\ job'[j] = r
  BY <1>4, <1>5, Fields DEF Moves
<1>7. /\ release' \in [Version -> Release]
      /\ release'[v].tag = Tip /\ release'[v].asset = release[v].asset
      /\ \A w \in Version : w # v => release'[w] = release[w]
  BY <1>1, Fields DEF Release
<1>8. BranchGrows /\ TagsStay
  BY <1>1, <1>2, <1>7 DEF BranchGrows, TagsStay
<1>9. \A w \in Version : /\ release'[w].tag <= Tip'
                         /\ release'[w].asset \in {None, release[w].asset}
  BY <1>2, <1>7, Fields
<1>10. AssetInv'
  BY <1>8, <1>9, AssetsKept
<1>11. JobFacts(job[j])'
  BY <1>2, <1>4, <1>6, <1>7, Fields
  DEF JobFacts, CheckoutFacts, TreeFacts, BuildFacts, Committing, Releasing
<1>12. budget' \in BudgetType /\ budget'.edits = budget.edits
  BY <1>1, SpendKeeps, Fields DEF BudgetType
<1>13. RevInv'
  BY <1>2, <1>12 DEF IInv, RevInv
<1> QED BY <1>2, <1>6, <1>7, <1>8, <1>9, <1>10, <1>11, <1>12, <1>13, Fields,
           StepKeeps

\* Start: the tree is the one of github.sha, which for a tag is the tag's.
LEMMA StartStep ==
  ASSUME IInv, NEW j \in Jobs, Start(j)
  PROVE  IInv'
<1>1. UNCHANGED <<setting, remote, budget>> /\ job[j].pc = "pending"
  BY DEF Start, At
<1>2. JobFacts(job[j]) /\ job[j] \in Job /\ job[j].sha \in 1..Tip
      /\ job[j].handed = None /\ job[j].lpk = None
  BY <1>1, Fields DEF JobFacts, CheckoutFacts, BuildFacts, Job
<1>3. branch[job[j].sha] \in Tree
  BY <1>2, Fields DEF Tip
<1>4. job' = [job EXCEPT ![j].pc = "run", ![j].tree = branch[job[j].sha]]
  BY DEF Start
<1>5. /\ Moves(j) /\ job'[j] \in Job
      /\ job'[j].pc = "run" /\ job'[j].serves = job[j].serves
      /\ job'[j].sha = job[j].sha /\ job'[j].tree = branch[job[j].sha]
      /\ job'[j].commit = job[j].commit /\ job'[j].lpk = job[j].lpk
      /\ job'[j].handed = job[j].handed
  BY <1>2, <1>3, <1>4, Fields DEF Job, PC, Moves
<1>6. CheckoutFacts(job[j])'
  BY <1>1, <1>2, <1>5, SharedSame DEF JobFacts, CheckoutFacts
<1>7. TreeFacts(job[j])'
  BY <1>1, <1>2, <1>3, <1>5, SharedSame DEF TreeFacts, Committing, Releasing
<1>8. BuildFacts(job[j])'
  BY <1>2, <1>5 DEF BuildFacts
<1>9. JobFacts(job[j])'
  BY <1>1, <1>2, <1>5, <1>6, <1>7, <1>8, SharedSame DEF JobFacts
<1> QED BY <1>1, <1>5, <1>9, SilentKeeps

LEMMA DiesStep ==
  ASSUME IInv, NEW j \in Jobs, Dies(j)
  PROVE  IInv'
<1>1. UNCHANGED <<setting, remote>> /\ Spend("faults") /\ End(j)
  BY DEF Dies
<1>2. budget' \in BudgetType /\ budget'.edits = budget.edits
  BY <1>1, SpendKeeps, Fields DEF BudgetType
<1>3. Tip' \in Nat
  BY <1>1, SharedSame, Fields
<1> QED BY <1>1, <1>2, <1>3, EndFacts, LocalKeeps

-----------------------------------------------------------------------------
(* The Action and the commit of its edit                                    *)

\* What a job knows, one fact at a time.
LEMMA KnownOfJob ==
  ASSUME IInv, NEW j \in Jobs
  PROVE  /\ job[j] \in Job /\ JobFacts(job[j])
         /\ job[j].sha \in 0..Tip /\ job[j].commit \in 0..Tip
         /\ job[j].pc \notin {"idle", "pending"} => job[j].tree \in Tree
         /\ job[j].serves # 0 => job[j].serves \in Version
<1>1. JobFacts(job[j]) /\ job[j] \in Job /\ job[j].serves \in 0..MaxVersion
      /\ job[j].sha \in Nat /\ job[j].commit \in Nat
  BY Fields DEF Job
<1>2. job[j].sha <= Tip /\ job[j].commit <= Tip
  BY <1>1 DEF JobFacts
<1> QED BY <1>1, <1>2, Fields, SettingsAssumption DEF JobFacts, TreeFacts, Version

\* The Action changes the version only, and builds what it changed.
LEMMA RunActionStep ==
  ASSUME IInv, NEW j \in Jobs, RunAction(j)
  PROVE  IInv'
<1>1. UNCHANGED <<setting, remote, budget>> /\ job[j].pc = "run"
  BY DEF RunAction, At
<1>2. /\ JobFacts(job[j]) /\ job[j] \in Job /\ job[j].tree \in Tree
      /\ job[j].sha \in 1..Tip /\ job[j].handed = None
      /\ Edits(job[j].tree) = Edits(branch[job[j].sha])
      /\ job[j].serves = 0 => job[j].tree = branch[job[j].sha]
      /\ job[j].serves # 0 => release[job[j].serves].tag = job[j].sha
  BY <1>1, KnownOfJob DEF JobFacts, CheckoutFacts, TreeFacts, Committing
<1>3. NextVersion(j) \in Version /\ (job[j].serves # 0 => NextVersion(j) = job[j].serves)
  BY <1>2, KnownOfJob, Fields DEF NextVersion, ForTag, V, Tree
<1> DEFINE tree == [job[j].tree EXCEPT !.version = NextVersion(j)]
           changed == tree # job[j].tree
<1>4. /\ tree \in Tree /\ tree.version = NextVersion(j)
      /\ Edits(tree) = Edits(branch[job[j].sha])
  BY <1>2, <1>3 DEF Tree, Edits
<1>5. PICK build \in setting.builds :
        job' = [job EXCEPT ![j].tree = tree, ![j].changed = changed,
                  ![j].lpk = IF changed \/ ForTag(j)
                             THEN [tree |-> tree, build |-> build] ELSE None,
                  ![j].pc = IF changed /\ ~ForTag(j)
                            THEN "fetch" ELSE "classify"]
  BY DEF RunAction
<1>6. changed \in BOOLEAN /\ (~changed => tree = job[j].tree)
  OBVIOUS
<1>7. [tree |-> tree, build |-> build] \in LPK
  BY <1>4, Fields DEF LPK, Setting
<1> DEFINE lpk == IF changed \/ ForTag(j)
                  THEN [tree |-> tree, build |-> build] ELSE None
           pc == IF changed /\ ~ForTag(j) THEN "fetch" ELSE "classify"
           r == [job[j] EXCEPT !.tree = tree, !.changed = changed,
                               !.lpk = lpk, !.pc = pc]
<1> HIDE DEF tree, changed
<1>a. lpk \in LPK \cup {None} /\ pc \in PC
  BY <1>7 DEF PC
<1>b. job \in [Jobs -> Job]
  BY Fields
<1>c. /\ job' = [job EXCEPT ![j] = r]
      /\ \A i \in Jobs : i # j => job'[i] = job[i]
  <2> HIDE DEF lpk, pc
  <2>1. job' = [job EXCEPT ![j].tree = tree, ![j].changed = changed,
                  ![j].lpk = lpk, ![j].pc = pc]
    BY <1>5 DEF lpk, pc
  <2> QED BY <1>b, <2>1
<1>d. /\ r \in Job /\ r.pc = pc /\ r.serves = job[j].serves
      /\ r.sha = job[j].sha /\ r.tree = tree /\ r.commit = job[j].commit
      /\ r.lpk = lpk /\ r.handed = job[j].handed
  <2> HIDE DEF lpk, pc
  <2> QED BY <1>2, <1>4, <1>6, <1>a DEF Job
<1>e. job' \in [Jobs -> Job] /\ job'[j] = r
  <2> HIDE DEF r
  <2> QED BY <1>b, <1>c, <1>d
<1>8. /\ Moves(j) /\ job'[j] \in Job
      /\ job'[j].pc = (IF changed /\ ~ForTag(j) THEN "fetch" ELSE "classify")
      /\ job'[j].serves = job[j].serves
      /\ job'[j].sha = job[j].sha /\ job'[j].tree = tree
      /\ job'[j].commit = job[j].commit
      /\ job'[j].lpk = (IF changed \/ ForTag(j)
                        THEN [tree |-> tree, build |-> build] ELSE None)
      /\ job'[j].handed = None
  <2> HIDE DEF r
  <2> QED BY <1>2, <1>c, <1>d, <1>e DEF Moves
<1>9. CheckoutFacts(job[j])'
  BY <1>1, <1>2, <1>8, SharedSame DEF CheckoutFacts, ForTag
<1>10. TreeFacts(job[j])'
  <2>1. job[j].serves = 0 /\ ~changed => tree \in ToSet(branch)
    BY <1>2, <1>6, Fields DEF ToSet, Tip
  <2>2. job[j].serves # 0 => tree.version = job[j].serves
    BY <1>3, <1>4
  <2> QED BY <1>1, <1>4, <1>8, <2>1, <2>2, SharedSame
          DEF TreeFacts, Committing, Releasing, ForTag
<1>11. BuildFacts(job[j])'
  BY <1>8 DEF BuildFacts
<1>12. JobFacts(job[j])'
  BY <1>1, <1>2, <1>8, <1>9, <1>10, <1>11, KnownOfJob, SharedSame DEF JobFacts
<1> QED BY <1>1, <1>8, <1>12, SilentKeeps

\* Adopting a branch whose tip is the working tree.
LEMMA AdoptKeeps ==
  ASSUME IInv, NEW j \in Jobs, AdoptMatchingRemote(j),
         WorkingTreeMatchesRemote(j), job[j].pc \in {"fetch", "refetch"},
         UNCHANGED <<setting, remote, budget>>
  PROVE  IInv'
<1>1. /\ JobFacts(job[j]) /\ job[j] \in Job /\ job[j].tree \in Tree
      /\ job[j].sha \in 1..Tip /\ job[j].handed = None /\ job[j].serves = 0
      /\ job[j].lpk # None => job[j].lpk.tree = job[j].tree
  BY KnownOfJob DEF JobFacts, CheckoutFacts, BuildFacts, Committing
<1>2. /\ Moves(j) /\ job'[j] \in Job
      /\ job'[j].pc = "classify" /\ job'[j].serves = 0
      /\ job'[j].sha = job[j].sha /\ job'[j].tree = job[j].tree
      /\ job'[j].commit = Tip /\ job'[j].lpk = job[j].lpk
      /\ job'[j].handed = None
  BY <1>1, Fields DEF AdoptMatchingRemote, Job, PC, Moves
<1>3. job[j].tree \in ToSet(branch)
  BY Fields DEF WorkingTreeMatchesRemote, ToSet, Tip
<1>4. CheckoutFacts(job[j])'
  BY <1>1, <1>2, SharedSame DEF CheckoutFacts
<1>5. TreeFacts(job[j])'
  BY <1>1, <1>2, <1>3, SharedSame DEF TreeFacts, Committing, Releasing
<1>6. BuildFacts(job[j])'
  BY <1>1, <1>2 DEF BuildFacts
<1>7. JobFacts(job[j])'
  BY <1>1, <1>2, <1>4, <1>5, <1>6, KnownOfJob, Fields, SharedSame DEF JobFacts
<1> QED BY <1>2, <1>7, SilentKeeps

LEMMA FetchStep ==
  ASSUME IInv, NEW j \in Jobs, Fetch(j)
  PROVE  IInv'
<1>1. UNCHANGED <<setting, remote, budget>> /\ job[j].pc = "fetch"
  BY DEF Fetch, At
<1>2. CASE WorkingTreeMatchesRemote(j)
  BY <1>1, <1>2, AdoptKeeps DEF Fetch
<1>3. CASE ~WorkingTreeMatchesRemote(j)
  <2>1. Goto(j, "push") /\ "push" \in PC
    BY <1>3 DEF Fetch, PC
  <2> QED BY <1>1, <2>1, GotoKeeps
<1> QED BY <1>2, <1>3

LEMMA RefetchStep ==
  ASSUME IInv, NEW j \in Jobs, Refetch(j)
  PROVE  IInv'
<1>1. UNCHANGED <<setting, remote, budget>> /\ job[j].pc = "refetch"
  BY DEF Refetch, At
<1>2. CASE MayAdopt(j)
  BY <1>1, <1>2, AdoptKeeps DEF Refetch, MayAdopt
<1>3. CASE ~MayAdopt(j)
  BY <1>1, <1>3, EndKeeps DEF Refetch
<1> QED BY <1>2, <1>3

\* An accepted push puts the working tree on top of the commit it was made from.
LEMMA PushStep ==
  ASSUME IInv, NEW j \in Jobs, Push(j)
  PROVE  IInv' /\ (branch' = branch \/
           /\ branch' = Append(branch, job[j].tree)
           /\ Edits(branch'[Len(branch')]) = Edits(branch[Tip]))
<1>1. job[j].pc = "push"
      /\ UNCHANGED <<setting, upstream, release, private, official, budget>>
  BY DEF Push, At, stores
<1>2. CASE ~PushAccepted(j)
  <2>1. UNCHANGED <<setting, remote, budget>> /\ Goto(j, "refetch")
        /\ "refetch" \in PC /\ branch' = branch
    BY <1>1, <1>2 DEF Push, remote, PC
  <2> QED BY <1>1, <2>1, GotoKeeps
<1>3. CASE PushAccepted(j)
  <2>1. /\ branch' = Append(branch, job[j].tree)
        /\ job' = [job EXCEPT ![j].commit = Tip + 1, ![j].pc = "classify"]
        /\ job[j].sha = Tip
    BY <1>3 DEF Push, PushAccepted
  <2>2. /\ JobFacts(job[j]) /\ job[j] \in Job /\ job[j].tree \in Tree
        /\ job[j].handed = None /\ job[j].serves = 0
        /\ job[j].tree.rev = branch[Tip].rev /\ job[j].tree.meta = branch[Tip].meta
        /\ job[j].lpk # None => job[j].lpk.tree = job[j].tree
    BY <1>1, <2>1, KnownOfJob
    DEF JobFacts, CheckoutFacts, TreeFacts, BuildFacts, Committing, Edits
  <2>3. /\ BranchGrows /\ Tip \in Nat /\ Tip > 0 /\ Tip' = Tip + 1
        /\ branch'[Tip'] = job[j].tree /\ job[j].tree \in ToSet(branch)'
        /\ \A i \in 1..Tip : branch'[i] = branch[i]
    <3>1. Tip \in Nat /\ Tip > 0 /\ branch \in Seq(Tree)
      BY Fields
    <3> QED BY <2>1, <2>2, <3>1 DEF BranchGrows, Tip, ToSet
  <2>4. /\ Moves(j) /\ job'[j] \in Job
        /\ job'[j].pc = "classify" /\ job'[j].serves = 0
        /\ job'[j].sha = Tip /\ job'[j].tree = job[j].tree
        /\ job'[j].commit = Tip + 1 /\ job'[j].lpk = job[j].lpk
        /\ job'[j].handed = None
    <3> DEFINE r == [job[j] EXCEPT !.commit = Tip + 1, !.pc = "classify"]
    <3>1. job' = [job EXCEPT ![j] = r]
      BY <2>1
    <3>2. Tip + 1 \in Nat /\ "classify" \in PC
      BY <2>3 DEF PC
    <3>3. /\ r \in Job /\ r.pc = "classify" /\ r.serves = 0
          /\ r.sha = Tip /\ r.tree = job[j].tree /\ r.commit = Tip + 1
          /\ r.lpk = job[j].lpk /\ r.handed = None
      BY <2>1, <2>2, <3>2 DEF Job
    <3> HIDE DEF r
    <3> QED BY <3>1, <3>3, Fields DEF Moves
  <2>5. TagsStay /\ \A v \in Version : release'[v].tag <= Tip'
    BY <1>1, <2>3, Fields DEF TagsStay
  <2>6. AssetInv'
    BY <1>1, <2>3, <2>5, AssetsKept
  <2>7. RevInv'
    <3>1. ASSUME NEW i \in 1..Tip' PROVE branch'[i].rev <= budget'.edits
      BY <1>1, <2>2, <2>3 DEF IInv, RevInv
    <3> QED BY <3>1 DEF RevInv
  <2>8. CheckoutFacts(job[j])' /\ BuildFacts(job[j])'
    BY <2>2, <2>3, <2>4 DEF CheckoutFacts, BuildFacts
  <2>9. TreeFacts(job[j])'
    BY <2>2, <2>3, <2>4 DEF TreeFacts, Committing, Releasing
  <2>10. JobFacts(job[j])'
    BY <2>3, <2>4, <2>8, <2>9 DEF JobFacts
  <2>11. /\ upstream' \in Version /\ release' \in [Version -> Release]
         /\ private' \in [Version -> LPK \cup {None}]
         /\ official' \in [Version -> LPK \cup {None}] /\ budget' \in BudgetType
    BY <1>1, Fields
  <2>12. IInv'
    BY <1>1, <2>3, <2>4, <2>5, <2>6, <2>7, <2>10, <2>11, StepKeeps
  <2> QED BY <2>1, <2>2, <2>3, <2>12 DEF Tip, Edits
<1> QED BY <1>2, <1>3

-----------------------------------------------------------------------------
(* The Release                                                              *)

LEMMA ClassifyStep ==
  ASSUME IInv, NEW j \in Jobs, Classify(j)
  PROVE  IInv'
<1>1. UNCHANGED <<setting, remote, budget>> /\ job[j].pc \in Releasing
  BY DEF Classify, At, Releasing
<1> DEFINE pc == IF ~ShouldRelease(j) THEN "locate"
                 ELSE IF job[j].lpk = None THEN "recover" ELSE "inspect"
<1>2. Goto(j, pc) /\ pc \in PC /\ pc \in Releasing
  BY DEF Classify, PC, Releasing
<1> HIDE DEF pc
<1> QED BY <1>1, <1>2, GotoKeeps

\* The recovery build is of the working tree.
LEMMA RecoveryBuildStep ==
  ASSUME IInv, NEW j \in Jobs, RecoveryBuild(j)
  PROVE  IInv'
<1>1. UNCHANGED <<setting, remote, budget>> /\ job[j].pc = "recover"
  BY DEF RecoveryBuild, At
<1>2. /\ JobFacts(job[j]) /\ job[j] \in Job /\ job[j].tree \in Tree
  BY <1>1, KnownOfJob
<1>3. PICK build \in setting.builds :
        job' = [job EXCEPT ![j].lpk = [tree |-> job[j].tree, build |-> build],
                           ![j].pc = "inspect"]
  BY DEF RecoveryBuild
<1> DEFINE lpk == [tree |-> job[j].tree, build |-> build]
<1>4. lpk \in LPK /\ lpk.tree = job[j].tree
  BY <1>2, Fields DEF LPK, Setting
<1>5. /\ Moves(j) /\ job'[j] \in Job
      /\ job'[j].pc = "inspect" /\ job'[j].serves = job[j].serves
      /\ job'[j].sha = job[j].sha /\ job'[j].tree = job[j].tree
      /\ job'[j].commit = job[j].commit /\ job'[j].lpk = lpk
      /\ job'[j].handed = job[j].handed
  BY <1>2, <1>3, <1>4, Fields DEF Job, PC, Moves
<1>6. CheckoutFacts(job[j])'
  BY <1>1, <1>2, <1>5, SharedSame DEF JobFacts, CheckoutFacts, Releasing
<1>7. TreeFacts(job[j])'
  BY <1>1, <1>2, <1>5, SharedSame DEF JobFacts, TreeFacts, Committing, Releasing
<1>8. BuildFacts(job[j])'
  BY <1>1, <1>2, <1>4, <1>5 DEF JobFacts, BuildFacts
<1>9. JobFacts(job[j])'
  BY <1>1, <1>2, <1>5, <1>6, <1>7, <1>8, SharedSame DEF JobFacts
<1> QED BY <1>1, <1>5, <1>9, SilentKeeps

\* Inspection, and what may follow it.
LEMMA InspectAssetStep ==
  ASSUME IInv, NEW j \in Jobs, InspectAsset(j)
  PROVE  IInv'
<1>1. UNCHANGED <<setting, remote, budget>> /\ job[j].pc \in Releasing
  BY DEF InspectAsset, At, Releasing
<1>2. CASE AfterInspection(j) = "idle"
  BY <1>1, <1>2, EndKeeps DEF InspectAsset
<1>3. CASE AfterInspection(j) # "idle"
  <2>1. /\ Goto(j, AfterInspection(j)) /\ AfterInspection(j) \in PC
        /\ AfterInspection(j) \in Releasing
    BY <1>3 DEF InspectAsset, AfterInspection, PC, Releasing
  <2> QED BY <1>1, <2>1, GotoKeeps
<1> QED BY <1>2, <1>3

\* A Release that changes leaves the rest of the shared state as it was.
LEMMA ReleaseKeeps ==
  ASSUME IInv, NEW j \in Jobs, Moves(j), JobFacts(job[j])',
         UNCHANGED <<setting, upstream, branch, private, official, budget>>,
         release' \in [Version -> Release], TagsStay,
         \A v \in Version : release'[v].tag <= Tip, AssetInv'
  PROVE  IInv'
<1>1. BranchGrows /\ Tip' = Tip
  BY DEF BranchGrows, Tip
<1>2. RevInv'
  BY <1>1 DEF IInv, RevInv
<1>3. /\ upstream' \in Version /\ budget' \in BudgetType
      /\ private' \in [Version -> LPK \cup {None}]
      /\ official' \in [Version -> LPK \cup {None}]
  BY Fields
<1> QED BY <1>1, <1>2, <1>3, StepKeeps

\* A tag is created only where there is none.
LEMMA CreateReleaseStep ==
  ASSUME IInv, NEW j \in Jobs, CreateRelease(j)
  PROVE  IInv'
<1>1. /\ UNCHANGED <<setting, upstream, branch, private, official, budget>>
      /\ job[j].pc \in Releasing /\ job[j].pc = "create"
      /\ Goto(j, "upload") /\ "upload" \in PC /\ "upload" \in Releasing
  BY DEF CreateRelease, At, Releasing, stores, PC
<1>2. /\ TargetCommitish(j) \in 0..Tip /\ job[j].tree \in Tree /\ V(j) \in Version
  BY <1>1, KnownOfJob DEF TargetCommitish, V, Tree
<1> DEFINE tag == IF release[V(j)].tag # 0 THEN release[V(j)].tag
                  ELSE TargetCommitish(j)
<1>3. tag \in Nat /\ tag <= Tip /\ (release[V(j)].tag # 0 => tag = release[V(j)].tag)
  BY <1>2, Fields
<1>4. release' = [release EXCEPT ![V(j)].exists = TRUE, ![V(j)].tag = tag]
  <2>1. release' = [release EXCEPT ![V(j)].exists = TRUE,
                      ![V(j)].tag = IF @ # 0 THEN @ ELSE TargetCommitish(j)]
    BY DEF CreateRelease
  <2> QED BY <2>1, <1>2, Fields DEF Release
<1> HIDE DEF tag
<1>5. /\ release' \in [Version -> Release]
      /\ release'[V(j)].tag = tag /\ release'[V(j)].asset = release[V(j)].asset
      /\ \A v \in Version : v # V(j) => release'[v] = release[v]
  BY <1>2, <1>3, <1>4, Fields DEF Release
<1>6. BranchGrows /\ TagsStay
  BY <1>1, <1>3, <1>5 DEF BranchGrows, TagsStay
<1>7. \A v \in Version : /\ release'[v].tag <= Tip
                         /\ release'[v].asset \in {None, release[v].asset}
  BY <1>3, <1>5, Fields
<1>8. AssetInv'
  BY <1>6, <1>7, AssetsKept
<1>9. Moves(j) /\ JobFacts(job[j])'
  BY <1>1, <1>6, GoesOn
<1> QED BY <1>1, <1>5, <1>6, <1>7, <1>8, <1>9, ReleaseKeeps

\* The file uploaded is of the job's tree, which is on the branch or the tag's.
LEMMA UploadAssetStep ==
  ASSUME IInv, NEW j \in Jobs, UploadAsset(j)
  PROVE  IInv'
<1>1. /\ UNCHANGED <<setting, upstream, branch, private, official, budget>>
      /\ job[j].pc = "upload" /\ job[j].pc \in Releasing
  BY DEF UploadAsset, At, Releasing, stores
<1>2. /\ JobFacts(job[j]) /\ job[j] \in Job /\ job[j].tree \in Tree
      /\ V(j) \in Version /\ job[j].lpk \in LPK \cup {None} /\ None \in LPK \cup {None}
  BY <1>1, KnownOfJob DEF V, Tree, Job
<1> DEFINE lpk == IF ReleaseOf(j).asset # None THEN None ELSE job[j].lpk
<1>3. release' = [release EXCEPT ![V(j)].asset = lpk]
  BY DEF UploadAsset
<1>4. lpk \in LPK \cup {None} /\ lpk \in {None, job[j].lpk}
  BY <1>2
<1> HIDE DEF lpk
<1>5. /\ release' \in [Version -> Release] /\ release'[V(j)].asset = lpk
      /\ release'[V(j)].tag = release[V(j)].tag
      /\ \A v \in Version : v # V(j) => release'[v] = release[v]
  <2>1. release \in [Version -> Release] /\ release[V(j)] \in Release
    BY <1>2, Fields
  <2>2. [release[V(j)] EXCEPT !.asset = lpk] \in Release
    BY <1>4, <2>1 DEF Release
  <2>3. /\ release'[V(j)] = [release[V(j)] EXCEPT !.asset = lpk]
        /\ \A v \in Version : v # V(j) => release'[v] = release[v]
        /\ release' \in [Version -> Release]
    BY <1>2, <1>3, <2>1, <2>2
  <2>4. /\ [release[V(j)] EXCEPT !.asset = lpk].asset = lpk
        /\ [release[V(j)] EXCEPT !.asset = lpk].tag = release[V(j)].tag
    BY <2>1 DEF Release
  <2> QED BY <2>3, <2>4
<1>6. BranchGrows /\ TagsStay /\ \A v \in Version : release'[v].tag <= Tip
  <2>1. \A v \in Version : release[v].tag \in 0..Tip /\ Tip \in Nat
    BY Fields
  <2>2. \A v \in Version : release'[v].tag = release[v].tag
    BY <1>5
  <2> QED BY <1>1, <2>1, <2>2 DEF BranchGrows, TagsStay
<1>7. AssetInv'
  <2>1. SUFFICES ASSUME NEW v \in Version, release'[v].asset # None
                 PROVE  /\ release'[v].asset.tree.version = v
                        /\ \/ release'[v].asset.tree \in ToSet(branch)
                           \/ /\ release'[v].tag # 0
                              /\ Edits(release'[v].asset.tree) =
                                   Edits(branch[release'[v].tag])
    BY <1>1 DEF AssetInv
  <2>2. CASE v # V(j)
    BY <1>5, <2>1, <2>2 DEF IInv, AssetInv
  <2>3. CASE v = V(j)
    <3>1. release'[v].asset = job[j].lpk /\ job[j].lpk # None
      BY <1>4, <1>5, <2>1, <2>3
    <3>2. job[j].lpk.tree = job[j].tree /\ job[j].tree.version = v
      BY <1>1, <1>2, <2>3, <3>1 DEF JobFacts, BuildFacts, V
    <3>3. CASE job[j].serves = 0
      BY <1>1, <1>2, <3>1, <3>2, <3>3 DEF JobFacts, TreeFacts
    <3>4. CASE job[j].serves # 0
      <4>1. job[j].serves = v /\ Edits(job[j].tree) = Edits(branch[job[j].sha])
        BY <1>1, <1>2, <3>2, <3>4 DEF JobFacts, TreeFacts
      <4>2. job[j].sha > 0 /\ release[v].tag = job[j].sha
        BY <1>1, <1>2, <3>4, <4>1 DEF JobFacts, CheckoutFacts
      <4>3. release'[v].tag # 0 /\ release'[v].tag = job[j].sha
        BY <1>5, <2>3, <4>2
      <4> QED BY <3>1, <3>2, <4>1, <4>3
    <3> QED BY <3>3, <3>4
  <2> QED BY <2>2, <2>3
<1>8. Moves(j) /\ JobFacts(job[j])'
  <2>1. CASE ReleaseOf(j).asset # None
    <3>1. job' = job
      BY <2>1 DEF UploadAsset
    <3> QED BY <1>6, <3>1, Fields, OtherJobKeeps DEF Moves
  <2>2. CASE ReleaseOf(j).asset = None
    <3>1. Goto(j, "resolve") /\ "resolve" \in PC /\ "resolve" \in Releasing
      BY <2>2 DEF UploadAsset, PC, Releasing
    <3> QED BY <1>1, <1>6, <3>1, GoesOn
  <2> QED BY <2>1, <2>2
<1> QED BY <1>1, <1>5, <1>6, <1>7, <1>8, ReleaseKeeps

\* What a job hands to the stores has the version of its tree.
LEMMA HandKeeps ==
  ASSUME IInv, NEW j \in Jobs, NEW pc \in {"private", "download"},
         NEW lpk \in LPK \cup {None}, Hand(j, pc, lpk),
         UNCHANGED <<setting, remote, budget>>,
         job[j].pc \in Releasing, lpk # None => lpk.tree.version = V(j)
  PROVE  IInv'
<1>1. /\ JobFacts(job[j]) /\ job[j] \in Job /\ job[j].tree \in Tree
      /\ Tip \in Nat
  BY KnownOfJob, Fields DEF Releasing
<1> DEFINE r == [job[j] EXCEPT !.handed = lpk, !.pc = pc, !.lpk = None,
                               !.sha = 0, !.commit = 0]
<1>2. job' = [job EXCEPT ![j] = r]
  BY DEF Hand
<1>3. 0 \in Nat /\ pc \in PC /\ None \in LPK \cup {None}
  BY DEF PC
<1>4. /\ r \in Job /\ r.pc = pc /\ r.serves = job[j].serves
      /\ r.sha = 0 /\ r.tree = job[j].tree /\ r.commit = 0
      /\ r.lpk = None /\ r.handed = lpk
  BY <1>1, <1>3 DEF Job
<1> HIDE DEF r
<1>5. Moves(j) /\ job'[j] = r
  BY <1>2, <1>4, Fields DEF Moves
<1>6. JobFacts(job[j])'
  BY <1>1, <1>4, <1>5, SharedSame
  DEF JobFacts, CheckoutFacts, TreeFacts, BuildFacts, Committing, Releasing, V
<1> QED BY <1>5, <1>6, SilentKeeps

LEMMA ResolveAssetStep ==
  ASSUME IInv, NEW j \in Jobs, ResolveAsset(j)
  PROVE  IInv'
<1>1. UNCHANGED <<setting, remote, budget>> /\ job[j].pc \in Releasing
  BY DEF ResolveAsset, At, Releasing
<1>2. CASE ReleaseOf(j).asset = job[j].lpk
  <2>1. job[j].lpk \in LPK \cup {None} /\ Hand(j, "private", job[j].lpk)
    BY <1>2, KnownOfJob DEF Job, ResolveAsset
  <2>2. job[j].lpk # None => job[j].lpk.tree.version = V(j)
    BY <1>1, KnownOfJob DEF JobFacts, BuildFacts, V
  <2>3. "private" \in {"private", "download"}
    OBVIOUS
  <2> QED BY <1>1, <2>1, <2>2, <2>3, HandKeeps
<1>3. CASE ReleaseOf(j).asset # job[j].lpk
  BY <1>1, <1>3, EndKeeps DEF ResolveAsset
<1> QED BY <1>2, <1>3

LEMMA LocateAssetStep ==
  ASSUME IInv, NEW j \in Jobs, LocateAsset(j)
  PROVE  IInv'
<1>1. /\ UNCHANGED <<setting, remote, budget>> /\ job[j].pc \in Releasing
      /\ job[j].pc \notin {"idle", "pending"}
  BY DEF LocateAsset, At, Releasing
<1>2. CASE setting.versioned /\ ReleaseOf(j).asset # None
  <2>1. V(j) \in Version /\ Hand(j, "download", ReleaseOf(j).asset)
    BY <1>1, <1>2, KnownOfJob DEF V, Tree, LocateAsset
  <2>2. /\ ReleaseOf(j).asset \in LPK \cup {None}
        /\ ReleaseOf(j).asset # None => ReleaseOf(j).asset.tree.version = V(j)
    BY <2>1, Fields DEF IInv, AssetInv, ReleaseOf, Release
  <2>3. "download" \in {"private", "download"}
    OBVIOUS
  <2> QED BY <1>1, <2>1, <2>2, <2>3, HandKeeps
<1>3. CASE ~(setting.versioned /\ ReleaseOf(j).asset # None)
  BY <1>1, <1>3, EndKeeps DEF LocateAsset
<1> QED BY <1>2, <1>3

LEMMA DownloadAssetStep ==
  ASSUME IInv, NEW j \in Jobs, DownloadAsset(j)
  PROVE  IInv'
<1>1. UNCHANGED <<setting, remote, budget>> /\ job[j].pc = "download"
  BY DEF DownloadAsset, At
<1>2. CASE ReleaseOf(j).asset = job[j].handed
  <2>1. Goto(j, "private") /\ "private" \in PC
    BY <1>2 DEF DownloadAsset, PC
  <2> QED BY <1>1, <2>1, GotoKeeps
<1>3. CASE ReleaseOf(j).asset # job[j].handed
  BY <1>1, <1>3, EndKeeps DEF DownloadAsset
<1> QED BY <1>2, <1>3

-----------------------------------------------------------------------------
(* The stores                                                               *)

\* A step that changes the records of the stores and the job only.
LEMMA StoreKeeps ==
  ASSUME IInv, NEW j \in Jobs, Moves(j), JobFacts(job[j])',
         UNCHANGED <<setting, upstream, branch, release>>,
         private' \in [Version -> LPK \cup {None}],
         official' \in [Version -> LPK \cup {None}],
         budget' \in BudgetType, budget'.edits = budget.edits
  PROVE  IInv'
<1>1. BranchGrows /\ TagsStay /\ Tip' = Tip
  BY DEF BranchGrows, TagsStay, Tip
<1>2. AssetInv' /\ RevInv'
  BY <1>1 DEF IInv, AssetInv, RevInv
<1>3. /\ upstream' \in Version /\ release' \in [Version -> Release]
      /\ \A v \in Version : release'[v].tag <= Tip'
  BY <1>1, Fields
<1> QED BY <1>1, <1>2, <1>3, StepKeeps

\* What is known of a job that works for the stores.
LEMMA ServesStores ==
  ASSUME IInv, NEW j \in Jobs,
         job[j].pc \in {"private", "official", "sync", "put"}
  PROVE  /\ job[j] \in Job /\ job[j].tree \in Tree /\ V(j) \in Version
         /\ job[j].handed \in LPK \cup {None}
  BY KnownOfJob DEF V, Tree, Job

\* The job goes on to the official store although the private step failed.
LEMMA FailsMoves ==
  ASSUME IInv, NEW j \in Jobs, job[j].pc = "private",
         UNCHANGED <<branch, release>>,
         job' = [job EXCEPT ![j].pc = "official", ![j].failed = TRUE]
  PROVE  Moves(j) /\ JobFacts(job[j])' /\ job'[j].pc = "official"
         /\ job'[j].handed = job[j].handed /\ job'[j].tree = job[j].tree
<1>1. /\ JobFacts(job[j]) /\ job[j] \in Job /\ job[j].tree \in Tree
      /\ Tip' = Tip /\ "official" \in PC
  BY KnownOfJob DEF Tip, PC
<1> DEFINE r == [job[j] EXCEPT !.pc = "official", !.failed = TRUE]
<1>2. job' = [job EXCEPT ![j] = r]
  OBVIOUS
<1>3. /\ r \in Job /\ r.pc = "official" /\ r.serves = job[j].serves
      /\ r.sha = job[j].sha /\ r.tree = job[j].tree /\ r.commit = job[j].commit
      /\ r.lpk = job[j].lpk /\ r.handed = job[j].handed
  BY <1>1 DEF Job
<1> HIDE DEF r
<1>4. Moves(j) /\ job'[j] = r
  BY <1>2, <1>3, Fields DEF Moves
<1> QED BY <1>1, <1>3, <1>4
        DEF JobFacts, CheckoutFacts, TreeFacts, BuildFacts, Committing, Releasing

LEMMA PublishPrivateStep ==
  ASSUME IInv, NEW j \in Jobs, PublishPrivate(j)
  PROVE  IInv'
<1>1. /\ UNCHANGED <<setting, upstream, branch, release, official, budget>>
      /\ job[j].pc = "private" /\ job[j].pc \notin {"idle", "pending"}
      /\ "official" \in PC
  BY DEF PublishPrivate, At, PC
<1>2. V(j) \in Version /\ job[j].handed \in LPK \cup {None}
  BY <1>1, ServesStores
<1>3. BranchGrows /\ TagsStay
  BY <1>1 DEF BranchGrows, TagsStay
<1>4. private' \in [Version -> LPK \cup {None}]
  BY <1>2, Fields DEF PublishPrivate
<1>5. Moves(j) /\ JobFacts(job[j])'
  <2>1. CASE Goto(j, "official")
    BY <1>1, <1>3, <2>1, GoesOn
  <2>2. CASE job' = [job EXCEPT ![j].pc = "official", ![j].failed = TRUE]
    BY <1>1, <2>2, FailsMoves
  <2> QED BY <2>1, <2>2 DEF PublishPrivate
<1>6. official' \in [Version -> LPK \cup {None}] /\ budget' \in BudgetType
      /\ budget'.edits = budget.edits
  BY <1>1, Fields
<1> QED BY <1>1, <1>4, <1>5, <1>6, StoreKeeps

LEMMA PrivateFailsStep ==
  ASSUME IInv, NEW j \in Jobs, PrivateFails(j)
  PROVE  IInv'
<1>1. /\ UNCHANGED <<setting, upstream, branch, release, official>>
      /\ job[j].pc = "private" /\ Spend("faults")
      /\ job' = [job EXCEPT ![j].pc = "official", ![j].failed = TRUE]
  BY DEF PrivateFails, At
<1>2. V(j) \in Version /\ job[j].handed \in LPK \cup {None}
  BY <1>1, ServesStores
<1>3. /\ private' \in [Version -> LPK \cup {None}]
      /\ official' \in [Version -> LPK \cup {None}]
  BY <1>1, <1>2, Fields DEF PrivateFails
<1>4. budget' \in BudgetType /\ budget'.edits = budget.edits
  BY <1>1, SpendKeeps, Fields DEF BudgetType
<1> QED BY <1>1, <1>3, <1>4, FailsMoves, StoreKeeps

\* After the official step a job ends or syncs the package file.
LEMMA AfterOfficialMoves ==
  ASSUME IInv, NEW j \in Jobs, NEW failed \in BOOLEAN, job[j].pc = "official",
         UNCHANGED <<branch, release>>, AfterOfficial(j, failed)
  PROVE  Moves(j) /\ JobFacts(job[j])' /\ job'[j].pc \in {"sync", "idle"}
<1>1. BranchGrows /\ TagsStay /\ Tip' \in Nat /\ "sync" \in PC
      /\ job[j].pc \notin {"idle", "pending"}
  BY Fields DEF BranchGrows, TagsStay, Tip, PC
<1>2. CASE Goto(j, "sync")
  BY <1>1, <1>2, GoesOn, GotoMoves
<1>3. CASE End(j)
  <2>1. Moves(j) /\ JobFacts(job[j])'
    BY <1>1, <1>3, EndFacts
  <2>2. job'[j] = IdleJob
    BY <1>3, Fields DEF End
  <2> QED BY <2>1, <2>2 DEF IdleJob
<1> QED BY <1>2, <1>3 DEF AfterOfficial

LEMMA PublishOfficialStep ==
  ASSUME IInv, NEW j \in Jobs, PublishOfficial(j)
  PROVE  IInv'
<1>1. /\ UNCHANGED <<setting, upstream, branch, release, private, budget>>
      /\ job[j].pc = "official" /\ AfterOfficial(j, job[j].failed)
  BY DEF PublishOfficial, At
<1>2. V(j) \in Version /\ job[j].handed \in LPK \cup {None}
      /\ job[j].failed \in BOOLEAN
  BY <1>1, ServesStores DEF Job
<1>3. official' \in [Version -> LPK \cup {None}]
  BY <1>2, Fields DEF PublishOfficial
<1>4. Moves(j) /\ JobFacts(job[j])'
  BY <1>1, <1>2, AfterOfficialMoves
<1>5. private' \in [Version -> LPK \cup {None}] /\ budget' \in BudgetType
      /\ budget'.edits = budget.edits
  BY <1>1, Fields
<1> QED BY <1>1, <1>3, <1>4, <1>5, StoreKeeps

LEMMA OfficialFailsStep ==
  ASSUME IInv, NEW j \in Jobs, OfficialFails(j)
  PROVE  IInv'
<1>1. /\ UNCHANGED <<setting, remote>> /\ job[j].pc = "official"
      /\ Spend("faults") /\ AfterOfficial(j, job[j].failed \/ ~setting.private)
  BY DEF OfficialFails, At
<1>2. (job[j].failed \/ ~setting.private) \in BOOLEAN
  OBVIOUS
<1>3. Moves(j) /\ JobFacts(job[j])'
  BY <1>1, <1>2, AfterOfficialMoves, SharedSame
<1>4. budget' \in BudgetType /\ budget'.edits = budget.edits
  BY <1>1, SpendKeeps, Fields DEF BudgetType
<1> QED BY <1>1, <1>3, <1>4, LocalKeeps

-----------------------------------------------------------------------------
(* The branch                                                               *)

\* The sync reads the package file at the tip, to replace that one only.
LEMMA ReadDefaultBranchStep ==
  ASSUME IInv, NEW j \in Jobs, ReadDefaultBranch(j)
  PROVE  IInv'
<1>1. UNCHANGED <<setting, remote, budget>> /\ job[j].pc = "sync"
  BY DEF ReadDefaultBranch, At
<1>2. CASE PackageFileOf(branch[Tip]) = PackageFileOf(job[j].tree)
  BY <1>1, <1>2, EndKeeps DEF ReadDefaultBranch
<1>3. CASE PackageFileOf(branch[Tip]) # PackageFileOf(job[j].tree)
  <2>1. /\ JobFacts(job[j]) /\ job[j] \in Job /\ job[j].tree \in Tree
        /\ "put" \in PC /\ PackageFileOf(branch[Tip]) \in PackageFile
    <3>1. branch[Tip] \in Tree
      BY Fields DEF Tip
    <3> QED BY <1>1, <3>1, KnownOfJob DEF Tree, PackageFile, PackageFileOf, PC
  <2> DEFINE r == [job[j] EXCEPT !.read = PackageFileOf(branch[Tip]), !.pc = "put"]
  <2>2. job' = [job EXCEPT ![j] = r]
    BY <1>3 DEF ReadDefaultBranch
  <2>3. /\ r \in Job /\ r.pc = "put" /\ r.serves = job[j].serves
        /\ r.sha = job[j].sha /\ r.tree = job[j].tree /\ r.commit = job[j].commit
        /\ r.lpk = job[j].lpk /\ r.handed = job[j].handed
    BY <2>1 DEF Job
  <2> HIDE DEF r
  <2>4. Moves(j) /\ job'[j] = r
    BY <2>2, <2>3, Fields DEF Moves
  <2>5. JobFacts(job[j])'
    BY <1>1, <2>1, <2>3, <2>4, SharedSame
    DEF JobFacts, CheckoutFacts, TreeFacts, BuildFacts, Committing, Releasing
  <2> QED BY <1>1, <2>4, <2>5, SilentKeeps
<1> QED BY <1>2, <1>3

\* A commit on the branch is a tree, whose revision counts developers' commits.
LEMMA CommitType ==
  ASSUME IInv, NEW i \in 1..Tip
  PROVE  branch[i] \in Tree /\ branch[i].rev \in Nat
         /\ branch[i].rev <= budget.edits
<1>1. branch[i] \in Tree
  BY Fields DEF Tip
<1> QED BY <1>1 DEF IInv, RevInv, Tree

\* A commit of revision rev on top of the branch, by a step that may change
\* job j, keeps the invariant.
LEMMA CommitKeeps ==
  ASSUME IInv, NEW j \in Jobs, NEW tree \in Tree, Moves(j), JobFacts(job[j])',
         UNCHANGED <<setting, upstream, release, private, official>>,
         branch' = Append(branch, tree), budget' \in BudgetType,
         budget'.edits >= budget.edits, tree.rev <= budget'.edits
  PROVE  IInv'
<1>1. /\ BranchGrows /\ TagsStay /\ Tip \in Nat /\ Tip' = Tip + 1
      /\ branch'[Tip'] = tree /\ \A i \in 1..Tip : branch'[i] = branch[i]
  <2>1. Tip \in Nat /\ Tip > 0 /\ branch \in Seq(Tree)
    BY Fields
  <2> QED BY <2>1 DEF BranchGrows, TagsStay, Tip
<1>2. AssetInv'
  BY <1>1, AssetsKept, Fields
<1>3. RevInv'
  <2>1. ASSUME NEW i \in 1..Tip' PROVE branch'[i].rev <= budget'.edits
    <3>1. CASE i = Tip'
      BY <1>1, <3>1
    <3>2. CASE i # Tip'
      <4>1. i \in 1..Tip
        BY <1>1, <3>2
      <4>2. /\ branch[i].rev \in Nat /\ branch[i].rev <= budget.edits
            /\ branch'[i] = branch[i]
        BY <1>1, <4>1, CommitType
      <4>3. budget.edits \in Nat /\ budget'.edits \in Nat
        BY Fields DEF BudgetType
      <4> QED BY <4>1, <4>2, <4>3
    <3> QED BY <3>1, <3>2
  <2> QED BY <2>1 DEF RevInv
<1>4. /\ upstream' \in Version /\ release' \in [Version -> Release]
      /\ private' \in [Version -> LPK \cup {None}]
      /\ official' \in [Version -> LPK \cup {None}]
      /\ \A v \in Version : release'[v].tag <= Tip'
  BY <1>1, Fields
<1> QED BY <1>1, <1>2, <1>3, <1>4, StepKeeps

\* The package file is put on top of whatever the tip has become.
LEMMA PutPackageFileStep ==
  ASSUME IInv, NEW j \in Jobs, PutPackageFile(j)
  PROVE  IInv' /\ (branch' = branch \/
           /\ PutAccepted(j)
           /\ \E tree \in Tree : branch' = Append(branch, tree)
           /\ branch'[Len(branch')] =
                [branch[Tip] EXCEPT !.version = V(j), !.meta = job[j].tree.meta])
<1>1. /\ UNCHANGED <<setting, upstream, release, private, official, budget>>
      /\ job[j].pc = "put" /\ End(j)
  BY DEF PutPackageFile, At, stores
<1>2. /\ V(j) \in Version /\ Tip \in Nat /\ Tip > 0 /\ branch[Tip] \in Tree
      /\ branch[Tip].rev <= budget.edits /\ branch \in Seq(Tree)
      /\ budget.edits \in Nat /\ job[j].tree \in Tree
  <2>1. Tip \in Nat /\ Tip > 0 /\ branch \in Seq(Tree) /\ budget.edits \in Nat
    BY Fields DEF BudgetType
  <2>2. job[j].tree \in Tree
    BY <1>1, KnownOfJob
  <2> QED BY <1>1, <2>1, <2>2, ServesStores DEF IInv, RevInv, Tip
<1>3. CASE branch' = branch
  <2>1. UNCHANGED <<setting, remote, budget>>
    BY <1>1, <1>3 DEF remote
  <2> QED BY <1>1, <1>3, <2>1, EndKeeps
<1>4. CASE PutAccepted(j)
  <2> DEFINE tree ==
        [branch[Tip] EXCEPT !.version = V(j), !.meta = job[j].tree.meta]
  <2>1. tree \in Tree /\ tree.rev = branch[Tip].rev
    BY <1>2 DEF Tree
  <2> HIDE DEF tree
  <2>2. branch' = Append(branch, tree)
    BY <1>4 DEF tree, PutPackageFile
  <2>3. Tip' = Tip + 1 /\ branch'[Len(branch')] = tree
    BY <1>2, <2>1, <2>2 DEF Tip
  <2>4. Moves(j) /\ JobFacts(job[j])'
    BY <1>1, <1>2, <2>3, EndFacts
  <2>5. /\ budget' \in BudgetType /\ budget'.edits >= budget.edits
        /\ tree.rev <= budget'.edits
    BY <1>1, <1>2, <2>1, Fields
  <2>6. IInv'
    BY <1>1, <2>1, <2>2, <2>3, <2>4, <2>5, CommitKeeps
  <2> QED BY <1>4, <2>1, <2>2, <2>3, <2>6 DEF tree
<1> QED BY <1>3, <1>4 DEF PutPackageFile

\* Events outside the jobs, and steps that change nothing.
LEMMA NewImageStep ==
  ASSUME IInv, NewImage
  PROVE  IInv'
<1>1. /\ UNCHANGED <<setting, branch, release, private, official, job, budget>>
      /\ Tip' = Tip
  BY DEF NewImage, stores, Tip
<1>2. upstream' \in Version
  BY Fields, SettingsAssumption DEF NewImage, Version
<1>3. AssetInv' /\ RevInv'
  BY <1>1 DEF IInv, AssetInv, RevInv
<1>4. TypeOK'
  BY <1>1, <1>2 DEF IInv, TypeOK, V
<1>5. \A j \in Jobs : JobFacts(job[j])'
  BY <1>1 DEF IInv, JobFacts, CheckoutFacts, TreeFacts, BuildFacts
<1> QED BY <1>3, <1>4, <1>5 DEF IInv

\* A developer's edit of package.yml or of other files gets a new number.
LEMMA DeveloperPushesStep ==
  ASSUME IInv, DeveloperPushes
  PROVE  IInv' /\ \E part \in {"meta", "rev"} :
           /\ \E tree \in Tree : branch' = Append(branch, tree)
           /\ branch'[Len(branch')] =
                [branch[Tip] EXCEPT ![part] = budget.edits + 1]
           /\ budget'.edits = budget.edits + 1
<1>1. /\ UNCHANGED <<setting, upstream, release, private, official, job>>
      /\ Spend("edits")
  BY DEF DeveloperPushes, stores
<1>2. /\ Tip \in Nat /\ Tip > 0 /\ branch \in Seq(Tree) /\ branch[Tip] \in Tree
      /\ branch[Tip].rev <= budget.edits /\ budget.edits \in Nat
  <2>1. Tip \in Nat /\ Tip > 0 /\ branch \in Seq(Tree) /\ budget.edits \in Nat
    BY Fields DEF BudgetType
  <2> QED BY <2>1 DEF IInv, RevInv, Tip
<1>3. budget' \in BudgetType /\ budget'.edits = budget.edits + 1
  BY <1>1, SpendKeeps
<1>5. PICK part \in {"meta", "rev"} :
        branch' = Append(branch, [branch[Tip] EXCEPT ![part] = budget.edits + 1])
  BY DEF DeveloperPushes
<1> DEFINE tree == [branch[Tip] EXCEPT ![part] = budget.edits + 1]
<1>4. tree \in Tree /\ tree.rev <= budget'.edits
  <2>1. budget.edits + 1 \in 0..MaxEdits /\ branch[Tip].rev \in Nat
    BY <1>2, <1>3 DEF BudgetType, Tree
  <2> DEFINE n == budget.edits + 1
             t == branch[Tip]
  <2>2. n \in 0..MaxEdits /\ t \in Tree /\ t.rev <= n /\ n <= budget'.edits
    BY <1>2, <1>3, <2>1
  <2> HIDE DEF n, t
  <2>3. /\ [t EXCEPT !["meta"] = n] \in Tree
        /\ [t EXCEPT !["meta"] = n].rev = t.rev
    BY <2>2 DEF Tree
  <2>4. [t EXCEPT !["rev"] = n] \in Tree /\ [t EXCEPT !["rev"] = n].rev = n
    BY <2>2 DEF Tree
  <2>5. t.rev \in Nat /\ n \in Nat /\ budget'.edits \in Nat
    BY <1>2, <1>3, <2>1 DEF t, n, BudgetType
  <2>6. tree = [t EXCEPT ![part] = n]
    BY DEF t, n
  <2> HIDE DEF tree
  <2>7. CASE part = "meta"
    BY <2>2, <2>3, <2>5, <2>6, <2>7
  <2>8. CASE part = "rev"
    BY <2>2, <2>4, <2>5, <2>6, <2>8
  <2> QED BY <2>7, <2>8
<1> HIDE DEF tree
<1>6. /\ BranchGrows /\ TagsStay /\ Tip' = Tip + 1
      /\ branch'[Len(branch')] = tree /\ branch' = Append(branch, tree)
      /\ \A i \in 1..Tip : branch'[i] = branch[i]
  BY <1>1, <1>2, <1>4, <1>5 DEF tree, BranchGrows, TagsStay, Tip
<1>7. AssetInv'
  BY <1>1, <1>6, AssetsKept, Fields
<1>8. RevInv'
  <2>1. ASSUME NEW i \in 1..Tip' PROVE branch'[i].rev <= budget'.edits
    <3>1. CASE i = Tip'
      BY <1>4, <1>6, <3>1 DEF Tip
    <3>2. CASE i # Tip'
      <4>1. i \in 1..Tip
        <5>1. i \in 1..Tip' /\ Tip \in Nat /\ Tip' = Tip + 1 /\ i # Tip'
          BY <1>2, <1>6, <3>2
        <5> QED BY <5>1
      <4>3. branch'[i] = branch[i]
        BY <1>6, <4>1
      <4>2. branch[i].rev \in Nat /\ branch[i].rev <= budget.edits
        BY <4>1, CommitType
      <4> QED BY <1>2, <1>3, <4>2, <4>3
    <3> QED BY <3>1, <3>2
  <2> QED BY <2>1 DEF RevInv
<1>9. \A j \in Jobs : JobFacts(job[j])'
  BY <1>1, <1>6, OtherJobKeeps
<1>10. TypeOK'
  <2>1. /\ upstream' \in Version /\ release' \in [Version -> Release]
        /\ private' \in [Version -> LPK \cup {None}]
        /\ official' \in [Version -> LPK \cup {None}]
        /\ setting' \in Settings /\ job' \in [Jobs -> Job]
        /\ \A v \in Version : release'[v].tag <= Tip'
    BY <1>1, <1>2, <1>6, Fields
  <2>2. branch' \in Seq(Tree) /\ Tip' > 0
    BY <1>6, CommitsStay, Fields
  <2>3. \A j \in Jobs :
          /\ job'[j].sha <= Tip' /\ job'[j].commit <= Tip'
          /\ job'[j].handed # None => job'[j].handed.tree.version = V(j)'
    BY <1>9 DEF JobFacts, BuildFacts, V
  <2> QED BY <1>3, <2>1, <2>2, <2>3 DEF TypeOK, BudgetType
<1>11. IInv'
  BY <1>7, <1>8, <1>9, <1>10 DEF IInv
<1> QED BY <1>3, <1>4, <1>6, <1>11 DEF tree

-----------------------------------------------------------------------------
(* The inductive invariant                                                  *)

LEMMA InitEstablishes ==
  ASSUME Init
  PROVE  IInv
<1>1. 1 \in Version /\ 0 \in 0..MaxEdits /\ 0 \in 0..MaxTags /\ 0 \in 0..MaxFaults
  BY SettingsAssumption DEF Version
<1> DEFINE first == [version |-> 1, meta |-> 0, rev |-> 0]
<1>2. branch = <<first>> /\ first \in Tree
  BY <1>1 DEF Init, Tree
<1>3. branch \in Seq(Tree) /\ Tip = 1 /\ branch[1].rev = 0
  BY <1>2 DEF Tip
<1>4. NoRelease \in Release /\ NoRelease.asset = None /\ NoRelease.tag = 0
  BY DEF NoRelease, Release
<1>5. IdleJob \in Job
  BY SettingsAssumption DEF IdleJob, Job, PC
<1>6. \A j \in Jobs : JobFacts(job[j])
  <2>1. \A j \in Jobs : job[j] = IdleJob
    BY DEF Init
  <2>2. /\ IdleJob.pc = "idle" /\ IdleJob.sha = 0 /\ IdleJob.commit = 0
        /\ IdleJob.lpk = None /\ IdleJob.handed = None
    BY DEF IdleJob
  <2>3. JobFacts(IdleJob)
    BY <1>3, <1>5, <2>2
    DEF JobFacts, CheckoutFacts, TreeFacts, BuildFacts, Committing, Releasing
  <2> QED BY <2>1, <2>3
<1>7. AssetInv /\ \A v \in Version : release[v].tag <= Tip
  BY <1>3, <1>4 DEF Init, AssetInv
<1>8. RevInv
  BY <1>1, <1>3 DEF Init, RevInv
<1>9. TypeOK
  <2>1. /\ setting \in Settings /\ upstream \in Version
        /\ release \in [Version -> Release]
        /\ private \in [Version -> LPK \cup {None}]
        /\ official \in [Version -> LPK \cup {None}]
        /\ job \in [Jobs -> Job]
        /\ budget \in [edits : 0..MaxEdits, tags : 0..MaxTags, faults : 0..MaxFaults]
    BY <1>1, <1>4, <1>5 DEF Init
  <2>2. \A j \in Jobs : /\ job[j].sha <= Tip /\ job[j].commit <= Tip
                        /\ job[j].handed # None =>
                             job[j].handed.tree.version = V(j)
    BY <1>6 DEF JobFacts, BuildFacts, V
  <2> QED BY <1>3, <1>7, <2>1, <2>2 DEF TypeOK
<1> QED BY <1>6, <1>7, <1>8, <1>9 DEF IInv

LEMMA StutterKeeps ==
  ASSUME IInv, UNCHANGED vars
  PROVE  IInv'
<1>1. /\ UNCHANGED <<setting, upstream, branch, release, private, official, job,
                     budget>>
      /\ Tip' = Tip
  BY DEF vars, Tip
<1>2. AssetInv' /\ RevInv'
  BY <1>1 DEF IInv, AssetInv, RevInv
<1>3. TypeOK'
  BY <1>1 DEF IInv, TypeOK, V
<1>4. \A j \in Jobs : JobFacts(job[j])'
  BY <1>1 DEF IInv, JobFacts, CheckoutFacts, TreeFacts, BuildFacts
<1> QED BY <1>2, <1>3, <1>4 DEF IInv

LEMMA NextKeeps ==
  ASSUME IInv, [Next]_vars
  PROVE  IInv'
<1>1. ASSUME NEW j \in Jobs, Step(j) PROVE IInv'
  BY <1>1, StartStep, RunActionStep, FetchStep, PushStep, RefetchStep,
     ClassifyStep, RecoveryBuildStep, InspectAssetStep, CreateReleaseStep,
     UploadAssetStep, ResolveAssetStep, LocateAssetStep, DownloadAssetStep,
     PublishPrivateStep, PublishOfficialStep, ReadDefaultBranchStep,
     PutPackageFileStep
  DEF Step
<1> QED BY <1>1, NewImageStep, DeveloperPushesStep, TriggerStep, TagPushedStep,
           RerunStep, DiesStep, PrivateFailsStep, OfficialFailsStep, StutterKeeps
        DEF Next

\* Every reachable state satisfies the inductive invariant, whatever jobs,
\* pushes, tags and faults come in between.
THEOREM InductiveInvariant == Spec => []IInv
<1> QED BY InitEstablishes, NextKeeps, PTL DEF Spec

\* Type correctness: commits that jobs and tags name exist, and a job hands the
\* LPK of its version to the stores.
THEOREM TypeCorrect == Spec => []TypeOK
<1>1. IInv => TypeOK
  BY DEF IInv
<1> QED BY <1>1, InductiveInvariant, PTL

\* What a Release serves was built from a tree that the branch held, or from
\* the tagged commit: no stale artifact is published (direct-commit).
THEOREM ReleasesAreOfTheBranch == Spec => []AssetsComeFromTheBranch
<1>1. IInv => AssetsComeFromTheBranch
  BY DEF IInv, AssetInv, AssetsComeFromTheBranch
<1> QED BY <1>1, InductiveInvariant, PTL

\* Steps of jobs that leave the branch alone.
LEMMA BranchStays ==
  ASSUME NEW j \in Jobs,
         \/ Trigger(j) \/ TagPushed(j) \/ Rerun(j) \/ Start(j) \/ RunAction(j)
         \/ Fetch(j) \/ Refetch(j) \/ Classify(j) \/ RecoveryBuild(j)
         \/ InspectAsset(j) \/ CreateRelease(j) \/ UploadAsset(j)
         \/ ResolveAsset(j) \/ LocateAsset(j) \/ DownloadAsset(j)
         \/ PublishPrivate(j) \/ PublishOfficial(j) \/ ReadDefaultBranch(j)
         \/ Dies(j) \/ PrivateFails(j) \/ OfficialFails(j)
  PROVE  branch' = branch
  BY DEF Trigger, TagPushed, Rerun, Start, RunAction, Fetch, Refetch, Classify,
         RecoveryBuild, InspectAsset, CreateRelease, UploadAsset, ResolveAsset,
         LocateAsset, DownloadAsset, PublishPrivate, PublishOfficial,
         ReadDefaultBranch, Dies, PrivateFails, OfficialFails, remote, stores

-----------------------------------------------------------------------------
(* One job at a time: the stores and the Release                            *)

\* The other jobs do not move.
Only(j) == \A i \in Jobs : i # j => job'[i] = job[i]

\* Assets and records that no step in between touches.
AssetsSame == \A v \in Version : release'[v].asset = release[v].asset
SharesSame == setting' = setting /\ private' = private /\ official' = official

\* What the steps of a job do to its step and outputs.
LEMMA EndPc ==
  ASSUME IInv, NEW j \in Jobs, End(j)
  PROVE  Only(j) /\ job'[j].pc = "idle"
  BY Fields DEF End, IdleJob, Only

LEMMA GotoPc ==
  ASSUME IInv, NEW j \in Jobs, NEW pc, Goto(j, pc)
  PROVE  /\ Only(j) /\ job'[j].pc = pc
         /\ job'[j].tree = job[j].tree /\ job'[j].handed = job[j].handed
  BY Fields DEF Goto, Job, Only

\* Without overlap, a step of one job keeps what is known of the stores, if the
\* job was the one running, or none was, and its own facts hold afterwards.
LEMMA ServingKeeps ==
  ASSUME IInv, ServingInv, ~setting.overlap, setting' = setting,
         NEW j \in Jobs, Only(j),
         Running(j)' => Running(j) \/ \A i \in Jobs : ~Running(i),
         AssetsSame \/ Running(j), ServingFacts(j)',
         \A v \in Version :
           /\ release[v].asset # None => release'[v].asset = release[v].asset
           /\ private'[v] \in {private[v], release'[v].asset}
           /\ official'[v] \in {official[v], release'[v].asset}
  PROVE  ServingInv'
<1>1. OneRuns /\ \A i \in Jobs : ServingFacts(i)
  BY DEF ServingInv
<1>2. OneRuns'
  <2>1. SUFFICES ASSUME NEW i \in Jobs, NEW k \in Jobs, Running(i)', Running(k)'
                 PROVE  i = k
    BY DEF OneRuns
  <2>2. \A l \in Jobs : l # j /\ Running(l)' => Running(l)
    BY DEF Only, Running
  <2> QED BY <1>1, <2>1, <2>2 DEF OneRuns
<1>3. ASSUME NEW i \in Jobs, i # j
      PROVE  ServingFacts(i)'
  <2>1. job'[i] = job[i]
    BY <1>3 DEF Only
  <2>2. CASE ~Running(j)
    <3>1. V(i) \in Version \/ job[i].pc \in {"idle", "pending"}
      BY KnownOfJob DEF V, Tree
    <3>2. V(i)' = V(i)
      BY <2>1 DEF V
    <3>3. AssetsSame
      BY <2>2
    <3> QED BY <1>1, <2>1, <3>1, <3>2, <3>3
            DEF ServingFacts, At, ReleaseOf, AssetsSame
  <2>3. CASE Running(j)
    <3>1. ~Running(i)
      BY <1>1, <1>3, <2>3 DEF OneRuns
    <3> QED BY <2>1, <3>1 DEF ServingFacts, At, Running
  <2> QED BY <2>2, <2>3
<1>4. StoresServeTheRelease'
  <2>1. \A v \in Version : /\ private[v] \in {None, release[v].asset}
                           /\ official[v] \in {None, release[v].asset}
    BY DEF ServingInv, StoresServeTheRelease
  <2>2. \A v \in Version : /\ private'[v] \in {None, release'[v].asset}
                           /\ official'[v] \in {None, release'[v].asset}
    BY <2>1
  <2> QED BY <2>2 DEF StoresServeTheRelease
<1> QED BY <1>2, <1>3, <1>4 DEF ServingInv

\* Steps after which the job neither writes the Release nor serves the stores,
\* and that write neither themselves.
LEMMA BystanderKeeps ==
  ASSUME IInv, ServingInv, ~setting.overlap, SharesSame, AssetsSame,
         NEW j \in Jobs, Only(j),
         Running(j)' => Running(j) \/ \A i \in Jobs : ~Running(i),
         job'[j].pc \notin {"create", "upload", "private", "official"}
  PROVE  ServingInv'
<1>1. ServingFacts(j)'
  BY DEF ServingFacts, At
<1> QED BY <1>1, ServingKeeps DEF SharesSame, AssetsSame

\* With overlapping groups the stores are promised nothing.
LEMMA OverlapKeeps ==
  ASSUME setting.overlap, setting' = setting
  PROVE  ServingInv'
  BY DEF ServingInv, StoresServeTheRelease

\* A job is queued.
LEMMA QueueingShares ==
  ASSUME IInv, NEW j \in Jobs, Trigger(j) \/ TagPushed(j) \/ Rerun(j)
  PROVE  SharesSame /\ AssetsSame
<1>1. CASE Trigger(j) \/ Rerun(j)
  BY <1>1 DEF Trigger, Rerun, remote, SharesSame, AssetsSame
<1>2. CASE TagPushed(j)
  <2>1. SharesSame
    BY <1>2 DEF TagPushed, stores, SharesSame
  <2>2. PICK v \in Version, exists \in BOOLEAN :
          release' = [release EXCEPT ![v].tag = Tip, ![v].exists = exists]
    BY <1>2 DEF TagPushed
  <2>3. AssetsSame
    BY <2>2, Fields DEF AssetsSame, Release
  <2> QED BY <2>1, <2>3
<1> QED BY <1>1, <1>2

LEMMA QueueingServes ==
  ASSUME IInv, ServingInv, ~setting.overlap, NEW j \in Jobs,
         Trigger(j) \/ TagPushed(j) \/ Rerun(j)
  PROVE  ServingInv'
<1>1. SharesSame /\ AssetsSame
  BY QueueingShares
<1>2. Only(j) /\ job'[j].pc = "pending"
  <2>1. ASSUME NEW r, r.pc = "pending", job' = [job EXCEPT ![j] = r]
        PROVE  Only(j) /\ job'[j].pc = "pending"
    BY <2>1, Fields DEF Only
  <2>2. \A sha, serves : Queued(sha, serves).pc = "pending"
    BY DEF Queued, IdleJob
  <2>3. CASE Trigger(j)
    BY <2>3, Fields DEF Trigger, IdleJob, Only
  <2>4. CASE TagPushed(j)
    <3>1. PICK v \in Version : job' = [job EXCEPT ![j] = Queued(Tip, v)]
      BY <2>4 DEF TagPushed, Queued
    <3> QED BY <2>1, <2>2, <3>1
  <2>5. CASE Rerun(j)
    <3>1. PICK v \in Version : job' = [job EXCEPT ![j] = Queued(release[v].tag, v)]
      BY <2>5 DEF Rerun, Queued
    <3> QED BY <2>1, <2>2, <3>1
  <2> QED BY <2>3, <2>4, <2>5
<1>3. ~Running(j)'
  BY <1>2 DEF Running
<1> QED BY <1>1, <1>2, <1>3, BystanderKeeps

\* Steps of a running job that touch neither the Release nor the stores.
Quiet(j) ==
  \/ RunAction(j) \/ Fetch(j) \/ Push(j) \/ Refetch(j) \/ Classify(j)
  \/ RecoveryBuild(j) \/ LocateAsset(j) \/ ReadDefaultBranch(j)
  \/ PutPackageFile(j) \/ Dies(j) \/ OfficialFails(j)

LEMMA QuietShares ==
  ASSUME NEW j \in Jobs, Quiet(j)
  PROVE  SharesSame /\ AssetsSame
  BY DEF Quiet, RunAction, Fetch, Push, Refetch, Classify, RecoveryBuild,
         LocateAsset, ReadDefaultBranch, PutPackageFile, Dies, OfficialFails,
         remote, stores, SharesSame, AssetsSame

LEMMA QuietServes ==
  ASSUME IInv, ServingInv, ~setting.overlap, NEW j \in Jobs, Quiet(j)
  PROVE  ServingInv'
<1>1. Running(j)
  BY DEF Quiet, RunAction, Fetch, Push, Refetch, Classify, RecoveryBuild, LocateAsset,
         ReadDefaultBranch, PutPackageFile, Dies, OfficialFails, At, Running
<1>2. SharesSame /\ AssetsSame
  BY QuietShares
<1> DEFINE Harmless == {"idle", "fetch", "push", "refetch", "classify", "recover",
                        "inspect", "locate", "download", "sync", "put"}
<1>3. Only(j) /\ job'[j].pc \in Harmless
  <2>1. CASE RunAction(j) \/ RecoveryBuild(j)
    <3>1. ASSUME NEW r, r.pc \in Harmless, job' = [job EXCEPT ![j] = r]
          PROVE  Only(j) /\ job'[j].pc \in Harmless
      BY <3>1, Fields DEF Only
    <3>2. CASE RunAction(j)
      <4> DEFINE tree == [job[j].tree EXCEPT !.version = NextVersion(j)]
                 changed == tree # job[j].tree
                 pc == IF changed /\ ~ForTag(j) THEN "fetch" ELSE "classify"
      <4>1. PICK build \in setting.builds :
              job' = [job EXCEPT ![j].tree = tree, ![j].changed = changed,
                        ![j].lpk = IF changed \/ ForTag(j)
                                   THEN [tree |-> tree, build |-> build] ELSE None,
                        ![j].pc = pc]
        BY <3>2 DEF RunAction
      <4> DEFINE lpk == IF changed \/ ForTag(j)
                        THEN [tree |-> tree, build |-> build] ELSE None
                 r == [job[j] EXCEPT !.tree = tree, !.changed = changed,
                                     !.lpk = lpk, !.pc = pc]
      <4>2. pc \in Harmless
        OBVIOUS
      <4> HIDE DEF tree, changed, pc, Harmless
      <4>3. job' = [job EXCEPT ![j] = r]
        BY <4>1
      <4>4. r.pc = pc
        BY KnownOfJob DEF Job
      <4> HIDE DEF r
      <4> QED BY <3>1, <4>2, <4>3, <4>4
    <3>3. CASE RecoveryBuild(j)
      <4>1. PICK build \in setting.builds :
              job' = [job EXCEPT ![j].lpk = [tree |-> job[j].tree, build |-> build],
                                 ![j].pc = "inspect"]
        BY <3>3 DEF RecoveryBuild
      <4> DEFINE r == [job[j] EXCEPT
                         !.lpk = [tree |-> job[j].tree, build |-> build],
                         !.pc = "inspect"]
      <4>2. job' = [job EXCEPT ![j] = r]
        BY <4>1
      <4>3. r.pc = "inspect"
        BY KnownOfJob DEF Job
      <4>4. r.pc \in Harmless
        BY <4>3
      <4> HIDE DEF r, Harmless
      <4> QED BY <3>1, <4>2, <4>4
    <3> QED BY <2>1, <3>2, <3>3
  <2>2. CASE Fetch(j) \/ Refetch(j) \/ Push(j)
    BY <2>2, Fields, EndPc, GotoPc
    DEF Fetch, Refetch, Push, AdoptMatchingRemote, Job, Only
  <2>3. CASE Classify(j) \/ Dies(j) \/ PutPackageFile(j) \/ OfficialFails(j)
    BY <2>3, EndPc, GotoPc
    DEF Classify, Dies, PutPackageFile, OfficialFails, AfterOfficial
  <2>4. CASE LocateAsset(j)
    BY <2>4, Fields, EndPc DEF LocateAsset, Hand, Job, Only
  <2>5. CASE ReadDefaultBranch(j)
    BY <2>5, Fields, EndPc DEF ReadDefaultBranch, Job, Only
  <2> QED BY <2>1, <2>2, <2>3, <2>4, <2>5 DEF Quiet
<1> QED BY <1>1, <1>2, <1>3, BystanderKeeps

LEMMA StartServes ==
  ASSUME IInv, ServingInv, ~setting.overlap, NEW j \in Jobs, Start(j)
  PROVE  ServingInv'
<1>1. SharesSame /\ AssetsSame /\ \A i \in Jobs : ~Running(i)
  BY DEF Start, remote, SharesSame, AssetsSame
<1>2. Only(j) /\ job'[j].pc = "run"
  BY Fields DEF Start, Job, Only
<1> QED BY <1>1, <1>2, BystanderKeeps

\* A job makes the asset only where it found none.
LEMMA InspectServes ==
  ASSUME IInv, ServingInv, ~setting.overlap, NEW j \in Jobs, InspectAsset(j)
  PROVE  ServingInv'
<1>1. SharesSame /\ AssetsSame /\ Running(j) /\ job[j].pc = "inspect"
      /\ UNCHANGED <<setting, remote>>
  BY DEF InspectAsset, remote, SharesSame, AssetsSame, At, Running
<1>2. CASE AfterInspection(j) = "idle"
  BY <1>1, <1>2, EndPc, BystanderKeeps DEF InspectAsset
<1>3. CASE AfterInspection(j) = "resolve"
  BY <1>1, <1>3, GotoPc, BystanderKeeps DEF InspectAsset
<1>4. CASE AfterInspection(j) = "create"
  <2>1. ReleaseOf(j).asset = None
    BY <1>4 DEF AfterInspection
  <2>2. /\ Only(j) /\ job'[j].pc = "create" /\ job'[j].tree = job[j].tree
    BY <1>4, GotoPc DEF InspectAsset
  <2>3. ReleaseOf(j)' = ReleaseOf(j)
    BY <1>1, <2>2 DEF ReleaseOf, V, remote
  <2>4. ServingFacts(j)'
    BY <2>1, <2>2, <2>3 DEF ServingFacts, At
  <2> QED BY <1>1, <2>2, <2>4, ServingKeeps DEF SharesSame, AssetsSame
<1> QED BY <1>2, <1>3, <1>4 DEF AfterInspection

LEMMA CreateServes ==
  ASSUME IInv, ServingInv, ~setting.overlap, NEW j \in Jobs, CreateRelease(j)
  PROVE  ServingInv'
<1>1. SharesSame /\ Running(j) /\ At(j, "create") /\ Goto(j, "upload")
      /\ V(j) \in Version
  BY KnownOfJob DEF CreateRelease, stores, SharesSame, At, Running, V, Tree
<1>2. AssetsSame
  BY <1>1, Fields DEF CreateRelease, AssetsSame, Release
<1>3. Only(j) /\ job'[j].pc = "upload" /\ V(j)' = V(j)
  BY <1>1, GotoPc DEF V
<1>4. ReleaseOf(j).asset = None
  BY <1>1 DEF ServingInv, ServingFacts
<1>5. ServingFacts(j)'
  BY <1>1, <1>2, <1>3, <1>4 DEF ServingFacts, At, ReleaseOf, AssetsSame
<1> QED BY <1>1, <1>2, <1>3, <1>5, ServingKeeps DEF SharesSame, AssetsSame

\* The upload fills a place that no record of a store speaks of.
LEMMA UploadServes ==
  ASSUME IInv, ServingInv, ~setting.overlap, NEW j \in Jobs, UploadAsset(j)
  PROVE  ServingInv'
<1>1. SharesSame /\ Running(j) /\ At(j, "upload") /\ V(j) \in Version
  BY KnownOfJob DEF UploadAsset, stores, SharesSame, At, Running, V, Tree
<1>2. ReleaseOf(j).asset = None
  BY <1>1 DEF ServingInv, ServingFacts
<1>3. /\ release' = [release EXCEPT ![V(j)].asset = job[j].lpk]
      /\ Goto(j, "resolve")
  BY <1>2 DEF UploadAsset
<1>4. Only(j) /\ job'[j].pc = "resolve"
  BY <1>3, GotoPc
<1>5. \A v \in Version : release[v].asset # None =>
        release'[v].asset = release[v].asset
  BY <1>1, <1>2, <1>3, Fields DEF ReleaseOf, Release
<1>6. ServingFacts(j)'
  BY <1>4 DEF ServingFacts, At
<1> QED BY <1>1, <1>4, <1>5, <1>6, ServingKeeps DEF SharesSame

\* What a job hands to the stores is what it just saw in the Release.
LEMMA HandingServes ==
  ASSUME IInv, ServingInv, ~setting.overlap, NEW j \in Jobs,
         ResolveAsset(j) \/ DownloadAsset(j)
  PROVE  ServingInv'
<1>1. /\ SharesSame /\ AssetsSame /\ Running(j) /\ release' = release
  BY DEF ResolveAsset, DownloadAsset, remote, SharesSame, AssetsSame, At, Running
<1>2. CASE End(j)
  BY <1>1, <1>2, EndPc, BystanderKeeps
<1>3. CASE ~End(j)
  <2>1. /\ Only(j) /\ job'[j].pc = "private" /\ job'[j].tree = job[j].tree
        /\ job'[j].handed = ReleaseOf(j).asset
    <3>1. CASE ResolveAsset(j)
      BY <1>3, <3>1, Fields DEF ResolveAsset, Hand, Job, Only
    <3>2. CASE DownloadAsset(j)
      BY <1>3, <3>2, GotoPc DEF DownloadAsset
    <3> QED BY <3>1, <3>2
  <2>2. ServingFacts(j)'
    BY <1>1, <2>1 DEF ServingFacts, At, ReleaseOf, V
  <2> QED BY <1>1, <2>1, <2>2, ServingKeeps DEF SharesSame, AssetsSame
<1> QED BY <1>2, <1>3

\* The stores record what the Release serves.
LEMMA PrivateServes ==
  ASSUME IInv, ServingInv, ~setting.overlap, NEW j \in Jobs,
         PublishPrivate(j) \/ PrivateFails(j)
  PROVE  ServingInv'
<1>1. /\ setting' = setting /\ official' = official /\ release' = release
      /\ AssetsSame /\ Running(j) /\ At(j, "private")
  BY DEF PublishPrivate, PrivateFails, AssetsSame, At, Running
<1>2. V(j) \in Version /\ job[j].handed = release[V(j)].asset
  BY <1>1, ServesStores DEF ServingInv, ServingFacts, At, ReleaseOf
<1>3. \A v \in Version : private'[v] \in {private[v], release'[v].asset}
  BY <1>1, <1>2, Fields DEF PublishPrivate, PrivateFails
<1>4. /\ Only(j) /\ job'[j].pc = "official" /\ job'[j].tree = job[j].tree
      /\ job'[j].handed = job[j].handed
  BY Fields, GotoPc DEF PublishPrivate, PrivateFails, Job, Only
<1>5. ServingFacts(j)'
  BY <1>1, <1>2, <1>4 DEF ServingFacts, At, ReleaseOf, V
<1> QED BY <1>1, <1>3, <1>4, <1>5, ServingKeeps DEF AssetsSame

LEMMA OfficialServes ==
  ASSUME IInv, ServingInv, ~setting.overlap, NEW j \in Jobs, PublishOfficial(j)
  PROVE  ServingInv'
<1>1. /\ setting' = setting /\ private' = private /\ release' = release
      /\ AssetsSame /\ Running(j) /\ At(j, "official")
      /\ AfterOfficial(j, job[j].failed)
  BY DEF PublishOfficial, AssetsSame, At, Running
<1>2. V(j) \in Version /\ job[j].handed = release[V(j)].asset
  BY <1>1, ServesStores DEF ServingInv, ServingFacts, At, ReleaseOf
<1>3. \A v \in Version : official'[v] \in {official[v], release'[v].asset}
  BY <1>1, <1>2, Fields DEF PublishOfficial
<1>4. Only(j) /\ job'[j].pc \in {"sync", "idle"}
  BY <1>1, GotoPc, EndPc DEF AfterOfficial
<1>5. ServingFacts(j)'
  BY <1>4 DEF ServingFacts, At
<1> QED BY <1>1, <1>3, <1>4, <1>5, ServingKeeps DEF AssetsSame

\* The inputs of the workflow stay.
LEMMA SettingStays ==
  ASSUME [Next]_vars
  PROVE  setting' = setting
<1>1. NewImage \/ DeveloperPushes \/ UNCHANGED vars => setting' = setting
  BY DEF NewImage, DeveloperPushes, vars
<1>2. ASSUME NEW j \in Jobs,
             \/ Trigger(j) \/ TagPushed(j) \/ Rerun(j)
             \/ Dies(j) \/ PrivateFails(j) \/ OfficialFails(j)
      PROVE  setting' = setting
  BY <1>2 DEF Trigger, TagPushed, Rerun, Dies, PrivateFails, OfficialFails
<1>3. ASSUME NEW j \in Jobs,
             \/ Start(j) \/ RunAction(j) \/ Fetch(j) \/ Push(j) \/ Refetch(j)
             \/ Classify(j) \/ RecoveryBuild(j) \/ InspectAsset(j)
      PROVE  setting' = setting
  BY <1>3 DEF Start, RunAction, Fetch, Push, Refetch, Classify, RecoveryBuild,
              InspectAsset
<1>4. ASSUME NEW j \in Jobs,
             \/ CreateRelease(j) \/ UploadAsset(j) \/ ResolveAsset(j)
             \/ LocateAsset(j) \/ DownloadAsset(j)
             \/ PublishPrivate(j) \/ PublishOfficial(j)
             \/ ReadDefaultBranch(j) \/ PutPackageFile(j)
      PROVE  setting' = setting
  BY <1>4 DEF CreateRelease, UploadAsset, ResolveAsset, LocateAsset,
              DownloadAsset, PublishPrivate, PublishOfficial,
              ReadDefaultBranch, PutPackageFile
<1> QED BY <1>1, <1>2, <1>3, <1>4 DEF Next, Step

LEMMA NextServes ==
  ASSUME IInv, ServingInv, [Next]_vars
  PROVE  ServingInv'
<1>1. setting' = setting
  BY SettingStays
<1>2. CASE setting.overlap
  BY <1>1, <1>2, OverlapKeeps
<1>3. CASE ~setting.overlap
  <2>1. CASE NewImage \/ DeveloperPushes \/ UNCHANGED vars
    BY <1>1, <2>1
    DEF NewImage, DeveloperPushes, vars, stores, ServingInv, OneRuns, Running,
        ServingFacts, At, ReleaseOf, V, StoresServeTheRelease
  <2>2. ASSUME NEW j \in Jobs, Step(j) PROVE ServingInv'
    BY <1>3, <2>2, StartServes, QuietServes, InspectServes, CreateServes,
       UploadServes, HandingServes, PrivateServes, OfficialServes
    DEF Step, Quiet
  <2> QED BY <1>3, <2>1, <2>2, QueueingServes, QuietServes, PrivateServes
          DEF Next, Quiet
<1> QED BY <1>2, <1>3

LEMMA InitServes ==
  ASSUME Init
  PROVE  ServingInv
  BY DEF Init, IdleJob, ServingInv, OneRuns, Running, ServingFacts, At,
         StoresServeTheRelease

\* While the jobs of one concurrency group do not overlap, both stores have the
\* very file the Release serves, however builds differ and wherever jobs die.
THEOREM StoresAgree == Spec => []StoresServeTheRelease
<1>1. Init => ServingInv
  BY InitServes
<1>2. IInv /\ ServingInv /\ [Next]_vars => ServingInv'
  BY NextServes
<1>3. ServingInv => StoresServeTheRelease
  BY DEF ServingInv
<1> QED BY <1>1, <1>2, <1>3, InductiveInvariant, PTL DEF Spec

-----------------------------------------------------------------------------
(* The refinement of ReleaseOnce                                            *)

\* Of what the abstract specification sees, nothing changes.
AbstractSame == UNCHANGED OneRelease!vars

\* The Releases and the stores are all that it sees.
LEMMA SharesAbstract ==
  ASSUME SharesSame, AssetsSame
  PROVE  AbstractSame
  BY DEF SharesSame, AssetsSame, AbstractSame, OneRelease!vars, IfQueued

\* Nothing is seen of overlapping groups.
LEMMA OverlapAbstract ==
  ASSUME setting.overlap, setting' = setting
  PROVE  AbstractSame
  BY DEF AbstractSame, OneRelease!vars, IfQueued

\* A queued job uploads an asset to a Release that has none.
LEMMA UploadReleases ==
  ASSUME IInv, ServingInv, ~setting.overlap, NEW j \in Jobs, UploadAsset(j)
  PROVE  OneRelease!Next \/ AbstractSame
<1>1. /\ At(j, "upload") /\ V(j) \in Version /\ SharesSame
      /\ job[j].lpk \in LPK \cup {None}
  BY KnownOfJob DEF UploadAsset, stores, SharesSame, At, V, Tree, Job
<1>2. release[V(j)].asset = None
  BY <1>1 DEF ServingInv, ServingFacts, ReleaseOf
<1>3. release' = [release EXCEPT ![V(j)].asset = job[j].lpk]
  BY <1>2 DEF UploadAsset, ReleaseOf
<1>4. \A v \in Version :
        release'[v].asset = IF v = V(j) THEN job[j].lpk ELSE release[v].asset
  BY <1>1, <1>3, Fields DEF Release
<1>5. CASE job[j].lpk = None
  <2>1. AssetsSame
    BY <1>2, <1>4, <1>5 DEF AssetsSame
  <2> QED BY <1>1, <2>1, SharesAbstract
<1>6. CASE job[j].lpk \in LPK
  <2>1. OneRelease!Release(V(j), job[j].lpk)
    BY <1>1, <1>2, <1>4 DEF OneRelease!Release, IfQueued, SharesSame
  <2> QED BY <1>1, <1>6, <2>1 DEF OneRelease!Next
<1> QED BY <1>1, <1>5, <1>6

\* A store that changes what it records of a version records the asset, where
\* it recorded nothing.
LEMMA StoreDelivers ==
  ASSUME IInv, ServingInv, ~setting.overlap, setting' = setting,
         release' = release, NEW v \in Version,
         \/ /\ official' = official
            /\ private[v] = None
            /\ private' = [private EXCEPT ![v] = release[v].asset]
         \/ /\ private' = private
            /\ official[v] = None
            /\ official' = [official EXCEPT ![v] = release[v].asset]
  PROVE  OneRelease!Next \/ AbstractSame
<1>1. CASE release[v].asset = None
  <2>1. private' = private /\ official' = official
    BY <1>1, Fields
  <2> QED BY <2>1, SharesAbstract DEF SharesSame, AssetsSame
<1>2. CASE release[v].asset # None /\ official' = official
           /\ private[v] = None
           /\ private' = [private EXCEPT ![v] = release[v].asset]
  <2>1. OneRelease!Deliver("private", v)
    BY <1>2, Fields DEF OneRelease!Deliver, IfQueued
  <2> QED BY <2>1 DEF OneRelease!Next
<1>3. CASE release[v].asset # None /\ private' = private
           /\ official[v] = None
           /\ official' = [official EXCEPT ![v] = release[v].asset]
  <2>1. OneRelease!Deliver("official", v)
    BY <1>3, Fields DEF OneRelease!Deliver, IfQueued
  <2> QED BY <2>1 DEF OneRelease!Next
<1> QED BY <1>1, <1>2, <1>3

\* The steps of a job in front of a store.
LEMMA StoreStepDelivers ==
  ASSUME IInv, ServingInv, ~setting.overlap, NEW j \in Jobs,
         PublishPrivate(j) \/ PrivateFails(j) \/ PublishOfficial(j)
  PROVE  OneRelease!Next \/ AbstractSame
<1>1. /\ setting' = setting /\ release' = release
      /\ At(j, "private") \/ At(j, "official")
  BY DEF PublishPrivate, PrivateFails, PublishOfficial
<1>2. V(j) \in Version /\ job[j].handed = release[V(j)].asset
  BY <1>1, ServesStores DEF ServingInv, ServingFacts, At, ReleaseOf
<1>3. CASE private' = private /\ official' = official
  BY <1>1, <1>3, SharesAbstract DEF SharesSame, AssetsSame
<1>4. CASE PublishPrivate(j) \/ PrivateFails(j)
  <2>1. official' = official
    BY <1>4 DEF PublishPrivate, PrivateFails
  <2>2. \/ private' = private
        \/ /\ private[V(j)] = None
           /\ private' = [private EXCEPT ![V(j)] = release[V(j)].asset]
    BY <1>2, <1>4, Fields DEF PublishPrivate, PrivateFails
  <2> QED BY <1>1, <1>2, <1>3, <2>1, <2>2, StoreDelivers
<1>5. CASE PublishOfficial(j)
  <2>1. private' = private
    BY <1>5 DEF PublishOfficial
  <2>2. \/ official' = official
        \/ /\ official[V(j)] = None
           /\ official' = [official EXCEPT ![V(j)] = release[V(j)].asset]
    BY <1>2, <1>5, Fields DEF PublishOfficial
  <2> QED BY <1>1, <1>2, <1>3, <2>1, <2>2, StoreDelivers
<1> QED BY <1>4, <1>5

\* The steps that only lead to or from a Release and the stores.
LEMMA OtherStepsShow ==
  ASSUME IInv, NEW j \in Jobs,
         \/ Start(j) \/ InspectAsset(j) \/ CreateRelease(j)
         \/ ResolveAsset(j) \/ DownloadAsset(j)
  PROVE  AbstractSame
<1>1. CASE Start(j) \/ InspectAsset(j) \/ ResolveAsset(j) \/ DownloadAsset(j)
  BY <1>1, SharesAbstract
  DEF Start, InspectAsset, ResolveAsset, DownloadAsset, remote, SharesSame,
      AssetsSame
<1>2. CASE CreateRelease(j)
  <2>1. SharesSame /\ V(j) \in Version
    BY <1>2, KnownOfJob DEF CreateRelease, stores, SharesSame, At, V, Tree
  <2>2. AssetsSame
    BY <1>2, <2>1, Fields DEF CreateRelease, AssetsSame, Release
  <2> QED BY <2>1, <2>2, SharesAbstract
<1> QED BY <1>1, <1>2

\* Jobs of one concurrency group, however many, wherever they die and however
\* often they are run again, upload the asset of a version once, never delete
\* or replace it, and let each store record it once.
THEOREM PipelineReleasesOnce == Spec => ReleasesOnce
<1>1. Init => OneRelease!Init
  BY DEF Init, NoRelease, OneRelease!Init, IfQueued
<1>2. IInv /\ ServingInv /\ [Next]_vars => [OneRelease!Next]_(OneRelease!vars)
  <2>1. SUFFICES ASSUME IInv, ServingInv, [Next]_vars
                 PROVE  OneRelease!Next \/ AbstractSame
    BY DEF AbstractSame
  <2>2. setting' = setting
    BY <2>1, SettingStays
  <2>3. CASE setting.overlap
    BY <2>2, <2>3, OverlapAbstract
  <2>4. CASE ~setting.overlap
    <3>1. CASE NewImage \/ DeveloperPushes \/ UNCHANGED vars
      BY <3>1, SharesAbstract
      DEF NewImage, DeveloperPushes, vars, stores, SharesSame, AssetsSame
    <3>2. ASSUME NEW j \in Jobs, Trigger(j) \/ TagPushed(j) \/ Rerun(j)
          PROVE  AbstractSame
      BY <2>1, <3>2, QueueingShares, SharesAbstract
    <3>3. ASSUME NEW j \in Jobs, Quiet(j)
          PROVE  AbstractSame
      BY <3>3, QuietShares, SharesAbstract
    <3>4. ASSUME NEW j \in Jobs, Step(j)
          PROVE  OneRelease!Next \/ AbstractSame
      BY <2>1, <2>4, <3>3, <3>4, OtherStepsShow, UploadReleases, StoreStepDelivers
      DEF Step, Quiet
    <3> QED BY <2>1, <2>4, <3>1, <3>2, <3>3, <3>4, StoreStepDelivers
        DEF Next, Quiet
  <2> QED BY <2>3, <2>4
<1>3. Init => ServingInv
  BY InitServes
<1>4. IInv /\ ServingInv /\ [Next]_vars => ServingInv'
  BY NextServes
<1> QED
  BY <1>1, <1>2, <1>3, <1>4, InductiveInvariant, PTL
  DEF Spec, ReleasesOnce, OneRelease!Spec

-----------------------------------------------------------------------------
(* Developers' edits                                                        *)

\* From the Action's build on, a job for a tag works on the tagged commit with
\* the tag's version, and only such a job synchronises the package file.
TagFacts(r) ==
  /\ r.serves # 0 /\ r.pc \notin {"idle", "pending", "run"} =>
       /\ release[r.serves].tag # 0
       /\ r.tree.version = r.serves
       /\ Edits(r.tree) = Edits(branch[release[r.serves].tag])
  /\ r.pc \in {"sync", "put"} => r.serves # 0

\* Edits of the package file are numbered as they are made.
MetaInv == \A i \in 1..Tip : branch[i].meta <= budget.edits

EditInv == MetaInv /\ \A j \in Jobs : TagFacts(job[j])

\* What a step may do to a job: nothing, start or end it, or take it further
\* with the tree it has, which only the Action changes.
Follows(j) ==
  \/ job'[j] = job[j]
  \/ job'[j].pc \in {"idle", "pending", "run"}
  \/ /\ job[j].pc \notin {"idle", "pending", "run"}
     /\ job'[j].serves = job[j].serves /\ job'[j].tree = job[j].tree
     /\ job'[j].pc \in {"sync", "put"} =>
          job[j].serves # 0 \/ job[j].pc \in {"sync", "put"}
  \/ RunAction(j)

LEMMA GotoFollows ==
  ASSUME IInv, NEW j \in Jobs, NEW pc \in PC, Goto(j, pc),
         job[j].pc \notin {"idle", "pending", "run"},
         pc \in {"sync", "put"} => job[j].serves # 0 \/ job[j].pc \in {"sync", "put"}
  PROVE  Only(j) /\ Follows(j)
  BY GotoMoves DEF Moves, Only, Follows

LEMMA EndFollows ==
  ASSUME IInv, NEW j \in Jobs, End(j)
  PROVE  Only(j) /\ Follows(j)
  BY EndPc DEF Follows

\* Steps that set several outputs at once.
LEMMA OutputFollows ==
  ASSUME IInv, NEW j \in Jobs,
         Trigger(j) \/ TagPushed(j) \/ Rerun(j) \/ Start(j) \/ RunAction(j)
  PROVE  Only(j) /\ Follows(j)
<1>1. job \in [Jobs -> Job]
  BY Fields
<1>2. CASE Trigger(j)
  BY <1>1, <1>2 DEF Trigger, IdleJob, Only, Follows
<1>3. CASE TagPushed(j)
  BY <1>1, <1>3 DEF TagPushed, IdleJob, Only, Follows
<1>4. CASE Rerun(j)
  BY <1>1, <1>4 DEF Rerun, IdleJob, Only, Follows
<1>5. CASE Start(j)
  BY <1>1, <1>5 DEF Start, Job, Only, Follows
<1>6. CASE RunAction(j)
  BY <1>1, <1>6 DEF RunAction, Only, Follows
<1> QED BY <1>2, <1>3, <1>4, <1>5, <1>6

LEMMA CommitFollows ==
  ASSUME IInv, NEW j \in Jobs,
         Fetch(j) \/ Push(j) \/ Refetch(j) \/ RecoveryBuild(j)
  PROVE  Only(j) /\ Follows(j)
<1>1. job \in [Jobs -> Job] /\ job[j] \in Job
  BY Fields
<1>2. ASSUME AdoptMatchingRemote(j), job[j].pc \notin {"idle", "pending", "run"}
      PROVE  Only(j) /\ Follows(j)
  BY <1>1, <1>2 DEF AdoptMatchingRemote, Job, Only, Follows
<1>3. CASE Fetch(j)
  BY <1>2, <1>3, GotoFollows DEF Fetch, At, PC
<1>4. CASE Push(j)
  <2>1. CASE PushAccepted(j)
    BY <1>1, <1>4, <2>1 DEF Push, At, Job, Only, Follows
  <2> QED BY <1>4, <2>1, GotoFollows DEF Push, At, PC
<1>5. CASE Refetch(j)
  BY <1>2, <1>5, EndFollows DEF Refetch, At
<1>6. CASE RecoveryBuild(j)
  <2>1. PICK build : job' = [job EXCEPT
          ![j].lpk = [tree |-> job[j].tree, build |-> build], ![j].pc = "inspect"]
    BY <1>6 DEF RecoveryBuild
  <2>2. job[j].pc = "recover"
    BY <1>6 DEF RecoveryBuild, At
  <2>3. /\ job'[j].serves = job[j].serves /\ job'[j].tree = job[j].tree
        /\ job'[j].pc = "inspect" /\ Only(j)
    BY <1>1, <2>1 DEF Job, Only
  <2> QED BY <2>2, <2>3 DEF Follows
<1> QED BY <1>3, <1>4, <1>5, <1>6

LEMMA ReleaseFollows ==
  ASSUME IInv, NEW j \in Jobs,
         \/ Classify(j) \/ InspectAsset(j) \/ CreateRelease(j) \/ UploadAsset(j)
         \/ ResolveAsset(j) \/ LocateAsset(j) \/ DownloadAsset(j)
  PROVE  Only(j) /\ Follows(j)
<1>1. job \in [Jobs -> Job] /\ job[j] \in Job
  BY Fields
<1>2. ASSUME NEW pc \in {"private", "download"}, NEW lpk, Hand(j, pc, lpk),
             job[j].pc \notin {"idle", "pending", "run"}
      PROVE  Only(j) /\ Follows(j)
  BY <1>1, <1>2 DEF Hand, Job, Only, Follows
<1>3. CASE Classify(j)
  BY <1>3, GotoFollows DEF Classify, At, PC
<1>4. CASE InspectAsset(j)
  BY <1>4, GotoFollows, EndFollows DEF InspectAsset, AfterInspection, At, PC
<1>5. CASE CreateRelease(j)
  BY <1>5, GotoFollows DEF CreateRelease, At, PC
<1>6. CASE UploadAsset(j)
  <2>1. CASE Goto(j, "resolve")
    BY <1>6, <2>1, GotoFollows DEF UploadAsset, At, PC
  <2>2. CASE job' = job
    BY <2>2 DEF Only, Follows
  <2> QED BY <1>6, <2>1, <2>2 DEF UploadAsset
<1>7. CASE ResolveAsset(j)
  BY <1>2, <1>7, EndFollows DEF ResolveAsset, At
<1>8. CASE LocateAsset(j)
  BY <1>2, <1>8, EndFollows DEF LocateAsset, At
<1>9. CASE DownloadAsset(j)
  BY <1>9, GotoFollows, EndFollows DEF DownloadAsset, At, PC
<1> QED BY <1>3, <1>4, <1>5, <1>6, <1>7, <1>8, <1>9

LEMMA StoreFollows ==
  ASSUME IInv, NEW j \in Jobs,
         \/ PublishPrivate(j) \/ PrivateFails(j) \/ PublishOfficial(j)
         \/ OfficialFails(j) \/ ReadDefaultBranch(j) \/ PutPackageFile(j)
         \/ Dies(j)
  PROVE  Only(j) /\ Follows(j)
<1>1. job \in [Jobs -> Job] /\ job[j] \in Job
  BY Fields
<1>2. ASSUME job[j].pc = "private",
             job' = [job EXCEPT ![j].pc = "official", ![j].failed = TRUE]
      PROVE  Only(j) /\ Follows(j)
  BY <1>1, <1>2 DEF Job, Only, Follows
<1>3. ASSUME job[j].pc = "official", NEW failed, AfterOfficial(j, failed)
      PROVE  Only(j) /\ Follows(j)
  BY <1>3, GotoFollows, EndFollows DEF AfterOfficial, ForTag, PC
<1>4. CASE PublishPrivate(j)
  BY <1>2, <1>4, GotoFollows DEF PublishPrivate, At, PC
<1>5. CASE PrivateFails(j)
  BY <1>2, <1>5 DEF PrivateFails, At
<1>6. CASE PublishOfficial(j)
  BY <1>3, <1>6 DEF PublishOfficial, At
<1>7. CASE OfficialFails(j)
  BY <1>3, <1>7 DEF OfficialFails, At
<1>8. CASE ReadDefaultBranch(j)
  <2>1. ASSUME job' = [job EXCEPT ![j].read = PackageFileOf(branch[Tip]),
                                  ![j].pc = "put"]
        PROVE  Only(j) /\ Follows(j)
    BY <1>1, <1>8, <2>1 DEF ReadDefaultBranch, At, Job, Only, Follows
  <2> QED BY <1>8, <2>1, EndFollows DEF ReadDefaultBranch
<1>9. CASE PutPackageFile(j)
  BY <1>9, EndFollows DEF PutPackageFile
<1>10. CASE Dies(j)
  BY <1>10, EndFollows DEF Dies
<1> QED BY <1>4, <1>5, <1>6, <1>7, <1>8, <1>9, <1>10

LEMMA NextFollows ==
  ASSUME IInv, [Next]_vars, NEW i \in Jobs
  PROVE  Follows(i)
<1>1. CASE job' = job
  BY <1>1 DEF Follows
<1>2. ASSUME NEW j \in Jobs, Only(j) /\ Follows(j)
      PROVE  Follows(i)
  BY <1>2 DEF Only, Follows
<1>3. ASSUME NEW j \in Jobs,
             \/ Trigger(j) \/ TagPushed(j) \/ Rerun(j) \/ Step(j)
             \/ Dies(j) \/ PrivateFails(j) \/ OfficialFails(j)
      PROVE  Follows(i)
  BY <1>2, <1>3, OutputFollows, CommitFollows, ReleaseFollows, StoreFollows
  DEF Step
<1>4. CASE NewImage \/ DeveloperPushes \/ UNCHANGED vars
  BY <1>1, <1>4 DEF NewImage, DeveloperPushes, vars
<1> QED BY <1>3, <1>4 DEF Next

\* Tags are never moved.
LEMMA NextKeepsTags ==
  ASSUME IInv, [Next]_vars
  PROVE  TagsStay
<1>1. CASE release' = release
  BY <1>1 DEF TagsStay
<1>2. ASSUME NEW j \in Jobs, TagPushed(j) PROVE TagsStay
  BY <1>2, Fields DEF TagPushed, TagsStay, Release
<1>3. ASSUME NEW j \in Jobs, CreateRelease(j) PROVE TagsStay
  BY <1>3, Fields DEF CreateRelease, TagsStay, Release
<1>4. ASSUME NEW j \in Jobs, UploadAsset(j) PROVE TagsStay
  <2>1. release \in [Version -> Release]
    BY Fields
  <2>2. PICK asset : release' = [release EXCEPT ![V(j)].asset = asset]
    BY <1>4 DEF UploadAsset
  <2> QED BY <2>1, <2>2 DEF TagsStay, Release
<1>5. ASSUME NEW j \in Jobs,
             \/ Trigger(j) \/ Rerun(j) \/ Start(j) \/ RunAction(j)
             \/ Fetch(j) \/ Push(j) \/ Refetch(j) \/ Classify(j)
             \/ RecoveryBuild(j) \/ InspectAsset(j) \/ ResolveAsset(j)
             \/ LocateAsset(j) \/ DownloadAsset(j)
      PROVE  release' = release
  BY <1>5 DEF Trigger, Rerun, Start, RunAction, Fetch, Push, Refetch, Classify,
              RecoveryBuild, InspectAsset, ResolveAsset, LocateAsset,
              DownloadAsset, remote
<1>6. ASSUME NEW j \in Jobs,
             \/ PublishPrivate(j) \/ PublishOfficial(j) \/ ReadDefaultBranch(j)
             \/ PutPackageFile(j) \/ Dies(j) \/ PrivateFails(j) \/ OfficialFails(j)
      PROVE  release' = release
  BY <1>6 DEF PublishPrivate, PublishOfficial, ReadDefaultBranch,
              PutPackageFile, Dies, PrivateFails, OfficialFails, remote
<1>7. CASE NewImage \/ DeveloperPushes \/ UNCHANGED vars
  BY <1>1, <1>7 DEF NewImage, DeveloperPushes, vars
<1> QED BY <1>1, <1>2, <1>3, <1>4, <1>5, <1>6, <1>7 DEF Next, Step

\* The number of edits only grows.
LEMMA NextCounts ==
  ASSUME IInv, [Next]_vars
  PROVE  budget'.edits \in Nat /\ budget'.edits >= budget.edits
<1>1. budget.edits \in Nat
  BY Fields DEF BudgetType
<1>2. ASSUME NEW kind \in {"edits", "tags", "faults"}, Spend(kind)
      PROVE  budget'.edits \in Nat /\ budget'.edits >= budget.edits
  BY <1>1, <1>2, SpendKeeps DEF BudgetType
<1>3. CASE budget' = budget
  BY <1>1, <1>3
<1>4. ASSUME NEW j \in Jobs,
             TagPushed(j) \/ Rerun(j) \/ Dies(j) \/ PrivateFails(j) \/ OfficialFails(j)
      PROVE  budget'.edits \in Nat /\ budget'.edits >= budget.edits
  BY <1>2, <1>4 DEF TagPushed, Rerun, Dies, PrivateFails, OfficialFails
<1>5. ASSUME NEW j \in Jobs, Trigger(j) \/ Step(j) PROVE budget' = budget
  BY <1>5 DEF Trigger, Step, Start, RunAction, Fetch, Push, Refetch, Classify,
              RecoveryBuild, InspectAsset, CreateRelease, UploadAsset,
              ResolveAsset, LocateAsset, DownloadAsset, PublishPrivate,
              PublishOfficial, ReadDefaultBranch, PutPackageFile
<1>6. CASE NewImage \/ DeveloperPushes \/ UNCHANGED vars
  BY <1>2, <1>3, <1>6 DEF NewImage, DeveloperPushes, vars
<1> QED BY <1>3, <1>4, <1>5, <1>6 DEF Next

\* The three ways in which the branch moves.
LEMMA NextMovesBranch ==
  ASSUME IInv, [Next]_vars, branch' # branch
  PROVE  /\ \E tree \in Tree : branch' = Append(branch, tree)
         /\ LET old == branch[Tip]
                new == branch'[Len(branch')]
            IN \/ Edits(new) = Edits(old)
               \/ \E part \in {"meta", "rev"} :
                    /\ new = [old EXCEPT ![part] = budget.edits + 1]
                    /\ budget'.edits = budget.edits + 1
               \/ \E j \in Jobs :
                    /\ At(j, "put") /\ PutAccepted(j)
                    /\ new = [old EXCEPT !.version = V(j),
                                         !.meta = job[j].tree.meta]
<1>1. CASE DeveloperPushes
  BY <1>1, DeveloperPushesStep
<1>2. ASSUME NEW j \in Jobs, Push(j)
      PROVE  /\ \E tree \in Tree : branch' = Append(branch, tree)
             /\ Edits(branch'[Len(branch')]) = Edits(branch[Tip])
  <2>1. job[j].tree \in Tree
    BY <1>2, KnownOfJob DEF Push, At
  <2> QED BY <1>2, <2>1, PushStep
<1>3. ASSUME NEW j \in Jobs, PutPackageFile(j)
      PROVE  /\ \E tree \in Tree : branch' = Append(branch, tree)
             /\ At(j, "put") /\ PutAccepted(j)
             /\ branch'[Len(branch')] =
                  [branch[Tip] EXCEPT !.version = V(j), !.meta = job[j].tree.meta]
  BY <1>3, PutPackageFileStep DEF PutPackageFile
<1>4. ~NewImage /\ ~UNCHANGED vars
  BY DEF NewImage, vars
<1> QED BY <1>1, <1>2, <1>3, <1>4, BranchStays DEF Next, Step

\* What the package file of a tag job holds.
LEMMA SyncedFile ==
  ASSUME IInv, EditInv, NEW j \in Jobs, At(j, "put")
  PROVE  /\ job[j].serves = V(j) /\ ReleaseOf(j).tag \in 1..Tip
         /\ job[j].tree.meta = branch[ReleaseOf(j).tag].meta
         /\ V(j) \in Version
<1>1. /\ job[j].serves # 0 /\ V(j) = job[j].serves
      /\ ReleaseOf(j).tag # 0
      /\ Edits(job[j].tree) = Edits(branch[ReleaseOf(j).tag])
  BY DEF EditInv, TagFacts, At, V, ReleaseOf
<1>2. job[j].tree \in Tree /\ V(j) \in Version
  BY KnownOfJob DEF At, V, Tree
<1>3. ReleaseOf(j).tag \in 0..Tip /\ Tip \in Nat
  BY <1>2, Fields DEF ReleaseOf
<1> QED BY <1>1, <1>2, <1>3 DEF Edits

LEMMA NextKeepsEdits ==
  ASSUME IInv, EditInv, [Next]_vars
  PROVE  EditInv'
<1>1. /\ BranchGrows /\ TagsStay
      /\ budget'.edits \in Nat /\ budget'.edits >= budget.edits
  BY NextKeepsTags, NextCounts, NextMovesBranch DEF BranchGrows
<1>2. /\ Tip \in Nat /\ Tip > 0 /\ branch \in Seq(Tree)
      /\ \A i \in 1..Tip : branch'[i] = branch[i]
      /\ budget.edits \in Nat
      /\ \A i \in 1..Tip : branch[i] \in Tree /\ branch[i].meta <= budget.edits
  BY <1>1, Fields, CommitsStay, CommitType DEF BudgetType, EditInv, MetaInv
<1>3. ASSUME NEW i \in 1..Tip PROVE branch'[i].meta <= budget'.edits
  <2>1. branch'[i] = branch[i] /\ branch[i] \in Tree /\ branch[i].meta <= budget.edits
    BY <1>2
  <2>2. branch[i].meta \in Nat
    BY <2>1, SettingsAssumption DEF Tree
  <2> QED BY <1>1, <1>2, <2>1, <2>2
<1>4. MetaInv'
  <2>1. CASE branch' = branch
    BY <1>3, <2>1 DEF MetaInv, Tip
  <2>2. CASE branch' # branch
    <3> DEFINE new == branch'[Len(branch')]
    <3>1. Tip' = Tip + 1 /\ Tip \in 1..Tip /\ new = branch'[Tip']
      <4>1. PICK tree \in Tree : branch' = Append(branch, tree)
        BY <2>2, NextMovesBranch
      <4>2. Len(branch') = Len(branch) + 1
        BY <1>2, <4>1
      <4> QED BY <1>2, <4>2 DEF Tip
    <3>2. new.meta <= budget'.edits
      <4>1. branch[Tip] \in Tree /\ branch[Tip].meta <= budget'.edits
        BY <1>2, <1>3, <3>1
      <4>2. CASE Edits(new) = Edits(branch[Tip])
        BY <4>1, <4>2 DEF Edits
      <4>3. ASSUME NEW part \in {"meta", "rev"},
                   new = [branch[Tip] EXCEPT ![part] = budget.edits + 1],
                   budget'.edits = budget.edits + 1
            PROVE  new.meta <= budget'.edits
        <5>1. new.meta = IF part = "meta" THEN budget.edits + 1 ELSE branch[Tip].meta
          BY <4>1, <4>3 DEF Tree
        <5> QED BY <1>1, <4>1, <4>3, <5>1
      <4>4. ASSUME NEW j \in Jobs, At(j, "put"),
                   new = [branch[Tip] EXCEPT !.version = V(j),
                                             !.meta = job[j].tree.meta]
            PROVE  new.meta <= budget'.edits
        <5>1. new.meta = job[j].tree.meta
          BY <4>1, <4>4 DEF Tree
        <5>2. /\ ReleaseOf(j).tag \in 1..Tip
              /\ job[j].tree.meta = branch[ReleaseOf(j).tag].meta
          BY <4>4, SyncedFile
        <5> QED BY <1>2, <1>3, <5>1, <5>2
      <4> HIDE DEF new
      <4> QED BY <2>2, <4>2, <4>3, <4>4, NextMovesBranch DEF new
    <3> QED BY <1>3, <3>1, <3>2 DEF MetaInv
  <2> QED BY <2>1, <2>2
<1>5. ASSUME NEW j \in Jobs PROVE TagFacts(job[j])'
  <2>1. TagFacts(job[j]) /\ JobFacts(job[j]) /\ job[j] \in Job
        /\ job[j].serves \in 0..MaxVersion
    BY Fields DEF EditInv, Job
  <2>2. job[j].serves # 0 => job[j].serves \in Version
    BY <2>1, SettingsAssumption DEF Version
  <2>3. job[j].serves # 0 /\ release[job[j].serves].tag # 0 =>
          /\ release'[job[j].serves].tag = release[job[j].serves].tag
          /\ branch'[release[job[j].serves].tag] = branch[release[job[j].serves].tag]
    <3>1. \A v \in Version : release[v].tag \in 0..Tip
      BY Fields
    <3> QED BY <1>1, <1>2, <2>2, <3>1 DEF TagsStay
  <2>4. CASE job'[j] = job[j]
    BY <2>1, <2>3, <2>4 DEF TagFacts
  <2>5. CASE job'[j].pc \in {"idle", "pending", "run"}
    BY <2>5 DEF TagFacts
  <2>6. CASE /\ job[j].pc \notin {"idle", "pending", "run"}
             /\ job'[j].serves = job[j].serves /\ job'[j].tree = job[j].tree
             /\ job'[j].pc \in {"sync", "put"} =>
                  job[j].serves # 0 \/ job[j].pc \in {"sync", "put"}
    BY <2>1, <2>3, <2>6 DEF TagFacts
  <2>7. CASE RunAction(j)
    <3>1. /\ job[j].pc = "run"
          /\ job'[j].tree = [job[j].tree EXCEPT !.version = NextVersion(j)]
          /\ job'[j].serves = job[j].serves /\ job'[j].pc \in {"fetch", "classify"}
      BY <2>7, Fields DEF RunAction, At, Job
    <3>2. /\ job[j].tree \in Tree
          /\ Edits(job[j].tree) = Edits(branch[job[j].sha])
          /\ job[j].sha > 0
          /\ job[j].serves # 0 => release[job[j].serves].tag = job[j].sha
      BY <2>1, <3>1 DEF JobFacts, CheckoutFacts, TreeFacts, Committing
    <3>3. job[j].serves # 0 =>
            /\ job'[j].tree.version = job[j].serves
            /\ Edits(job'[j].tree) = Edits(job[j].tree)
      BY <3>1, <3>2 DEF NextVersion, ForTag, Edits, Tree
    <3> QED BY <2>1, <2>3, <3>1, <3>2, <3>3 DEF TagFacts, Job
  <2> QED BY <2>4, <2>5, <2>6, <2>7, NextFollows DEF Follows
<1> QED BY <1>4, <1>5 DEF EditInv

LEMMA InitEdits ==
  ASSUME Init
  PROVE  EditInv
<1>1. Tip = 1 /\ branch[1].meta = 0 /\ budget.edits = 0
  BY DEF Init, Tip
<1> QED BY <1>1 DEF Init, EditInv, MetaInv, TagFacts, IdleJob

\* No step takes a developer's edit from the branch, but for a synchronisation
\* that writes the tag's package file over the very file it has read: a push is
\* refused unless it is made from the tip, and GitHub refuses a write over a
\* file that has changed since.
THEOREM CommitsSurvive == Spec => EditsSurvive
<1> DEFINE old == branch[Tip]
           new == branch'[Len(branch')]
           Survives == /\ new.rev >= old.rev
                       /\ \/ new.meta >= old.meta
                          \/ \E j \in Jobs : TakesBack(j, old, new)
<1>1. IInv /\ EditInv /\ [Next]_vars => (branch' = branch \/ Survives)
  <2> SUFFICES ASSUME IInv, EditInv, [Next]_vars, branch' # branch
               PROVE  Survives
    OBVIOUS
  <2>1. /\ old \in Tree /\ old.rev \in Nat /\ old.meta \in Nat
        /\ old.rev <= budget.edits /\ old.meta <= budget.edits
        /\ budget.edits \in Nat
    <3>1. Tip \in 1..Tip
      BY Fields
    <3>2. old \in Tree /\ budget.edits \in Nat
      BY <3>1, Fields, CommitType DEF BudgetType
    <3> QED BY <3>1, <3>2 DEF IInv, RevInv, EditInv, MetaInv, Tree
  <2>2. CASE Edits(new) = Edits(old)
    BY <2>1, <2>2 DEF Edits
  <2>3. ASSUME NEW part \in {"meta", "rev"},
               new = [old EXCEPT ![part] = budget.edits + 1]
        PROVE  Survives
    <3>1. CASE part = "meta"
      <4>1. new.rev = old.rev /\ new.meta = budget.edits + 1
        BY <2>1, <2>3, <3>1 DEF Tree
      <4> QED BY <2>1, <4>1
    <3>2. CASE part = "rev"
      <4>1. new.rev = budget.edits + 1 /\ new.meta = old.meta
        BY <2>1, <2>3, <3>2 DEF Tree
      <4> QED BY <2>1, <4>1
    <3> QED BY <3>1, <3>2
  <2>4. ASSUME NEW j \in Jobs, At(j, "put"), PutAccepted(j),
               new = [old EXCEPT !.version = V(j), !.meta = job[j].tree.meta]
        PROVE  Survives
    <3>1. /\ new.rev = old.rev /\ new.version = V(j)
          /\ new.meta = job[j].tree.meta
      BY <2>1, <2>4 DEF Tree
    <3>2. TakesBack(j, old, new)
      BY <2>4, <3>1, SyncedFile DEF TakesBack, PutAccepted, PackageFileOf
    <3> QED BY <2>1, <3>1, <3>2
  <2> HIDE DEF Survives, old, new
  <2> QED BY <2>2, <2>3, <2>4, NextMovesBranch DEF old, new
<1>2. IInv /\ EditInv /\ [Next]_vars => [Survives]_branch
  BY <1>1
<1>3. IInv /\ EditInv /\ [Next]_vars => EditInv'
  BY NextKeepsEdits
<1>4. Spec => []EditInv
  BY <1>3, InitEdits, InductiveInvariant, PTL DEF Spec
<1> QED BY <1>2, <1>4, InductiveInvariant, PTL DEF Spec, EditsSurvive
=============================================================================
