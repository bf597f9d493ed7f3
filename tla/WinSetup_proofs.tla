-------------------------- MODULE WinSetup_proofs --------------------------
(***************************************************************************)
(* No rollback and no restore touches an administrator's audit rule; every *)
(* change that is left in Windows has a row that undoes it; a failed setup *)
(* leaves SACLs as they were, and an undisturbed restore leaves Windows    *)
(* as it was found: for any number of canaries, watcher scripts, commands  *)
(* and faults.                                                             *)
(***************************************************************************)
EXTENDS WinSetup, TLAPS

\* A recorded change that differs, before and after, in Honeypath's ACE at most, unless
\* an administrator changed the SACL between the calls that recorded it.
Honest == {r \in Change : r.on \in raced \/ r.original \ {"ours"} = r.after \ {"ours"}}

Job == [todo : SUBSET Canaries, skipped : BOOLEAN, staged : Seq(Honest), saved : Nat,
        now : Seq(Honest), step : {"get", "set", "verify"}, policy : Policy,
        watcher : BOOLEAN, body : Bodies \cup {"absent"},
        previous : Script, at : Nat \ {0}]

\* Where no row of this command has been written.
Unsaved == {"capture", "enable", "verify", "readable", "apply", "sacls", "retiresacl"}

\* Where a script reads and sets a SACL, and which one is there meanwhile.
CallStages == {"apply", "rollback", "undo", "sacls"}
Held ==
    sacl[Now.on] = IF pc = "apply" THEN IF job.step = "set" THEN Now.original ELSE Now.after
                   ELSE IF job.step = "set" THEN Now.after ELSE Now.original

\* The change of the script under way is honest, and unless an administrator comes in
\* between, each call of it finds what the one before it left.
Underway ==
    /\ IF Calls THEN pc \in CallStages /\ Now \in Honest /\ job.now = <<Now>> ELSE job.now = <<>>
    /\ Calls /\ Now.on \notin raced => Held
    /\ Calls /\ pc = "sacls" => job.at <= Len(saclRows) /\ Now = saclRows[job.at]

\* The inductive invariant: every change that a rollback or a restore can reach is
\* honest, and the ones they are about to use exist.
RowsHonest ==
    /\ sacl \in [Canaries -> Sacl] /\ policy \in Policy /\ script \in Script
    /\ saclRows \in Seq(Honest) /\ job \in Job
    /\ job.saved <= Len(saclRows)
    /\ pc \in Unsaved => job.saved = 0
    /\ pc = "save" => job.saved < Len(job.staged)
    /\ pc = "retiresacl" => job.at <= Len(saclRows)
    /\ Underway

\* What AdminKept says of a step.
Kept == \A c \in Canaries \ raced : sacl'[c] \ {"ours"} = sacl[c] \ {"ours"}
-----------------------------------------------------------------------------
(* What the other invariants of the runs rest on. *)

\* Stages of setup before the first SACL is touched, and after every row is written;
\* stages of --restore.
Begun == {"capture", "enable", "verify", "readable"}
Written == {"offer", "recordaccess", "script", "register", "recordtask", "unregister", "unwrite"}
Restoring == {"sacls", "retiresacl", "policies", "disable", "checkpolicy", "retirepolicy",
              "tasks", "unlink", "retiretask"}

Staged(c) == {i \in DOMAIN Applied : Applied[i].on = c}
Clean(r) == r.after = {"ours"} /\ r.original \in {{}, {"ours"}}

\* What is known of a canary whose SACL only this command and its predecessors changed:
\* an ACE that is there was put there by a change that found none, and that change is
\* applied by this command or has a row that no rollback of this command will drop.
Sound(c) ==
    /\ sacl[c] \in {{}, {"ours"}}
    /\ \A i \in RowsOf(c) : Clean(saclRows[i])
    /\ \A i \in Staged(c) :
          Clean(Applied[i]) /\ sacl[c] = {"ours"} /\ Applied[i].original = before[c]
    /\ sacl[c] = {"ours"} =>
          \/ \E i \in RowsOf(c) : i > job.saved /\ saclRows[i].original = {}
          \/ \E i \in Staged(c) : Applied[i].original = {}
    /\ pc = "retiresacl" /\ saclRows[job.at].on = c => sacl[c] = saclRows[job.at].original
    /\ pc \in Begun \cup {"apply", "rollback", "undo"} /\ Staged(c) = {} => sacl[c] = before[c]
    /\ pc \in Written \cup {"save"} => Staged(c) # {}
    /\ pc = "idle" /\ outcome = "configured" => sacl[c] = {"ours"}
    /\ pc = "idle" /\ outcome = "refused" => sacl[c] = before[c]
    /\ Calls /\ Now.on = c => Clean(Now)
    /\ pc = "apply" /\ job.step = "set" /\ Now.on = c => Now.original = before[c]

\* The changes of the job: one for each canary, and a row for those saved, newest first.
Tidy ==
    /\ \A i, j \in DOMAIN Applied : Applied[i].on = Applied[j].on => i = j
    /\ \A i \in DOMAIN Applied : Applied[i].on \notin job.todo
    /\ \A i \in DOMAIN Applied : i <= job.saved =>
          job.saved + 1 - i \in DOMAIN saclRows /\ saclRows[job.saved + 1 - i] = Applied[i]
    /\ pc \in Begun \cup Restoring \cup {"idle"} => Applied = <<>> /\ job.saved = 0
    /\ pc \in {"apply", "rollback"} => job.saved = 0
    /\ pc \in Begun => job.todo = Canaries /\ ~job.skipped
    /\ pc = "apply" /\ ~job.skipped =>
          \A c \in Canaries : c \in job.todo \/ Staged(c) # {} \/ (job.step = "set" /\ c = Now.on)
    /\ pc = "apply" /\ job.step = "set" => Now.on \notin job.todo /\ Staged(Now.on) = {}
    /\ pc \in Written => job.saved = Len(Applied)

Traced ==
    /\ found.sacl = [c \in Canaries |-> {}] /\ raced \subseteq disturbed
    /\ Tidy
    /\ \A c \in Canaries \ disturbed : Sound(c)

\* Where the script on disk is not settled.
Unsettled == {"register", "recordtask", "unregister", "unwrite"}

\* The watcher script has a row, or this command will write one or take it back.
Scripted ==
    /\ taskRows \in Seq(Bodies)
    /\ script \in Bodies =>
          \/ taskRows # <<>> \/ "script" \in disturbed
          \/ pc \in Unsettled /\ script = job.body
    /\ pc \in Unsettled => job.body \in Bodies /\ (job.previous \in Bodies => taskRows # <<>>)
    /\ pc = "retiretask" => script \notin Bodies
    /\ pc \in {"unlink", "retiretask"} => job.at <= Len(taskRows)

\* Nothing failed and nobody interfered.
Calm == trouble = 0 /\ acts = 0

Restored == pc = "idle" /\ outcome = "restored"

\* The change of the row that a restore is at has been undone.
Undone == pc = "retiresacl" \/ (pc = "sacls" /\ job.step = "verify")

\* Then each SACL row but the oldest of a canary restores the ACE.
SaclsCalm ==
    /\ disturbed = {}
    /\ pc \notin {"rollback", "undo", "unregister", "unwrite"} /\ ~job.skipped
    /\ \A i, j \in DOMAIN saclRows :
          i < j /\ saclRows[i].on = saclRows[j].on => saclRows[i].original = {"ours"}
    /\ \A i \in DOMAIN saclRows : (i = 1 /\ Undone) \/ sacl[saclRows[i].on] = {"ours"}
    /\ \A i \in DOMAIN Applied, j \in DOMAIN saclRows :
          i > job.saved /\ saclRows[j].on = Applied[i].on => Applied[i].original = {"ours"}
    /\ pc \in Restoring \ {"tasks"} => job.at = 1
    /\ Restored \/ pc \in Restoring \ {"sacls", "retiresacl"} => saclRows = <<>>

\* Each policy row but the oldest found the policy enabled.
PolicyCalm ==
    /\ found.policy \in SUBSET {"success"} /\ policyRows \in Seq([included : BOOLEAN, after : Policy])
    /\ \A i \in DOMAIN policyRows :
          /\ policyRows[i].after = {"success"}
          /\ policyRows[i].included <=> i < Len(policyRows) \/ "success" \in found.policy
    /\ policyRows # <<>> /\ pc \notin {"checkpolicy", "retirepolicy"} => policy = {"success"}
    /\ policyRows = <<>> /\ pc # "verify" => policy = found.policy
    /\ pc \in {"enable", "verify"} =>
          job.policy = IF policyRows = <<>> THEN found.policy ELSE {"success"}
    /\ pc = "verify" => policy = {"success"}
    /\ pc \in {"disable", "checkpolicy", "retirepolicy"} => policyRows # <<>>
    /\ pc \in {"disable", "checkpolicy"} => ~policyRows[1].included
    /\ pc = "checkpolicy" => policy = {}
    /\ pc = "retirepolicy" => policy = IF policyRows[1].included THEN {"success"} ELSE {}
    /\ Restored \/ pc \in {"tasks", "unlink", "retiretask"} => policyRows = <<>>

AsFound == script = found.script /\ task = "absent"
Installed == taskRows # <<>> /\ script = taskRows[1] /\ task = "ours"

\* Script and task are as found, or those of the newest row.
TaskCalm ==
    /\ found.task = "absent" /\ found.script \in {"absent", "user"}
    /\ taskRows # <<>> => found.script = "absent"
    /\ pc \notin {"register", "recordtask", "tasks", "unlink", "retiretask"} => AsFound \/ Installed
    /\ pc \in {"register", "recordtask"} =>
          script = job.body /\ job.body \in Bodies /\ found.script = "absent"
    /\ pc = "recordtask" => task = "ours"
    /\ pc = "tasks" => AsFound \/ (job.at = 1 /\ Installed)
    /\ pc = "unlink" => taskRows # <<>> /\ script = taskRows[1] /\ task = "absent"
    /\ pc = "retiretask" => taskRows # <<>> /\ AsFound
    /\ Restored => AsFound

Undisturbed == Calm => SaclsCalm /\ PolicyCalm /\ TaskCalm
-----------------------------------------------------------------------------
\* The last element of a sequence, and what is left without it.
LEMMA FrontAndLast ==
    ASSUME NEW S, NEW s \in Seq(S), s # <<>>
    PROVE  Last(s) \in S /\ Front(s) \in Seq(S)
BY DEF Last, Front

\* A sequence is one shorter without one of its elements.
LEMMA Removed ==
    ASSUME NEW S, NEW s \in Seq(S), NEW i \in 1 .. Len(s)
    PROVE  RemoveAt(s, i) \in Seq(S) /\ Len(RemoveAt(s, i)) = Len(s) - 1
<1>1. SubSeq(s, 1, i - 1) \in Seq(S) /\ Len(SubSeq(s, 1, i - 1)) = i - 1 OBVIOUS
<1>2. SubSeq(s, i + 1, Len(s)) \in Seq(S) /\ Len(SubSeq(s, i + 1, Len(s))) = Len(s) - i
  OBVIOUS
<1>3. \A a, b \in Seq(S) : a \o b \in Seq(S) /\ Len(a \o b) = Len(a) + Len(b) OBVIOUS
<1>4. RemoveAt(s, i) = SubSeq(s, 1, i - 1) \o SubSeq(s, i + 1, Len(s)) BY DEF RemoveAt
<1>5. RemoveAt(s, i) \in Seq(S) BY <1>1, <1>2, <1>3, <1>4
<1>6. Len(RemoveAt(s, i)) = (i - 1) + (Len(s) - i) BY <1>1, <1>2, <1>3, <1>4
<1> QED BY <1>5, <1>6

\* A sequence is one longer with an element before it.
LEMMA Prepended ==
    ASSUME NEW S, NEW s \in Seq(S), NEW e \in S
    PROVE  <<e>> \o s \in Seq(S) /\ Len(<<e>> \o s) = Len(s) + 1
OBVIOUS

\* Setting one SACL keeps every rule of an administrator that the new one names.
LEMMA SetKeeps ==
    ASSUME sacl \in [Canaries -> Sacl], NEW d \in Canaries, NEW new \in Sacl,
           sacl' = [sacl EXCEPT ![d] = new],
           d \notin raced => sacl[d] \ {"ours"} = new \ {"ours"}
    PROVE  sacl' \in [Canaries -> Sacl] /\ Kept
<1>1. \A c \in Canaries : sacl'[c] = IF c = d THEN new ELSE sacl[c] OBVIOUS
<1>2. Kept BY <1>1 DEF Kept
<1> QED BY <1>2

\* What is known of the change that a script is making.
LEMMA CallFacts ==
    ASSUME RowsHonest, Calls
    PROVE  /\ Now \in Honest /\ Now.on \in Canaries /\ Now.original \in Sacl /\ Now.after \in Sacl
           /\ Now.on \notin raced => Now.original \ {"ours"} = Now.after \ {"ours"} /\ Held
           /\ Now = [on |-> Now.on, original |-> Now.original, after |-> Now.after]
           /\ pc \in CallStages /\ job.now = <<Now>>
<1>1. Now \in Honest /\ pc \in CallStages /\ job.now = <<Now>> /\ (Now.on \notin raced => Held)
  BY DEF RowsHonest, Underway
<1> DEFINE r == Now
<1> HIDE DEF r
<1>2. r \in Honest BY <1>1 DEF r
<1>3. /\ r.on \in Canaries /\ r.original \in Sacl /\ r.after \in Sacl
      /\ r.on \notin raced => r.original \ {"ours"} = r.after \ {"ours"}
      /\ r = [on |-> r.on, original |-> r.original, after |-> r.after]
  BY <1>2 DEF Honest, Change
<1> QED BY <1>1, <1>3 DEF r
-----------------------------------------------------------------------------
\* No command is under way.
LEMMA NoJobYet == NoJob \in Job /\ NoJob.saved = 0 /\ NoJob.now = <<>> /\ NoJob.step = "get"
BY DEF NoJob, Job, Script, Policy

\* The initial state.
LEMMA RowsHonestInit == Init => RowsHonest
BY NoJobYet DEF Init, RowsHonest, Sacl, Policy, Script, Unsaved, Underway, Calls

\* Steps that leave the SACLs and their rows alone, while no script runs, and go
\* somewhere with no claim on the job, or keep what the claim says.
LEMMA Framed ==
    ASSUME RowsHonest, UNCHANGED saclVars, policy' \in Policy, script' \in Script, raced' = raced,
           job' \in Job, job'.saved <= job.saved, pc' \notin {"save", "retiresacl"},
           pc' \in Unsaved => job'.saved = 0,
           \/ ~Calls /\ job'.now = job.now /\ job'.step = job.step
           \/ job'.now = <<>> /\ job'.step = "get"
    PROVE  RowsHonest' /\ Kept /\ ~Calls'
<1>1. job'.saved \in Nat /\ job.saved \in Nat /\ Len(saclRows) \in Nat BY DEF Job, RowsHonest
<1>2. Job' = Job /\ Honest' = Honest BY DEF Job, Honest
<1>3. ~Calls' /\ job'.now = <<>> BY DEF RowsHonest, Underway, Calls
<1>4. Underway' BY <1>3 DEF Underway
<1> QED BY <1>1, <1>2, <1>3, <1>4 DEF RowsHonest, saclVars, Kept

\* Only an administrator's step counts as one, and only one interferes with a script.
LEMMA ActsCounted ==
    ASSUME Setup \/ SetExactSacl \/ Watcher \/ Restore \/ Die
    PROVE  acts' = acts /\ raced' = raced
<1> USE DEF boundVars, Quiet, Trouble, History, End
<1>1. CASE Setup
  BY <1>1 DEF Setup, CapturePolicy, EnablePolicy, RecordPolicy, NotVerified, SecurityLogReadable,
     PolicyFails, RollBack, RollBackVerified, RollBackFails, RolledBack, RecordSacl, RecordSaclFails,
     DropRow, RowsDropped, SkipFsutil, SetFsutil, RecordFsutil, StartSetup, Start, GetAcl, SetAcl,
     GetAclAfter, ApplyFails, NotConverted, Configured, GiveUp
<1>2. CASE Watcher
  BY <1>2 DEF Watcher, ScriptRefused, RegisterTask, RegisterFails, RecordTask, RecordTaskFails,
     Unregister, RollBackScript, RollBackScriptFails, WriteScript
<1>3. CASE Restore
  BY <1>3 DEF Restore, StartRestore, Start, RestoreSacl, RestoredSacl, RestoreSaclFails, RetireSacl,
     SaclsDone, AllDone, RestorePolicy, DisablePolicy, CheckPolicy, RestorePolicyFails, RetirePolicy,
     PoliciesDone, DeleteTask, DeleteTaskFails, UnlinkScript, RetireTask, TasksDone
<1>4. CASE Die \/ SetExactSacl BY <1>4 DEF Die, SetExactSacl
<1> QED BY <1>1, <1>2, <1>3, <1>4

\* Only at these stages does a script run.
LEMMA NotCalling == ASSUME RowsHonest, pc \notin CallStages PROVE ~Calls
BY DEF RowsHonest, Underway

\* setup, where it leaves the SACLs alone.
LEMMA SetupFramed ==
    ASSUME RowsHonest,
           \/ CapturePolicy \/ EnablePolicy \/ RecordPolicy \/ NotVerified
           \/ SecurityLogReadable \/ PolicyFails \/ RolledBack \/ RecordSaclFails
           \/ RowsDropped \/ SkipFsutil \/ SetFsutil \/ RecordFsutil
           \/ \E w \in BOOLEAN : StartSetup(w)
    PROVE  RowsHonest' /\ Kept /\ ~Calls /\ ~Calls' /\ raced' = raced
<1> USE DEF saclVars, policyVars, accessVars, taskVars, winVars, Quiet, History, At, Set, Unsaved
<1>0. job \in Job /\ policy \in Policy /\ script \in Script /\ job.saved \in Nat
  BY DEF RowsHonest, Job
<1>01. raced' = raced BY ActsCounted DEF Setup
<1>02. ~Calls
  <2>1. pc \notin CallStages \/ ~Calls \/ \E w \in BOOLEAN : StartSetup(w)
    BY DEF CapturePolicy, EnablePolicy, RecordPolicy, NotVerified, SecurityLogReadable, PolicyFails,
       RolledBack, RecordSaclFails, RowsDropped, SkipFsutil, SetFsutil, RecordFsutil, Configured,
       CallStages
  <2>2. (\E w \in BOOLEAN : StartSetup(w)) => pc \notin CallStages
    BY DEF StartSetup, Start, CallStages
  <2> QED BY <2>1, <2>2, NotCalling
<1>1. CASE CapturePolicy
  <2>1. job' \in Job /\ job'.saved = job.saved /\ job'.now = job.now /\ job'.step = job.step
    BY <1>0, <1>01, <1>02, <1>1 DEF CapturePolicy, Job
  <2> QED BY <1>0, <1>01, <1>02, <1>1, <2>1, Framed DEF CapturePolicy, RowsHonest
<1>2. CASE EnablePolicy
  <2>1. policy' \in Policy BY <1>0, <1>01, <1>02, <1>2 DEF EnablePolicy, Policy
  <2> QED BY <1>0, <1>01, <1>02, <1>2, <2>1, Framed DEF EnablePolicy, RowsHonest
<1>3. CASE RecordPolicy BY <1>0, <1>01, <1>02, <1>3, Framed DEF RecordPolicy, RowsHonest
<1>4. CASE NotVerified BY <1>0, <1>01, <1>02, <1>4, NoJobYet, Framed DEF NotVerified, GiveUp, End
<1>5. CASE SecurityLogReadable BY <1>0, <1>01, <1>02, <1>5, Framed DEF SecurityLogReadable, RowsHonest
<1>6. CASE PolicyFails
  <2>1. policy' \in Policy BY <1>0, <1>01, <1>02, <1>6 DEF PolicyFails, Policy
  <2> QED BY <1>0, <1>01, <1>02, <1>6, <2>1, NoJobYet, Framed DEF PolicyFails, GiveUp, End
<1>7. CASE RolledBack BY <1>0, <1>01, <1>02, <1>7, NoJobYet, Framed DEF RolledBack, GiveUp, End
<1>8. CASE RecordSaclFails BY <1>0, <1>01, <1>02, <1>8, Framed DEF RecordSaclFails
<1>9. CASE RowsDropped BY <1>0, <1>01, <1>02, <1>9, NoJobYet, Framed DEF RowsDropped, GiveUp, End
<1>10. CASE SkipFsutil BY <1>0, <1>01, <1>02, <1>10, NoJobYet, Framed DEF SkipFsutil, Configured, End
<1>11. CASE SetFsutil BY <1>0, <1>01, <1>02, <1>11, Framed DEF SetFsutil
<1>12. CASE RecordFsutil BY <1>0, <1>01, <1>02, <1>12, NoJobYet, Framed DEF RecordFsutil, Configured, End
<1>13. CASE \E w \in BOOLEAN : StartSetup(w)
  <2>1. PICK w \in BOOLEAN : StartSetup(w) BY <1>13
  <2>2. job' \in Job /\ job'.saved = 0 /\ job'.now = <<>> /\ job'.step = "get"
    BY <2>1, NoJobYet DEF StartSetup, Start, Job
  <2>3. pc' = "capture" /\ UNCHANGED <<saclVars, policy, script>> BY <2>1 DEF StartSetup, Start
  <2> QED BY <1>0, <1>01, <1>02, <2>2, <2>3, Framed
<1> QED BY <1>1, <1>2, <1>3, <1>4, <1>5, <1>6, <1>7, <1>8, <1>9, <1>10, <1>11, <1>12, <1>13

\* The scheduled watcher's script and task.
LEMMA WatcherFramed ==
    ASSUME RowsHonest, Watcher
    PROVE  RowsHonest' /\ Kept /\ ~Calls /\ ~Calls' /\ raced' = raced
<1> USE DEF saclVars, policyVars, accessVars, taskVars, winVars, Quiet, History, At, Unsaved
<1>0. job \in Job /\ policy \in Policy /\ script \in Script /\ job.saved \in Nat
      /\ job.previous \in Script
  BY DEF RowsHonest, Job
<1>01. raced' = raced BY ActsCounted
<1>02. ~Calls
  <2>1. pc \notin CallStages
    BY DEF Watcher, ScriptRefused, RegisterTask, RegisterFails, RecordTask, RecordTaskFails,
       Unregister, RollBackScript, RollBackScriptFails, WriteScript, CallStages
  <2> QED BY <2>1, NotCalling
<1>1. CASE ScriptRefused BY <1>0, <1>01, <1>02, <1>1, NoJobYet, Framed DEF ScriptRefused, End
<1>2. CASE RegisterTask BY <1>0, <1>01, <1>02, <1>2, Framed DEF RegisterTask
<1>3. CASE RegisterFails BY <1>0, <1>01, <1>02, <1>3, Framed DEF RegisterFails
<1>4. CASE RecordTask BY <1>0, <1>01, <1>02, <1>4, NoJobYet, Framed DEF RecordTask, End
<1>5. CASE RecordTaskFails BY <1>0, <1>01, <1>02, <1>5, Framed DEF RecordTaskFails
<1>6. CASE Unregister BY <1>0, <1>01, <1>02, <1>6, Framed DEF Unregister
<1>7. CASE RollBackScript BY <1>0, <1>01, <1>02, <1>7, NoJobYet, Framed DEF RollBackScript, End
<1>8. CASE RollBackScriptFails BY <1>0, <1>01, <1>02, <1>8, NoJobYet, Framed DEF RollBackScriptFails, End
<1>9. CASE \E body \in Bodies : WriteScript(body)
  <2>1. PICK body \in Bodies : WriteScript(body) BY <1>9
  <2>2. script' \in Script BY <2>1 DEF WriteScript, Script
  <2>3. job' \in Job /\ job'.saved = job.saved /\ job'.now = job.now /\ job'.step = job.step
    BY <1>0, <2>1 DEF WriteScript, Job
  <2> QED BY <1>0, <1>01, <1>02, <2>1, <2>2, <2>3, Framed DEF WriteScript
<1> QED BY <1>1, <1>2, <1>3, <1>4, <1>5, <1>6, <1>7, <1>8, <1>9 DEF Watcher

\* --restore, where it leaves the SACLs and their rows alone.
LEMMA RestoreFramed ==
    ASSUME RowsHonest,
           \/ StartRestore \/ SaclsDone \/ RestorePolicy \/ DisablePolicy \/ CheckPolicy
           \/ RestorePolicyFails \/ RetirePolicy \/ PoliciesDone \/ DeleteTask
           \/ DeleteTaskFails \/ UnlinkScript \/ RetireTask \/ TasksDone
    PROVE  RowsHonest' /\ Kept /\ ~Calls /\ ~Calls' /\ raced' = raced
<1> USE DEF saclVars, policyVars, accessVars, taskVars, winVars, Quiet, History, At, Row, Unsaved
<1>0. job \in Job /\ policy \in Policy /\ script \in Script /\ job.saved \in Nat
  BY DEF RowsHonest, Job
<1>01. raced' = raced BY ActsCounted DEF Restore
<1>02. ~Calls
  <2>1. pc \notin CallStages \/ ~Calls
    BY DEF StartRestore, Start, SaclsDone, RestorePolicy, DisablePolicy, CheckPolicy,
       RestorePolicyFails, RetirePolicy, PoliciesDone, AllDone, DeleteTask, DeleteTaskFails,
       UnlinkScript, RetireTask, TasksDone, CallStages
  <2> QED BY <2>1, NotCalling
<1>1. ASSUME NEW n \in Nat \ {0}, job' = [job EXCEPT !.at = n]
      PROVE  job' \in Job /\ job'.saved = job.saved /\ job'.now = job.now /\ job'.step = job.step
  BY <1>0, <1>1 DEF Job
<1>2. job.at + 1 \in Nat \ {0} BY <1>0 DEF Job
<1>3. ASSUME NEW back, Keep(back)
      PROVE  job' \in Job /\ job'.saved = job.saved /\ job'.now = job.now /\ job'.step = job.step
  BY <1>1, <1>2, <1>3 DEF Keep, Set
<1>4. CASE StartRestore BY <1>0, <1>01, <1>02, <1>4, NoJobYet, Framed DEF StartRestore, Start
<1>5. CASE SaclsDone
  <2>0. job' = [job EXCEPT !.at = 1] BY <1>5 DEF SaclsDone, AllDone, Set
  <2>1. job' \in Job /\ job'.saved = job.saved /\ job'.now = job.now /\ job'.step = job.step
    BY <1>1, <2>0
  <2> QED BY <1>0, <1>01, <1>02, <1>5, <2>1, Framed DEF SaclsDone, AllDone
<1>6. CASE RestorePolicy
  <2>1. job' \in Job /\ job'.saved = job.saved /\ job'.now = job.now /\ job'.step = job.step
    BY <1>0, <1>3, <1>6 DEF RestorePolicy
  <2> QED BY <1>0, <1>01, <1>02, <1>6, <2>1, Framed DEF RestorePolicy, Keep
<1>7. CASE DisablePolicy
  <2>1. policy' \in Policy BY <1>0, <1>7 DEF DisablePolicy, Policy
  <2> QED BY <1>0, <1>01, <1>02, <1>7, <2>1, Framed DEF DisablePolicy
<1>8. CASE CheckPolicy
  <2>1. job' \in Job /\ job'.saved = job.saved /\ job'.now = job.now /\ job'.step = job.step
    BY <1>0, <1>3, <1>8 DEF CheckPolicy
  <2> QED BY <1>0, <1>01, <1>02, <1>8, <2>1, Framed DEF CheckPolicy, Keep
<1>9. CASE RestorePolicyFails
  <2>1. job' \in Job /\ job'.saved = job.saved /\ job'.now = job.now /\ job'.step = job.step
    BY <1>0, <1>3, <1>9 DEF RestorePolicyFails
  <2>2. policy' \in Policy BY <1>0, <1>9 DEF RestorePolicyFails, Policy
  <2> QED BY <1>0, <1>01, <1>02, <1>9, <2>1, <2>2, Framed DEF RestorePolicyFails, Keep
<1>10. CASE RetirePolicy BY <1>0, <1>01, <1>02, <1>10, Framed DEF RetirePolicy
<1>11. CASE PoliciesDone
  <2>0. job' = [job EXCEPT !.at = 1] BY <1>11 DEF PoliciesDone, AllDone, Set
  <2>1. job' \in Job /\ job'.saved = job.saved /\ job'.now = job.now /\ job'.step = job.step
    BY <1>1, <2>0
  <2> QED BY <1>0, <1>01, <1>02, <1>11, <2>1, Framed DEF PoliciesDone, AllDone
<1>12. CASE DeleteTask
  <2>1. job' \in Job /\ job'.saved = job.saved /\ job'.now = job.now /\ job'.step = job.step
    BY <1>0, <1>3, <1>12 DEF DeleteTask
  <2> QED BY <1>0, <1>01, <1>02, <1>12, <2>1, Framed DEF DeleteTask, Keep
<1>13. CASE DeleteTaskFails
  <2>1. job' \in Job /\ job'.saved = job.saved /\ job'.now = job.now /\ job'.step = job.step
    BY <1>0, <1>3, <1>13 DEF DeleteTaskFails
  <2> QED BY <1>0, <1>01, <1>02, <1>13, <2>1, Framed DEF DeleteTaskFails, Keep
<1>14. CASE UnlinkScript
  <2>1. job' \in Job /\ job'.saved = job.saved /\ job'.now = job.now /\ job'.step = job.step
    BY <1>0, <1>3, <1>14 DEF UnlinkScript
  <2>2. script' \in Script BY <1>0, <1>14 DEF UnlinkScript, Script
  <2> QED BY <1>0, <1>01, <1>02, <1>14, <2>1, <2>2, Framed DEF UnlinkScript, Keep
<1>15. CASE RetireTask BY <1>0, <1>01, <1>02, <1>15, Framed DEF RetireTask
<1>16. CASE TasksDone BY <1>0, <1>01, <1>02, <1>16, NoJobYet, Framed DEF TasksDone, End
<1> QED BY <1>4, <1>5, <1>6, <1>7, <1>8, <1>9, <1>10, <1>11, <1>12, <1>13, <1>14, <1>15, <1>16

\* Steps that leave the SACLs and their rows alone, around a script.
LEMMA AroundCall ==
    ASSUME RowsHonest, UNCHANGED <<saclVars, policy, script, raced>>, job' \in Job,
           job'.saved = job.saved, Underway', pc' \in Unsaved => pc \in Unsaved \/ job.saved = 0,
           pc' = "save" => job'.saved < Len(job'.staged),
           pc' = "retiresacl" => job'.at <= Len(saclRows)
    PROVE  RowsHonest' /\ Kept
<1>1. Job' = Job /\ Honest' = Honest BY DEF Job, Honest
<1> QED BY <1>1 DEF RowsHonest, saclVars, Kept

\* A script ends, and is followed by none.
LEMMA CallEnded ==
    ASSUME NEW j \in Job, CallsEnd(j)
    PROVE  /\ job' \in Job /\ job'.saved = j.saved /\ job'.at = j.at /\ job'.staged = j.staged
           /\ job'.todo = j.todo /\ job'.skipped = j.skipped
           /\ job'.now = <<>> /\ job'.step = "get" /\ Underway'
<1>1. /\ job' \in Job /\ job'.saved = j.saved /\ job'.at = j.at /\ job'.staged = j.staged
      /\ job'.todo = j.todo /\ job'.skipped = j.skipped
      /\ job'.now = <<>> /\ job'.step = "get"
  <2>1. <<>> \in Seq(Honest) OBVIOUS
  <2> QED BY <2>1 DEF CallsEnd, Job
<1>2. ~Calls' BY <1>1 DEF Calls
<1> QED BY <1>1, <1>2 DEF Underway

\* A script reads the SACL of d and goes on with this change.
LEMMA CallBegun ==
    ASSUME RowsHonest, NEW r \in Honest, NEW j \in Job,
           job' = [j EXCEPT !.now = <<r>>, !.step = "set"],
           UNCHANGED <<pc, saclVars, raced>>, pc \in CallStages,
           sacl[r.on] = IF pc = "apply" THEN r.original ELSE r.after,
           pc = "sacls" => j.at <= Len(saclRows) /\ r = saclRows[j.at]
    PROVE  /\ job' \in Job /\ job'.saved = j.saved /\ job'.at = j.at /\ job'.staged = j.staged
           /\ job'.todo = j.todo /\ job'.skipped = j.skipped
           /\ job'.now = <<r>> /\ job'.step = "set" /\ Underway'
<1>1. /\ job' \in Job /\ job'.saved = j.saved /\ job'.at = j.at /\ job'.staged = j.staged
      /\ job'.todo = j.todo /\ job'.skipped = j.skipped
      /\ job'.now = <<r>> /\ job'.step = "set"
  <2>1. <<r>> \in Seq(Honest) OBVIOUS
  <2> QED BY <2>1 DEF Job
<1>2. Calls' /\ Now' = r /\ Honest' = Honest BY <1>1 DEF Calls, Now, Honest
<1>3. Held' BY <1>1, <1>2 DEF Held, saclVars
<1> QED BY <1>1, <1>2, <1>3 DEF Underway, saclVars

\* A script sets the SACL, as it was going to.
LEMMA CallSets ==
    ASSUME RowsHonest, SetAcl \/ SetExactSacl
    PROVE  /\ RowsHonest' /\ Kept /\ UNCHANGED <<pc, saclRows>>
           /\ job' \in Job /\ job'.saved = job.saved /\ job'.at = job.at /\ job'.staged = job.staged
           /\ job'.todo = job.todo /\ job'.skipped = job.skipped /\ job'.now = job.now
           /\ job'.step = "verify" /\ Now' = Now
           /\ \A c \in Canaries : sacl'[c] = IF c # Now.on THEN sacl[c]
                                             ELSE IF pc = "apply" THEN Now.after ELSE Now.original
<1>1. /\ job.step = "set" /\ job' = [job EXCEPT !.step = "verify"]
      /\ UNCHANGED <<pc, saclRows, policy, script, raced>>
      /\ sacl' = [sacl EXCEPT ![Now.on] = IF pc = "apply" THEN Now.after ELSE Now.original]
  BY DEF SetAcl, SetExactSacl, Set, Quiet, History, policyVars, taskVars
<1>2. Calls BY <1>1 DEF Calls
<1>3. /\ Now \in Honest /\ Now.on \in Canaries /\ Now.original \in Sacl /\ Now.after \in Sacl
      /\ Now.on \notin raced => Now.original \ {"ours"} = Now.after \ {"ours"} /\ Held
      /\ pc \in CallStages /\ job.now = <<Now>>
  BY <1>2, CallFacts
<1> DEFINE r == Now
           new == IF pc = "apply" THEN Now.after ELSE Now.original
<1>4. Held => sacl[r.on] = IF pc = "apply" THEN r.original ELSE r.after BY <1>1 DEF Held
<1>5. r.on \notin raced => sacl[r.on] \ {"ours"} = new \ {"ours"} BY <1>3, <1>4
<1>6. sacl \in [Canaries -> Sacl] /\ new \in Sacl /\ r.on \in Canaries
      /\ sacl' = [sacl EXCEPT ![r.on] = new]
  BY <1>1, <1>3 DEF RowsHonest
<1> HIDE DEF r, new
<1>7. sacl' \in [Canaries -> Sacl] /\ Kept BY ONLY <1>5, <1>6, SetKeeps
<1>8. \A c \in Canaries : sacl'[c] = IF c = r.on THEN new ELSE sacl[c] BY <1>6
<1>9. job \in Job BY DEF RowsHonest
<1>10. /\ job' \in Job /\ job'.saved = job.saved /\ job'.at = job.at /\ job'.staged = job.staged
       /\ job'.todo = job.todo /\ job'.skipped = job.skipped /\ job'.now = job.now
       /\ job'.step = "verify"
  BY <1>1, <1>9 DEF Job
<1>11. Now' = Now /\ Calls' BY <1>10 DEF Now, Calls
<1>12. Job' = Job /\ Honest' = Honest BY <1>1 DEF Job, Honest
<1>13. Held'
  <2>1. sacl'[Now.on] = new /\ Now.on = r.on BY <1>6, <1>8 DEF r
  <2> QED BY <1>1, <1>10, <1>11, <2>1 DEF Held, new
<1>14. Underway'
  <2>1. pc = "sacls" => job.at <= Len(saclRows) /\ Now = saclRows[job.at]
    BY <1>2 DEF RowsHonest, Underway
  <2> QED BY <1>1, <1>3, <1>10, <1>11, <1>12, <1>13, <2>1 DEF Underway
<1>15. RowsHonest' BY <1>1, <1>7, <1>10, <1>12, <1>14 DEF RowsHonest
<1> QED BY <1>1, <1>7, <1>8, <1>10, <1>11, <1>15 DEF r, new

\* Setup, around the script of one canary.
LEMMA ApplySteps ==
    ASSUME RowsHonest,
           \/ GetAclAfter \/ ApplyFails \/ \E c \in Canaries : GetAcl(c) \/ NotConverted(c)
    PROVE  RowsHonest' /\ Kept
<1> USE DEF policyVars, accessVars, taskVars, winVars, saclVars, Quiet, History, At, Unsaved, NextCanary
<1>0. job \in Job /\ job.saved \in Nat /\ job.staged \in Seq(Honest)
  BY DEF RowsHonest, Job
<1>01. raced' = raced BY ActsCounted DEF Setup
<1>1. CASE \E c \in Canaries : GetAcl(c)
  <2>1. PICK c \in Canaries : GetAcl(c) BY <1>1
  <2> DEFINE r == [on |-> c, original |-> sacl[c], after |-> sacl[c] \cup {"ours"}]
             j == [job EXCEPT !.todo = @ \ {c}]
  <2>2. sacl[c] \in Sacl /\ sacl[c] \cup {"ours"} \in Sacl BY DEF RowsHonest, Sacl
  <2>3. r \in Honest BY <2>2 DEF Honest, Change
  <2>4. j \in Job /\ j.saved = job.saved BY <1>0 DEF Job
  <2>5. job' = [j EXCEPT !.now = <<r>>, !.step = "set"] /\ UNCHANGED <<pc, sacl, saclRows, policy, script>>
        /\ pc = "apply"
    BY <1>0, <2>1 DEF GetAcl, Job
  <2>6. r.on = c /\ r.original = sacl[c] OBVIOUS
  <2> HIDE DEF r, j
  <2>7. job' \in Job /\ job'.saved = job.saved /\ Underway'
    BY <1>01, <2>3, <2>4, <2>5, <2>6, CallBegun DEF CallStages
  <2> QED BY <1>01, <2>5, <2>7, AroundCall
<1>2. CASE GetAclAfter
  <2> DEFINE r == [Now EXCEPT !.after = sacl[Now.on]]
             j == [job EXCEPT !.staged = Append(@, r)]
  <2>1. /\ pc = "apply" /\ pc' \in {"apply", "rollback", "save"} /\ CallsEnd(j)
        /\ UNCHANGED <<sacl, saclRows, policy, script>> /\ job.step = "verify"
    BY <1>2 DEF GetAclAfter
  <2>2. Calls BY <2>1 DEF Calls
  <2>3. /\ Now \in Honest /\ Now.on \in Canaries /\ Now.original \in Sacl /\ Now.after \in Sacl
        /\ Now.on \notin raced => Now.original \ {"ours"} = Now.after \ {"ours"} /\ Held
        /\ Now = [on |-> Now.on, original |-> Now.original, after |-> Now.after]
    BY <2>2, CallFacts
  <2>4. Now.on \notin raced => sacl[Now.on] = Now.after BY <2>1, <2>3 DEF Held
  <2>5. r = [on |-> Now.on, original |-> Now.original, after |-> sacl[Now.on]] BY <2>3
  <2>6. sacl[Now.on] \in Sacl BY <2>3 DEF RowsHonest
  <2> HIDE DEF r
  <2>7. r \in Honest BY <2>3, <2>4, <2>5, <2>6 DEF Honest, Change
  <2>8. Append(job.staged, r) \in Seq(Honest) /\ Len(Append(job.staged, r)) = Len(job.staged) + 1
    BY <1>0, <2>7
  <2>9. j \in Job /\ j.saved = job.saved /\ j.staged = Append(job.staged, r)
    BY <1>0, <2>8 DEF Job
  <2> HIDE DEF j
  <2>10. job' \in Job /\ job'.saved = job.saved /\ job'.staged = Append(job.staged, r) /\ Underway'
    BY <2>1, <2>9, CallEnded
  <2>11. job.saved = 0 /\ Len(job.staged) \in Nat BY <1>0, <2>1 DEF RowsHonest
  <2>12. job'.saved < Len(job'.staged) BY <2>8, <2>10, <2>11
  <2> QED BY <1>01, <2>1, <2>10, <2>11, <2>12, AroundCall
<1>3. CASE ApplyFails
  <2>1. pc = "apply" /\ pc' = "rollback" /\ CallsEnd(job) /\ UNCHANGED <<sacl, saclRows, policy, script>>
    BY <1>3 DEF ApplyFails
  <2>2. job' \in Job /\ job'.saved = job.saved /\ Underway' BY <1>0, <2>1, CallEnded
  <2> QED BY <1>01, <2>1, <2>2, AroundCall
<1>4. CASE \E c \in Canaries : NotConverted(c)
  <2>1. PICK c \in Canaries : NotConverted(c) BY <1>4
  <2>2. job.step = "get" /\ job' = [job EXCEPT !.todo = @ \ {c}, !.skipped = TRUE]
    BY <2>1 DEF NotConverted
  <2>3. job' \in Job /\ job'.saved = job.saved /\ job'.now = job.now /\ job'.step = job.step
    BY <1>0, <2>2 DEF Job
  <2>4. pc' \in {"apply", "rollback"} /\ pc = "apply" BY <2>1 DEF NotConverted
  <2>5. UNCHANGED <<saclVars, policy, script>> BY <2>1 DEF NotConverted
  <2>6. ~Calls BY <2>2 DEF Calls
  <2> QED BY <1>0, <1>01, <2>3, <2>4, <2>5, <2>6, Framed DEF RowsHonest
<1> QED BY <1>1, <1>2, <1>3, <1>4

\* Rolling back what was applied.
LEMMA RollBackSteps ==
    ASSUME RowsHonest, RollBack \/ RollBackVerified \/ RollBackFails
    PROVE  RowsHonest' /\ Kept
<1> USE DEF policyVars, accessVars, taskVars, winVars, saclVars, Quiet, History, Unsaved
<1>0. job \in Job /\ job.saved \in Nat /\ job.staged \in Seq(Honest)
  BY DEF RowsHonest, Job
<1>1. /\ raced' = raced /\ UNCHANGED <<pc, sacl, saclRows, policy, script>>
      /\ pc \in {"rollback", "undo"}
  BY ActsCounted DEF Setup, RollBack, RollBackVerified, RollBackFails
<1>2. \/ RollBack /\ AsLeft(Last(job.staged))
      \/ ~Calls /\ job.staged # <<>> /\ job' = [job EXCEPT !.staged = Front(job.staged)]
      \/ CallsEnd(job)
  BY DEF RollBack, RollBackVerified, RollBackFails, Set
<1>3. CASE RollBack /\ AsLeft(Last(job.staged))
  <2> DEFINE r == Last(job.staged)
             j == [job EXCEPT !.staged = Front(job.staged)]
  <2>1. job.staged # <<>> BY <1>3 DEF RollBack
  <2>2. r \in Honest /\ Front(job.staged) \in Seq(Honest) BY <1>0, <2>1, FrontAndLast
  <2>3. j \in Job /\ j.saved = job.saved BY <1>0, <2>2 DEF Job
  <2>4. job' = [j EXCEPT !.now = <<r>>, !.step = "set"] BY <1>0, <1>3 DEF RollBack, Job
  <2>5. sacl[r.on] = r.after BY <1>3 DEF AsLeft
  <2> HIDE DEF r, j
  <2>6. job' \in Job /\ job'.saved = job.saved /\ Underway'
    BY <1>1, <2>2, <2>3, <2>4, <2>5, CallBegun DEF CallStages
  <2> QED BY <1>1, <2>6, AroundCall
<1>4. CASE ~Calls /\ job.staged # <<>> /\ job' = [job EXCEPT !.staged = Front(job.staged)]
  <2>1. Front(job.staged) \in Seq(Honest) BY <1>0, <1>4, FrontAndLast
  <2>2. job' \in Job /\ job'.saved = job.saved /\ job'.now = job.now /\ job'.step = job.step
    BY <1>0, <1>4, <2>1 DEF Job
  <2> QED BY <1>0, <1>1, <1>4, <2>2, Framed DEF RowsHonest
<1>5. CASE CallsEnd(job)
  <2>1. job' \in Job /\ job'.saved = job.saved /\ Underway' BY <1>0, <1>5, CallEnded
  <2> QED BY <1>1, <2>1, AroundCall
<1> QED BY <1>2, <1>3, <1>4, <1>5

\* Writing the rows of a setup, and retiring them again.
LEMMA RowSteps ==
    ASSUME RowsHonest, RecordSacl \/ DropRow
    PROVE  RowsHonest' /\ Kept
<1> USE DEF policyVars, accessVars, taskVars, Quiet, History, Unsaved
<1>0. /\ job \in Job /\ job.saved \in Nat /\ job.staged \in Seq(Honest)
      /\ saclRows \in Seq(Honest) /\ job.saved <= Len(saclRows) /\ Len(saclRows) \in Nat
  BY DEF RowsHonest, Job
<1>01. raced' = raced /\ ~Calls
  <2>1. pc = "save" => ~Calls BY NotCalling DEF CallStages
  <2> QED BY <2>1, ActsCounted DEF Setup, RecordSacl, DropRow, At
<1>02. Job' = Job /\ Honest' = Honest BY <1>01 DEF Job, Honest
<1>03. ASSUME job'.now = job.now, job'.step = job.step PROVE Underway'
  BY <1>01, <1>03 DEF RowsHonest, Underway, Calls
<1>1. UNCHANGED <<sacl, policy, script>> BY DEF RecordSacl, DropRow
<1>2. CASE RecordSacl
  <2> DEFINE n == job.saved + 1
  <2>1. /\ pc = "save" /\ pc' = IF n = Len(job.staged) THEN "offer" ELSE "save"
        /\ saclRows' = <<job.staged[n]>> \o saclRows
        /\ job' = [job EXCEPT !.saved = n]
    BY <1>2 DEF RecordSacl, At, Set
  <2>2. n \in 1 .. Len(job.staged) /\ n \in Nat BY <1>0, <2>1 DEF RowsHonest
  <2> HIDE DEF n
  <2>3. job.staged[n] \in Honest BY <1>0, <2>2
  <2>4. saclRows' \in Seq(Honest) /\ Len(saclRows') = Len(saclRows) + 1
    BY <1>0, <2>1, <2>3, Prepended
  <2>5. /\ job' \in Job /\ job'.saved = n /\ job'.staged = job.staged
        /\ job'.now = job.now /\ job'.step = job.step
    BY <1>0, <2>1, <2>2 DEF Job
  <2>6. job'.saved <= Len(saclRows') BY <1>0, <2>4, <2>5 DEF n
  <2>7. pc' = "save" => job'.saved < Len(job'.staged) BY <1>0, <2>1, <2>2, <2>5
  <2>8. pc' \notin Unsaved BY <2>1
  <2> QED BY <1>1, <1>02, <1>03, <2>1, <2>4, <2>5, <2>6, <2>7, <2>8 DEF RowsHonest, Kept
<1>3. CASE DropRow
  <2>1. /\ pc = "undo" /\ job.saved > 0 /\ pc' = pc
        /\ saclRows' = RemoveAt(saclRows, job.saved) \/ saclRows' = saclRows
        /\ job' = [job EXCEPT !.saved = job.saved - 1]
    BY <1>3 DEF DropRow, Set
  <2>2. job.saved \in 1 .. Len(saclRows) /\ job.saved - 1 \in Nat BY <1>0, <2>1
  <2>3. saclRows' \in Seq(Honest) /\ Len(saclRows') >= Len(saclRows) - 1
    <3>1. CASE saclRows' = RemoveAt(saclRows, job.saved) BY <1>0, <2>2, <3>1, Removed
    <3>2. CASE saclRows' = saclRows BY <1>0, <3>2
    <3> QED BY <2>1, <3>1, <3>2
  <2>4. /\ job' \in Job /\ job'.saved = job.saved - 1
        /\ job'.now = job.now /\ job'.step = job.step
    BY <1>0, <2>1, <2>2 DEF Job
  <2>5. Len(saclRows') \in Nat BY <2>3
  <2>6. job'.saved <= Len(saclRows') BY <1>0, <2>3, <2>4, <2>5
  <2> QED BY <1>1, <1>02, <1>03, <2>1, <2>3, <2>4, <2>6 DEF RowsHonest, Kept
<1> QED BY <1>2, <1>3

\* Restoring a SACL, and retiring its row.
LEMMA RestoreSteps ==
    ASSUME RowsHonest, RestoreSacl \/ RestoredSacl \/ RestoreSaclFails \/ RetireSacl
    PROVE  RowsHonest' /\ Kept
<1> USE DEF policyVars, accessVars, taskVars, winVars, saclVars, Quiet, History, At, Row
<1>0. /\ job \in Job /\ job.saved \in Nat /\ job.at \in Nat \ {0}
      /\ saclRows \in Seq(Honest) /\ Len(saclRows) \in Nat
  BY DEF RowsHonest, Job
<1>1. /\ pc \in {"sacls", "retiresacl"} /\ job.saved = 0 /\ UNCHANGED <<policy, script, sacl>>
      /\ raced' = raced
  BY ActsCounted
     DEF Restore, RestoreSacl, RestoredSacl, RestoreSaclFails, RetireSacl, RowsHonest, Unsaved
<1> DEFINE next == [job EXCEPT !.at = job.at + 1]
<1>2. next \in Job /\ next.saved = 0 /\ job.at + 1 \in Nat \ {0} BY <1>0, <1>1 DEF Job
<1>3. CASE RestoreSacl
  <2> DEFINE r == saclRows[job.at]
  <2>1. /\ pc = "sacls" /\ job.at <= Len(saclRows) /\ UNCHANGED saclRows /\ ~Calls
        /\ \/ AsLeft(r) /\ pc' = "sacls" /\ job' = [job EXCEPT !.now = <<r>>, !.step = "set"]
           \/ pc' = "sacls" /\ job' = next
    BY <1>3 DEF RestoreSacl, Keep, Set
  <2>2. r \in Honest BY <1>0, <2>1
  <2>3. CASE AsLeft(r) /\ job' = [job EXCEPT !.now = <<r>>, !.step = "set"]
    <3>1. sacl[r.on] = r.after /\ r = saclRows[job.at] BY <2>3 DEF AsLeft
    <3> HIDE DEF r
    <3>2. job' \in Job /\ job'.saved = job.saved /\ Underway'
      BY <1>0, <1>1, <2>1, <2>2, <2>3, <3>1, CallBegun DEF CallStages
    <3> QED BY <1>1, <2>1, <3>2, AroundCall
  <2>4. CASE job' = next
    <3>1. job'.now = job.now /\ job'.step = job.step BY <1>0, <2>4 DEF Job
    <3>2. policy' \in Policy /\ script' \in Script BY <1>1 DEF RowsHonest
    <3>3. pc' = "sacls" /\ ~Calls /\ UNCHANGED saclVars BY <1>1, <2>1
    <3>4. job'.saved = 0 /\ job' \in Job /\ job'.saved <= job.saved BY <1>1, <1>2, <2>4
    <3> QED BY ONLY RowsHonest, <1>1, <3>1, <3>2, <3>3, <3>4, Framed
  <2> QED BY <2>1, <2>3, <2>4
<1>4. CASE RestoredSacl \/ RestoreSaclFails
  <2>1. /\ pc = "sacls" /\ UNCHANGED saclRows
        /\ \/ pc' = "retiresacl" /\ CallsEnd(job) /\ RestoredSacl
           \/ pc' = "sacls" /\ CallsEnd(next)
    BY <1>4 DEF RestoredSacl, RestoreSaclFails
  <2>2. RestoredSacl => job.at <= Len(saclRows) BY <2>1 DEF RestoredSacl, RowsHonest, Underway, Calls
  <2> HIDE DEF next
  <2>3. \E j \in Job : CallsEnd(j) /\ j.saved = 0 /\ (pc' = "retiresacl" => j.at <= Len(saclRows))
    BY <1>0, <1>1, <1>2, <2>1, <2>2
  <2>4. job' \in Job /\ job'.saved = 0 /\ Underway' /\ (pc' = "retiresacl" => job'.at <= Len(saclRows))
    BY <2>3, CallEnded
  <2>5. pc' # "save" BY <2>1
  <2> QED BY <1>1, <2>1, <2>4, <2>5, AroundCall DEF Unsaved
<1>5. CASE RetireSacl
  <2>1. pc = "retiresacl" /\ pc' = "sacls" /\ saclRows' = RemoveAt(saclRows, job.at)
        /\ UNCHANGED <<sacl, job>>
    BY <1>5 DEF RetireSacl
  <2>2. job.at \in 1 .. Len(saclRows) BY <1>0, <2>1 DEF RowsHonest
  <2>3. saclRows' \in Seq(Honest) BY <1>0, <2>1, <2>2, Removed
  <2>4. Len(saclRows') \in Nat BY <2>3
  <2>5. ~Calls BY <2>1, NotCalling DEF CallStages
  <2>6. Underway' BY <2>1, <2>5 DEF RowsHonest, Underway, Calls
  <2>7. Job' = Job /\ Honest' = Honest BY <1>1 DEF Job, Honest
  <2> QED BY <1>0, <1>1, <2>1, <2>3, <2>4, <2>6, <2>7 DEF RowsHonest, Kept
<1> QED BY <1>3, <1>4, <1>5

\* What an administrator or the user does to Windows.
LEMMA AdminSteps == ASSUME RowsHonest, Admin PROVE RowsHonest' /\ acts' = acts + 1
<1> USE DEF saclVars, policyVars, accessVars, taskVars
<1>1. UNCHANGED <<pc, job, saclRows>> /\ acts' = acts + 1
  BY DEF Admin, AdminPolicy, UserScript, UserTask, AdminSacl, Act
<1>2. policy' \in Policy /\ script' \in Script
  BY DEF RowsHonest, Admin, AdminPolicy, UserScript, UserTask, AdminSacl, Policy, Script
<1>3. Calls' = Calls /\ Now' = Now BY <1>1 DEF Calls, Now
<1>4. raced \subseteq raced' /\ sacl' \in [Canaries -> Sacl] /\ Underway'
  <2>1. CASE AdminPolicy \/ UserScript \/ UserTask
    <3>1. UNCHANGED <<sacl, raced>> BY <2>1 DEF AdminPolicy, UserScript, UserTask
    <3>2. Honest' = Honest BY <3>1 DEF Honest
    <3> QED BY <1>1, <1>3, <3>1, <3>2 DEF RowsHonest, Underway, Held
  <2>2. CASE \E c \in Canaries, ace \in {"ours", "admin"} : AdminSacl(c, ace)
    <3>1. PICK c \in Canaries, ace \in {"ours", "admin"} : AdminSacl(c, ace) BY <2>2
    <3>2. sacl[c] \ {ace} \in Sacl /\ sacl[c] \cup {ace} \in Sacl BY DEF RowsHonest, Sacl
    <3>3. sacl' \in [Canaries -> Sacl] /\ \A d \in Canaries : d # c => sacl'[d] = sacl[d]
      BY <3>1, <3>2 DEF AdminSacl, RowsHonest
    <3>4. raced \subseteq raced' /\ (Calls /\ Now.on = c => c \in raced') BY <3>1 DEF AdminSacl
    <3>5. Honest \subseteq Honest' BY <3>4 DEF Honest
    <3>6. Calls /\ Now.on \notin raced' => Now.on \notin raced /\ sacl'[Now.on] = sacl[Now.on]
      <4>1. Calls => Now.on \in Canaries BY CallFacts
      <4> QED BY <3>3, <3>4, <4>1
    <3>7. Calls /\ Now.on \notin raced' => Held' BY <1>1, <1>3, <3>6 DEF RowsHonest, Underway, Held
    <3>8. Underway' BY <1>1, <1>3, <3>5, <3>7 DEF RowsHonest, Underway
    <3> QED BY <3>3, <3>4, <3>8
  <2> QED BY <2>1, <2>2 DEF Admin
<1>5. Honest \subseteq Honest' BY <1>4 DEF Honest
<1>6. \A q : q \in Seq(Honest) => q \in Seq(Honest') BY <1>5
<1>7. job \in Job' BY <1>6 DEF RowsHonest, Job
<1> QED BY <1>1, <1>2, <1>4, <1>6, <1>7 DEF RowsHonest

\* The command is killed.
LEMMA DieStep == ASSUME RowsHonest, Die PROVE RowsHonest' /\ Kept
<1>1. job.saved \in Nat /\ policy \in Policy /\ script \in Script BY DEF RowsHonest, Job
<1>2. /\ pc' = "idle" /\ job' = NoJob
      /\ UNCHANGED <<saclVars, policy, script, raced>>
  BY DEF Die, End, winVars, policyVars, taskVars
<1> QED BY <1>1, <1>2, NoJobYet, Framed DEF Unsaved

\* Every step keeps the invariant, and one of Honeypath's keeps the other rules.
LEMMA Stepped ==
    ASSUME RowsHonest, acts \in Nat, [Next]_vars
    PROVE  RowsHonest' /\ acts' \in Nat /\ (acts' = acts => Kept)
<1>1. CASE Setup
  <2>1. RowsHonest' /\ Kept
    BY <1>1, SetupFramed, ApplySteps, CallSets, RollBackSteps, RowSteps DEF Setup
  <2> QED BY <1>1, <2>1, ActsCounted
<1>2. CASE Watcher BY <1>2, WatcherFramed, ActsCounted
<1>3. CASE Restore
  <2>1. RowsHonest' /\ Kept BY <1>3, RestoreFramed, RestoreSteps DEF Restore
  <2> QED BY <1>3, <2>1, ActsCounted
<1>4. CASE Die BY <1>4, DieStep, ActsCounted
<1>5. CASE Admin
  <2>1. RowsHonest' /\ acts' = acts + 1 BY <1>5, AdminSteps
  <2> QED BY <2>1
<1>6. CASE SetExactSacl BY <1>6, CallSets, ActsCounted
<1>7. CASE UNCHANGED vars
  <2>1. Honest' = Honest /\ Job' = Job /\ Calls' = Calls /\ Now' = Now
    BY <1>7 DEF vars, Honest, Job, Calls, Now
  <2>2. Underway'
    BY <1>7, <2>1 DEF vars, winVars, saclVars, RowsHonest, Underway, Held
  <2> QED BY <1>7, <2>1, <2>2
      DEF vars, winVars, saclVars, policyVars, taskVars, boundVars, RowsHonest, Kept
<1> QED BY <1>1, <1>2, <1>3, <1>4, <1>5, <1>6, <1>7 DEF Next
-----------------------------------------------------------------------------
\* Every row in managed_changes, and every change that setup has applied and not yet
\* recorded, differs before and after in Honeypath's ACE at most, except at a canary
\* where an administrator changed the SACL between two calls of one script.
THEOREM SpecRowsHonest == Spec => [](RowsHonest /\ acts \in Nat)
<1>1. Init => RowsHonest /\ acts \in Nat BY RowsHonestInit DEF Init
<1>2. RowsHonest /\ acts \in Nat /\ [Next]_vars => (RowsHonest /\ acts \in Nat)' BY Stepped
<1> QED BY <1>1, <1>2, PTL DEF Spec

\* No script takes away or brings back an administrator's rule, with the same exception.
THEOREM SpecAdminKept == Spec => AdminKept
<1>1. RowsHonest /\ acts \in Nat /\ [Next]_vars
        => [acts' = acts => \A c \in Canaries \ raced : sacl'[c] \ {"ours"} = sacl[c] \ {"ours"}]_vars
  BY Stepped DEF Kept
<1> QED BY <1>1, SpecRowsHonest, PTL DEF Spec, AdminKept
-----------------------------------------------------------------------------
(* Every canary has a row that leads back. *)

\* The elements of a sequence with one more before it, and with one less.
LEMMA PrependedAt ==
    ASSUME NEW S, NEW s \in Seq(S), NEW e \in S
    PROVE  /\ (<<e>> \o s)[1] = e /\ 1 \in DOMAIN (<<e>> \o s)
           /\ \A i \in DOMAIN s : i + 1 \in DOMAIN (<<e>> \o s) /\ (<<e>> \o s)[i + 1] = s[i]
           /\ \A j \in DOMAIN (<<e>> \o s) : j = 1 \/ (j - 1 \in DOMAIN s /\ (<<e>> \o s)[j] = s[j - 1])
OBVIOUS

LEMMA RemovedAt ==
    ASSUME NEW S, NEW s \in Seq(S), NEW k \in 1 .. Len(s)
    PROVE  /\ \A i \in DOMAIN s : i < k => i \in DOMAIN RemoveAt(s, k) /\ RemoveAt(s, k)[i] = s[i]
           /\ \A i \in DOMAIN s :
                 i > k => i - 1 \in DOMAIN RemoveAt(s, k) /\ RemoveAt(s, k)[i - 1] = s[i]
           /\ \A j \in DOMAIN RemoveAt(s, k) :
                 \/ j \in DOMAIN s /\ j < k /\ RemoveAt(s, k)[j] = s[j]
                 \/ j + 1 \in DOMAIN s /\ j >= k /\ RemoveAt(s, k)[j] = s[j + 1]
<1> DEFINE a == SubSeq(s, 1, k - 1)
           b == SubSeq(s, k + 1, Len(s))
<1>1. a \in Seq(S) /\ Len(a) = k - 1 /\ \A i \in 1 .. k - 1 : a[i] = s[i] OBVIOUS
<1>2. b \in Seq(S) /\ Len(b) = Len(s) - k /\ \A i \in 1 .. Len(s) - k : b[i] = s[i + k] OBVIOUS
<1>3. RemoveAt(s, k) = a \o b BY DEF RemoveAt
<1> HIDE DEF a, b
<1>4. /\ DOMAIN (a \o b) = 1 .. Len(s) - 1
      /\ \A i \in 1 .. k - 1 : (a \o b)[i] = a[i]
      /\ \A i \in k .. Len(s) - 1 : (a \o b)[i] = b[i - (k - 1)]
  BY <1>1, <1>2
<1>5. \A i \in 1 .. k - 1 : (a \o b)[i] = s[i] BY <1>1, <1>4
<1>6. ASSUME NEW i \in k .. Len(s) - 1 PROVE (a \o b)[i] = s[i + 1]
  <2>1. i - (k - 1) \in 1 .. Len(s) - k /\ (i - (k - 1)) + k = i + 1 OBVIOUS
  <2> QED BY <1>2, <1>4, <2>1
<1> DEFINE r == RemoveAt(s, k)
<1>7. /\ DOMAIN r = 1 .. Len(s) - 1 /\ DOMAIN s = 1 .. Len(s) /\ Len(s) \in Nat /\ k \in Nat
      /\ \A i \in 1 .. k - 1 : r[i] = s[i]
      /\ \A i \in k .. Len(s) - 1 : r[i] = s[i + 1]
  <2>1. r = a \o b BY <1>3
  <2>2. DOMAIN s = 1 .. Len(s) /\ Len(s) \in Nat /\ k \in Nat OBVIOUS
  <2> HIDE DEF r
  <2> QED BY <1>4, <1>5, <1>6, <2>1, <2>2
<1> HIDE DEF r
<1>8. \A i \in DOMAIN s : i < k => i \in DOMAIN r /\ r[i] = s[i] BY <1>7
<1>9. \A i \in DOMAIN s : i > k => i - 1 \in DOMAIN r /\ r[i - 1] = s[i]
  <2> SUFFICES ASSUME NEW i \in DOMAIN s, i > k PROVE i - 1 \in DOMAIN r /\ r[i - 1] = s[i]
    OBVIOUS
  <2>1. i - 1 \in k .. Len(s) - 1 /\ i - 1 \in 1 .. Len(s) - 1 /\ (i - 1) + 1 = i BY <1>7
  <2> QED BY <1>7, <2>1
<1>10. ASSUME NEW j \in DOMAIN r
       PROVE  \/ j \in DOMAIN s /\ j < k /\ r[j] = s[j]
              \/ j + 1 \in DOMAIN s /\ j >= k /\ r[j] = s[j + 1]
  <2>1. j \in 1 .. Len(s) - 1 BY <1>7
  <2>2. CASE j < k BY <1>7, <2>1, <2>2
  <2>3. CASE j >= k
    <3>1. j \in k .. Len(s) - 1 /\ j + 1 \in 1 .. Len(s) BY <1>7, <2>1, <2>3
    <3> QED BY <1>7, <2>3, <3>1
  <2> QED BY <1>7, <2>1, <2>2, <2>3
<1> QED BY <1>8, <1>9, <1>10 DEF r

\* What RowsHonest says of the sequences and their elements.
LEMMA Elements ==
    ASSUME RowsHonest
    PROVE  /\ saclRows \in Seq(Honest) /\ Len(saclRows) \in Nat /\ DOMAIN saclRows = 1 .. Len(saclRows)
           /\ \A i \in DOMAIN saclRows : saclRows[i] \in Honest /\ saclRows[i].on \in Canaries
           /\ job.staged \in Seq(Honest) /\ Applied \in Seq(Honest) /\ Len(Applied) \in Nat
           /\ DOMAIN Applied = 1 .. Len(Applied)
           /\ \A i \in DOMAIN Applied : Applied[i] \in Honest /\ Applied[i].on \in Canaries
           /\ job.saved \in Nat /\ job.at \in Nat \ {0} /\ job.todo \subseteq Canaries
<1>1. saclRows \in Seq(Honest) /\ job \in Job BY DEF RowsHonest
<1>2. /\ job.staged \in Seq(Honest) /\ job.now \in Seq(Honest)
      /\ job.saved \in Nat /\ job.at \in Nat \ {0} /\ job.todo \subseteq Canaries
  BY <1>1 DEF Job
<1>3. \A i \in DOMAIN saclRows : saclRows[i] \in Honest BY <1>1
<1>4. Applied \in Seq(Honest) BY <1>2 DEF Applied
<1>5. \A i \in DOMAIN Applied : Applied[i] \in Honest BY <1>4
<1>6. \A r \in Honest : r.on \in Canaries BY DEF Honest, Change
<1>7. Len(Applied) \in Nat /\ DOMAIN Applied = 1 .. Len(Applied) BY <1>4
<1> QED BY <1>1, <1>2, <1>3, <1>4, <1>5, <1>6, <1>7

\* Which changes of the command are in Windows, script or not.
LEMMA WhatApplied ==
    ASSUME RowsHonest
    PROVE  /\ ~Calls => Applied = job.staged
           /\ pc = "sacls" => Applied = job.staged
           /\ pc = "apply" /\ job.step = "set" => Applied = job.staged
           /\ pc \in {"rollback", "undo"} /\ job.step = "verify" => Applied = job.staged
           /\ Calls /\ pc # "sacls" /\ job.step = (IF pc = "apply" THEN "verify" ELSE "set")
                => Applied = Append(job.staged, Now)
<1>1. job.staged \in Seq(Honest) BY DEF RowsHonest, Job
<1>2. Calls => job.now = <<Now>> BY DEF RowsHonest, Underway
<1> DEFINE q == job.staged
           r == Now
<1>3. q \in Seq(Honest) BY <1>1
<1> HIDE DEF q, r
<1>4. q \o <<r>> = Append(q, r) BY <1>3
<1>5. Calls => job.staged \o job.now = Append(job.staged, Now) BY <1>2, <1>4 DEF q, r
<1> QED BY <1>5 DEF Applied, Calls

\* A step to a stage of the same kind, or from writing the rows to dropping them.
LEMMA MovedOn ==
    ASSUME Traced, UNCHANGED <<sacl, saclRows, found, before>>, disturbed \subseteq disturbed',
           raced' = raced, ~Calls, ~Calls',
           job'.staged = job.staged, job'.saved = job.saved, job'.todo = job.todo,
           job'.skipped = job.skipped,
           \/ pc \in Begun /\ pc' \in Begun \cup {"apply"}
           \/ pc \in Written /\ pc' \in Written
           \/ pc \in Restoring /\ pc' \in Restoring \ {"retiresacl"}
           \/ pc = "save" /\ pc' = "undo"
    PROVE  Traced'
<1> USE DEF Begun, Written, Restoring
<1>0. Applied' = Applied /\ Applied = job.staged BY DEF Applied, Calls
<1>1. \A c : Staged(c)' = Staged(c) /\ RowsOf(c)' = RowsOf(c) BY <1>0 DEF Staged, RowsOf
<1>2. Tidy'
  <2>1. /\ \A i, j \in DOMAIN Applied' : Applied'[i].on = Applied'[j].on => i = j
        /\ \A i \in DOMAIN Applied' : Applied'[i].on \notin job'.todo
        /\ \A i \in DOMAIN Applied' : i <= job'.saved =>
              /\ job'.saved + 1 - i \in DOMAIN saclRows'
              /\ saclRows'[job'.saved + 1 - i] = Applied'[i]
    BY <1>0 DEF Traced, Tidy
  <2>2. pc' \in Begun \cup Restoring \cup {"idle"} => Applied' = <<>> /\ job'.saved = 0
    BY <1>0 DEF Traced, Tidy
  <2>3. pc' \in {"apply", "rollback"} => job'.saved = 0 BY <1>0 DEF Traced, Tidy
  <2>4. pc' \in Begun => job'.todo = Canaries /\ ~job'.skipped BY DEF Traced, Tidy
  <2>5. pc' = "apply" => \A c \in Canaries : c \in job'.todo BY <1>0 DEF Traced, Tidy
  <2>6. pc' \in Written => job'.saved = Len(Applied') BY <1>0 DEF Traced, Tidy
  <2> QED BY <2>1, <2>2, <2>3, <2>4, <2>5, <2>6 DEF Tidy, Calls
<1>3. ASSUME NEW c \in Canaries \ disturbed' PROVE Sound(c)'
  <2>1. Sound(c) BY DEF Traced
  <2>2. pc = "save" \/ pc \in Written => Staged(c) # {} BY <2>1 DEF Sound
  <2> QED BY <1>0, <1>1, <2>1, <2>2 DEF Sound, Calls
<1> QED BY <1>2, <1>3 DEF Traced

\* The command is over, and what it leaves has its rows.
LEMMA Ended ==
    ASSUME RowsHonest, Traced, UNCHANGED <<sacl, saclRows, found, before, raced>>,
           disturbed \subseteq disturbed', pc' = "idle", job' = NoJob,
           \A i \in DOMAIN Applied : i <= job.saved \/ Applied[i].on \in disturbed',
           outcome' = "refused" => pc \in Begun \cup {"rollback", "undo"} /\ Applied = <<>>,
           outcome' = "configured" => pc \in Written
    PROVE  Traced'
<1> USE DEF Begun, Written, Restoring
<1>1. Applied' = <<>> /\ job'.saved = 0 /\ DOMAIN Applied' = {} /\ ~Calls' /\ job'.step = "get"
  BY DEF NoJob, Applied, Calls
<1>2. Tidy' BY <1>1 DEF Tidy
<1>3. ASSUME NEW c \in Canaries \ disturbed' PROVE Sound(c)'
  <2>1. Sound(c) /\ Tidy BY DEF Traced
  <2>2. Staged(c)' = {} /\ RowsOf(c)' = RowsOf(c) BY <1>1 DEF Staged, RowsOf
  <2>3. ASSUME sacl[c] = {"ours"}
        PROVE  \E i \in RowsOf(c) : i > 0 /\ saclRows[i].original = {}
    <3>1. CASE \E i \in RowsOf(c) : i > job.saved /\ saclRows[i].original = {}
      BY <3>1, Elements DEF RowsOf
    <3>2. CASE \E i \in Staged(c) : Applied[i].original = {}
      <4>1. PICK i \in DOMAIN Applied : Applied[i].on = c /\ Applied[i].original = {}
        BY <3>2 DEF Staged
      <4>2. i <= job.saved BY <4>1
      <4>3. job.saved + 1 - i \in DOMAIN saclRows /\ saclRows[job.saved + 1 - i] = Applied[i]
        BY <2>1, <4>2 DEF Tidy
      <4> HIDE DEF Staged
      <4>4. job.saved + 1 - i > 0 BY <4>2, Elements
      <4> QED BY <4>1, <4>3, <4>4 DEF RowsOf
    <3> QED BY <2>1, <2>3, <3>1, <3>2 DEF Sound
  <2>4. outcome' = "refused" => sacl[c] = before[c]
    <3>1. Applied = <<>> => Staged(c) = {} BY DEF Staged
    <3> QED BY <2>1, <3>1 DEF Sound
  <2>5. outcome' = "configured" => sacl[c] = {"ours"} BY <2>1 DEF Sound
  <2>6. sacl[c] \in {{}, {"ours"}} /\ \A i \in RowsOf(c) : Clean(saclRows[i])
    BY <2>1 DEF Sound
  <2> QED BY <1>1, <2>2, <2>3, <2>4, <2>5, <2>6 DEF Sound, Clean
<1> QED BY <1>2, <1>3 DEF Traced

\* A command starts.
LEMMA Started ==
    ASSUME Traced, pc = "idle", UNCHANGED <<sacl, saclRows, found, disturbed, raced>>, before' = sacl,
           job'.staged = <<>>, job'.step = "get", job'.saved = 0, ~job'.skipped,
           (pc' = "capture" /\ job'.todo = Canaries) \/ pc' = "sacls"
    PROVE  Traced'
<1> USE DEF Begun, Written, Restoring
<1>1. Applied' = <<>> /\ DOMAIN Applied' = {} /\ ~Calls' BY DEF Applied, Calls
<1>2. Tidy' BY <1>1 DEF Tidy
<1>3. ASSUME NEW c \in Canaries \ disturbed' PROVE Sound(c)'
  <2>1. Sound(c) /\ job.saved = 0 /\ Applied = <<>> BY DEF Traced, Tidy
  <2>2. Staged(c)' = {} /\ Staged(c) = {} /\ RowsOf(c)' = RowsOf(c)
    BY <1>1, <2>1 DEF Staged, RowsOf
  <2> QED BY <1>1, <2>1, <2>2 DEF Sound, Clean
<1> QED BY <1>2, <1>3 DEF Traced

\* What an administrator does to a SACL is remembered, and nothing else changes.
LEMMA Interfered ==
    ASSUME Traced, UNCHANGED <<saclRows, found, before, pc, job, outcome>>,
           disturbed \subseteq disturbed', raced' \subseteq disturbed',
           \A c \in Canaries \ disturbed' : sacl'[c] = sacl[c]
    PROVE  Traced'
<1>0. Applied' = Applied /\ Now' = Now /\ Calls' = Calls BY DEF Applied, Now, Calls
<1>1. \A c : Staged(c)' = Staged(c) /\ RowsOf(c)' = RowsOf(c) BY <1>0 DEF Staged, RowsOf
<1>2. Tidy' BY <1>0, <1>1 DEF Traced, Tidy
<1>3. ASSUME NEW c \in Canaries \ disturbed' PROVE Sound(c)'
  <2>1. Sound(c) /\ sacl'[c] = sacl[c] BY DEF Traced
  <2> QED BY <1>0, <1>1, <2>1 DEF Sound, Clean
<1> QED BY <1>2, <1>3 DEF Traced

\* Steps around a script, which leave the SACLs and their rows alone: what is in Windows
\* stays as it is, but for a change on a canary that was interfered with.
LEMMA AroundTraced ==
    ASSUME RowsHonest, Traced, UNCHANGED <<sacl, saclRows, found, before, outcome, raced>>,
           disturbed \subseteq disturbed', job'.saved = job.saved, job'.todo \subseteq job.todo,
           \/ pc \in {"rollback", "undo", "sacls"} /\ pc' = pc
           \/ pc = "apply" /\ pc' \in {"apply", "rollback", "save"}
           \/ pc = "sacls" /\ pc' = "retiresacl",
           DOMAIN Applied' = DOMAIN Applied,
           \A i \in DOMAIN Applied :
              /\ Applied'[i].on = Applied[i].on
              /\ Applied'[i] = Applied[i] \/ (pc = "apply" /\ Applied[i].on \in disturbed'),
           pc = "sacls" => Applied' = Applied,
           pc' = "apply" /\ ~job'.skipped =>
              \A c \in Canaries : c \in job'.todo \/ Staged(c) # {} \/ (job'.step = "set" /\ c = Now'.on),
           pc' = "apply" /\ job'.step = "set" => Now'.on \notin job'.todo /\ Staged(Now'.on) = {},
           pc' = "save" => \A c \in Canaries : Staged(c) # {},
           \A c \in Canaries \ disturbed' :
              /\ pc' = "retiresacl" /\ saclRows[job'.at].on = c => sacl[c] = saclRows[job'.at].original
              /\ Calls' /\ Now'.on = c => Clean(Now')
              /\ pc' = "apply" /\ job'.step = "set" /\ Now'.on = c => Now'.original = before[c]
    PROVE  Traced'
<1> USE DEF Begun, Written, Restoring
<1>1. \A c : RowsOf(c)' = RowsOf(c) BY DEF RowsOf
<1>2. \A c : Staged(c)' = Staged(c) BY DEF Staged
<1>3. Tidy /\ (pc = "apply" => job.saved = 0) BY DEF Traced, Tidy
<1>4. DOMAIN Applied \subseteq Nat \ {0} BY Elements
<1>5. Tidy'
  <2>1. \A i, j \in DOMAIN Applied' : Applied'[i].on = Applied'[j].on => i = j BY <1>3 DEF Tidy
  <2>2. \A i \in DOMAIN Applied' : Applied'[i].on \notin job'.todo BY <1>3 DEF Tidy
  <2>3. \A i \in DOMAIN Applied' : i <= job'.saved =>
          job'.saved + 1 - i \in DOMAIN saclRows' /\ saclRows'[job'.saved + 1 - i] = Applied'[i]
    <3> SUFFICES ASSUME NEW i \in DOMAIN Applied, i <= job.saved
                 PROVE  job.saved + 1 - i \in DOMAIN saclRows /\ saclRows[job.saved + 1 - i] = Applied'[i]
      OBVIOUS
    <3>1. pc # "apply"
      <4>1. ~(i <= 0) BY <1>4
      <4> QED BY <1>3, <4>1
    <3> QED BY <1>3, <3>1 DEF Tidy
  <2>4. pc' \in Restoring => Applied' = <<>> /\ job'.saved = 0 BY <1>3 DEF Tidy
  <2>5. pc' \in {"apply", "rollback"} => job'.saved = 0 BY <1>3 DEF Tidy
  <2>6. pc' = "apply" /\ ~job'.skipped => \A c \in Canaries :
          c \in job'.todo \/ Staged(c)' # {} \/ (job'.step = "set" /\ c = Now'.on)
    BY <1>2
  <2>7. pc' = "apply" /\ job'.step = "set" => Now'.on \notin job'.todo /\ Staged(Now'.on) = {} OBVIOUS
  <2>8. (Staged(Now.on))' = Staged(Now'.on) BY DEF Staged
  <2> QED BY <2>1, <2>2, <2>3, <2>4, <2>5, <2>6, <2>7, <2>8 DEF Tidy
<1>6. ASSUME NEW c \in Canaries \ disturbed' PROVE Sound(c)'
  <2>1. Sound(c) BY DEF Traced
  <2>2. RowsOf(c)' = RowsOf(c) /\ Staged(c)' = Staged(c) BY <1>1, <1>2
  <2>3. \A i \in Staged(c) : Applied'[i] = Applied[i] BY DEF Staged
  <2>4. sacl[c] \in {{}, {"ours"}} /\ \A i \in RowsOf(c) : Clean(saclRows[i]) BY <2>1 DEF Sound
  <2>5. \A i \in Staged(c) :
          Clean(Applied'[i]) /\ sacl[c] = {"ours"} /\ Applied'[i].original = before[c]
    BY <2>1, <2>3 DEF Sound
  <2>6. sacl[c] = {"ours"} => \/ \E i \in RowsOf(c) : i > job.saved /\ saclRows[i].original = {}
                              \/ \E i \in Staged(c) : Applied'[i].original = {}
    BY <2>1, <2>3 DEF Sound
  <2>7. pc' \in {"apply", "rollback", "undo"} /\ Staged(c) = {} => sacl[c] = before[c]
    BY <2>1 DEF Sound
  <2>8. pc' \in {"apply", "rollback", "undo", "save", "sacls", "retiresacl"} OBVIOUS
  <2>9. pc' = "save" => Staged(c) # {} OBVIOUS
  <2>10. /\ pc' = "retiresacl" /\ saclRows[job'.at].on = c => sacl[c] = saclRows[job'.at].original
         /\ Calls' /\ Now'.on = c => Clean(Now')
         /\ pc' = "apply" /\ job'.step = "set" /\ Now'.on = c => Now'.original = before[c]
    OBVIOUS
  <2> QED BY <2>2, <2>4, <2>5, <2>6, <2>7, <2>8, <2>9, <2>10 DEF Sound, Clean
<1>7. raced' \subseteq disturbed' /\ found'.sacl = [c \in Canaries |-> {}] BY DEF Traced
<1> QED BY <1>5, <1>6, <1>7 DEF Traced

\* The script of one canary begins: its SACL is that of the start of the command.
LEMMA GetAclTraced ==
    ASSUME RowsHonest, Traced, NEW d \in Canaries, GetAcl(d)
    PROVE  Traced'
<1> DEFINE r == [on |-> d, original |-> sacl[d], after |-> sacl[d] \cup {"ours"}]
<1>1. /\ pc = "apply" /\ pc' = pc /\ ~Calls /\ d \in job.todo
      /\ job' = [job EXCEPT !.todo = job.todo \ {d}, !.step = "set", !.now = <<r>>]
      /\ UNCHANGED <<sacl, saclRows, found, before, outcome, raced, disturbed>>
  BY DEF GetAcl, Quiet, History, winVars, saclVars
<1>2. r.on = d /\ r.original = sacl[d] /\ r.after = sacl[d] \cup {"ours"} OBVIOUS
<1> HIDE DEF r
<1>3. /\ job'.staged = job.staged /\ job'.saved = job.saved /\ job'.todo = job.todo \ {d}
      /\ job'.skipped = job.skipped /\ job'.step = "set" /\ job'.now = <<r>>
  <2>1. job \in Job BY DEF RowsHonest
  <2> QED BY <1>1, <2>1 DEF Job
<1>4. Now' = r /\ Applied' = job.staged /\ Applied = job.staged
  BY <1>1, <1>3, WhatApplied DEF Now, Applied
<1>5. Tidy BY DEF Traced
<1>6. Staged(d) = {} BY <1>1, <1>5 DEF Tidy, Staged
<1>7. ASSUME ~job'.skipped, NEW c \in Canaries
      PROVE  c \in job'.todo \/ Staged(c) # {} \/ c = Now'.on
  <2>1. c \in job.todo \/ Staged(c) # {}
    <3>1. ~job.skipped BY <1>3, <1>7
    <3>2. job.step # "set" BY <1>1 DEF Calls
    <3> QED BY <1>1, <1>5, <3>1, <3>2 DEF Tidy
  <2> QED BY <1>2, <1>3, <1>4, <2>1
<1>8. ASSUME NEW c \in Canaries \ disturbed', Now'.on = c
      PROVE  Clean(Now') /\ Now'.original = before[c]
  <2>1. c = d /\ Sound(d) BY <1>1, <1>2, <1>4, <1>8 DEF Traced
  <2>2. sacl[d] \in {{}, {"ours"}} /\ sacl[d] = before[d] BY <1>1, <1>6, <2>1 DEF Sound
  <2> QED BY <1>2, <1>4, <2>1, <2>2 DEF Clean
<1>9. Now'.on \notin job'.todo /\ Staged(Now'.on) = {} BY <1>2, <1>3, <1>4, <1>6
<1>10. DOMAIN Applied' = DOMAIN Applied /\ \A i \in DOMAIN Applied : Applied'[i] = Applied[i]
  BY <1>4
<1>11. job'.todo \subseteq job.todo BY <1>3
<1>12. /\ UNCHANGED <<sacl, saclRows, found, before, outcome, raced>> /\ disturbed \subseteq disturbed'
       /\ pc = "apply" /\ pc' = "apply" /\ job'.saved = job.saved
  BY <1>1, <1>3
<1>13. \A i \in DOMAIN Applied :
         /\ Applied'[i].on = Applied[i].on
         /\ Applied'[i] = Applied[i] \/ (pc = "apply" /\ Applied[i].on \in disturbed')
  BY <1>10
<1>14. pc' = "apply" /\ ~job'.skipped => \A c \in Canaries :
         c \in job'.todo \/ Staged(c) # {} \/ (job'.step = "set" /\ c = Now'.on)
  BY <1>3, <1>7
<1>15. \A c \in Canaries \ disturbed' :
         /\ pc' = "retiresacl" /\ saclRows[job'.at].on = c => sacl[c] = saclRows[job'.at].original
         /\ Calls' /\ Now'.on = c => Clean(Now')
         /\ pc' = "apply" /\ job'.step = "set" /\ Now'.on = c => Now'.original = before[c]
  BY <1>8, <1>12
<1>16. pc # "sacls" /\ pc' # "save" BY <1>12
<1> QED BY ONLY RowsHonest, Traced, <1>9, <1>10, <1>11, <1>12, <1>13, <1>14, <1>15, <1>16, AroundTraced

\* It ends, with the change recorded, or without because a call fails or there was no path.
LEMMA GotAclTraced ==
    ASSUME RowsHonest, Traced, GetAclAfter
    PROVE  Traced'
<1> DEFINE r == [Now EXCEPT !.after = sacl[Now.on]]
<1>1. /\ pc = "apply" /\ job.step = "verify"
      /\ pc' = IF job.todo # {} THEN "apply" ELSE IF job.skipped THEN "rollback" ELSE "save"
      /\ job' = [[job EXCEPT !.staged = Append(job.staged, r)] EXCEPT !.now = <<>>, !.step = "get"]
      /\ UNCHANGED <<sacl, saclRows, found, before, outcome, raced, disturbed>>
  BY DEF GetAclAfter, NextCanary, At, CallsEnd, Quiet, History, winVars, saclVars
<1>2. Calls BY <1>1 DEF Calls
<1>3. Now \in Honest /\ Now.on \in Canaries /\ (Now.on \notin raced => Held)
      /\ Now = [on |-> Now.on, original |-> Now.original, after |-> Now.after]
  BY <1>2, CallFacts
<1>4. r = [on |-> Now.on, original |-> Now.original, after |-> sacl[Now.on]] BY <1>3
<1>5. r = Now \/ Now.on \in disturbed
  <2>1. Now.on \in raced => Now.on \in disturbed BY DEF Traced
  <2>2. Held => sacl[Now.on] = Now.after BY <1>1 DEF Held
  <2> QED BY <1>3, <1>4, <2>1, <2>2
<1>6. r.on = Now.on BY <1>4
<1> HIDE DEF r
<1>7. /\ job'.staged = Append(job.staged, r) /\ job'.saved = job.saved /\ job'.todo = job.todo
      /\ job'.skipped = job.skipped /\ job'.step = "get" /\ job'.now = <<>>
  <2>1. job \in Job BY DEF RowsHonest
  <2> QED BY <1>1, <2>1 DEF Job
<1>08. ~Calls' BY <1>7 DEF Calls
<1>09. Applied = Append(job.staged, Now) BY ONLY RowsHonest, <1>1, <1>2, WhatApplied
<1>010. Applied' = Append(job.staged, r)
  <2>1. job'.staged \o job'.now = Append(job.staged, r)
    <3>1. Append(job.staged, r) \in Seq({job.staged[i] : i \in DOMAIN job.staged} \cup {r})
      BY Elements
    <3>2. job'.staged \o <<>> = job'.staged BY <1>7, <3>1
    <3> QED BY <1>7, <3>2
  <2>2. Applied' = job'.staged \/ Applied' = job'.staged \o job'.now BY DEF Applied
  <2> QED BY <1>7, <2>1, <2>2
<1>8. Applied' = Append(job.staged, r) /\ Applied = Append(job.staged, Now) /\ ~Calls'
  BY <1>08, <1>09, <1>010
<1>9. /\ DOMAIN Applied' = DOMAIN Applied
      /\ \A i \in DOMAIN Applied :
            Applied'[i] = Applied[i] \/ (Applied'[i] = r /\ Applied[i] = Now)
  <2> DEFINE q == job.staged
             m == Now
  <2>1. q \in Seq(Honest) BY Elements
  <2>2. Applied' = Append(q, r) /\ Applied = Append(q, m) BY <1>8
  <2> HIDE DEF q, m
  <2>3. /\ DOMAIN Append(q, r) = DOMAIN Append(q, m)
        /\ \A i \in DOMAIN Append(q, m) : Append(q, r)[i] = Append(q, m)[i]
                                          \/ (Append(q, r)[i] = r /\ Append(q, m)[i] = m)
    BY <2>1
  <2> QED BY <2>2, <2>3 DEF m
<1>10. \A i \in DOMAIN Applied :
         /\ Applied'[i].on = Applied[i].on
         /\ Applied'[i] = Applied[i] \/ (pc = "apply" /\ Applied[i].on \in disturbed')
  BY <1>1, <1>5, <1>6, <1>9
<1>11. ASSUME ~job.skipped, NEW c \in Canaries PROVE c \in job.todo \/ Staged(c) # {}
  BY <1>1, <1>11 DEF Traced, Tidy
<1>12. pc' = "save" => \A c \in Canaries : Staged(c) # {} BY <1>1, <1>11
<1>13. pc' = "apply" /\ ~job'.skipped => \A c \in Canaries : c \in job'.todo \/ Staged(c) # {}
  BY <1>7, <1>11
<1>14. /\ UNCHANGED <<sacl, saclRows, found, before, outcome, raced>> /\ disturbed \subseteq disturbed'
       /\ pc = "apply" /\ pc' \in {"apply", "rollback", "save"} /\ job'.saved = job.saved
       /\ job'.todo \subseteq job.todo /\ job'.step # "set"
  BY <1>1, <1>7
<1>15. \A c \in Canaries \ disturbed' :
         /\ pc' = "retiresacl" /\ saclRows[job'.at].on = c => sacl[c] = saclRows[job'.at].original
         /\ Calls' /\ Now'.on = c => Clean(Now')
         /\ pc' = "apply" /\ job'.step = "set" /\ Now'.on = c => Now'.original = before[c]
  BY <1>8, <1>14
<1>16. pc' = "apply" /\ ~job'.skipped => \A c \in Canaries :
         c \in job'.todo \/ Staged(c) # {} \/ (job'.step = "set" /\ c = Now'.on)
  BY <1>13
<1>17. DOMAIN Applied' = DOMAIN Applied BY <1>9
<1>18. pc # "sacls" /\ job'.step # "set" BY <1>14
<1> QED BY ONLY RowsHonest, Traced, <1>10, <1>12, <1>14, <1>15, <1>16, <1>17, <1>18, AroundTraced

\* Set-Acl: the change of the script is in Windows.
LEMMA SetAclTraced ==
    ASSUME RowsHonest, Traced, SetAcl
    PROVE  Traced'
<1> USE DEF Begun, Written, Restoring
<1> DEFINE n == Len(job.staged)
           e == Now
           d == Now.on
<1>1. /\ pc = "apply" /\ pc' = "apply" /\ job.step = "set" /\ Calls
      /\ UNCHANGED <<saclRows, found, before, disturbed, outcome, raced>>
  BY DEF SetAcl, Quiet, History, Calls
<1>2. Tidy /\ job.saved = 0 BY <1>1 DEF Traced, Tidy
<1>01. /\ job'.saved = job.saved /\ job'.staged = job.staged /\ job'.todo = job.todo
       /\ job'.skipped = job.skipped /\ job'.now = job.now /\ job'.step = "verify" /\ Now' = Now
       /\ \A c \in Canaries : sacl'[c] = IF c # d THEN sacl[c] ELSE e.after
  BY <1>1, CallSets
<1>02. d \in Canaries /\ job.now = <<e>> /\ (d \notin raced => Held) BY <1>1, CallFacts
<1>3. /\ e.on = d /\ sacl'[d] = e.after /\ d \in Canaries
      /\ \A c \in Canaries : c # d => sacl'[c] = sacl[c]
  BY <1>01, <1>02
<1>03. Applied = job.staged BY <1>1, WhatApplied
<1>04. Applied' = Append(Applied, e)
  <2>1. job.staged \o job.now = Append(job.staged, e)
    <3> DEFINE q == job.staged
               r == Now
    <3>1. q \in Seq(Honest) BY Elements
    <3> HIDE DEF q, r
    <3>2. q \o <<r>> = Append(q, r) BY <3>1
    <3> QED BY <1>02, <3>2 DEF q, r
  <2> QED BY <1>1, <1>01, <1>03, <2>1 DEF Applied
<1> HIDE DEF e, d
<1>4. job'.todo = job.todo /\ job'.saved = 0 /\ job'.skipped = job.skipped
  BY <1>01, <1>2
<1>5. /\ n \in Nat /\ n + 1 > 0 /\ DOMAIN Applied = 1 .. n /\ DOMAIN Applied' = 1 .. n + 1
      /\ Applied'[n + 1] = e /\ \A i \in 1 .. n : Applied'[i] = Applied[i]
  <2>1. Applied \in Seq(Honest) BY Elements
  <2> QED BY <1>03, <1>04, <2>1
<1> HIDE DEF n
<1>6. \A i \in DOMAIN Applied' : i = n + 1 \/ (i \in DOMAIN Applied /\ i # n + 1)
  BY <1>5
<1>7. \A i \in DOMAIN Applied : i \in DOMAIN Applied' /\ Applied'[i] = Applied[i]
  BY <1>5
<1>8. n + 1 \in DOMAIN Applied' BY <1>5
<1>09. Staged(d) = {} /\ d \notin job.todo BY <1>1, <1>2 DEF Tidy, d
<1>9. \A i \in DOMAIN Applied : Applied[i].on # d BY <1>09 DEF Staged
<1>010. d' = d BY <1>01 DEF d
<1>10. Staged(d) = {} /\ {i \in DOMAIN Applied' : Applied'[i].on = d} = {n + 1}
  BY <1>09, <1>3, <1>5, <1>6, <1>7, <1>8, <1>9
<1>11. \A c \in Canaries : c # d => Staged(c)' = Staged(c)
  BY <1>3, <1>5, <1>6, <1>7 DEF Staged
<1>12. \A c : RowsOf(c)' = RowsOf(c) BY <1>1 DEF RowsOf
<1>13. Tidy'
  <2>1. \A i, j \in DOMAIN Applied' : Applied'[i].on = Applied'[j].on => i = j
    <3> SUFFICES ASSUME NEW i \in DOMAIN Applied', NEW j \in DOMAIN Applied',
                        Applied'[i].on = Applied'[j].on
                 PROVE  i = j
      OBVIOUS
    <3>1. i = n + 1 => Applied'[i].on = d BY <1>3, <1>5
    <3>2. j = n + 1 => Applied'[j].on = d BY <1>3, <1>5
    <3>3. i # n + 1 => i \in DOMAIN Applied /\ Applied'[i] = Applied[i] BY <1>6, <1>7
    <3>4. j # n + 1 => j \in DOMAIN Applied /\ Applied'[j] = Applied[j] BY <1>6, <1>7
    <3>5. CASE i = n + 1 BY <1>9, <3>1, <3>4, <3>5
    <3>6. CASE j = n + 1 BY <1>9, <3>2, <3>3, <3>6
    <3>7. CASE i # n + 1 /\ j # n + 1 BY <1>2, <3>3, <3>4, <3>7 DEF Tidy
    <3> QED BY <3>5, <3>6, <3>7
  <2>2. \A i \in DOMAIN Applied' : Applied'[i].on \notin job'.todo
    BY <1>09, <1>2, <1>3, <1>4, <1>5, <1>6, <1>7 DEF Tidy
  <2>3. \A i \in DOMAIN Applied' : ~(i <= job'.saved) BY <1>4, <1>5
  <2>4. ~job'.skipped => \A c \in Canaries : c \in job'.todo \/ Staged(c)' # {}
    <3> SUFFICES ASSUME ~job'.skipped, NEW c \in Canaries PROVE c \in job'.todo \/ Staged(c)' # {}
      OBVIOUS
    <3>1. CASE c = d BY <1>8, <1>3, <1>5, <3>1 DEF Staged
    <3>2. CASE c # d
      <4>1. c \in job.todo \/ Staged(c) # {} BY <1>1, <1>2, <1>4, <3>2 DEF Tidy, d
      <4> QED BY <1>4, <1>11, <3>2, <4>1
    <3> QED BY <3>1, <3>2
  <2> QED BY <1>01, <1>1, <1>4, <2>1, <2>2, <2>3, <2>4 DEF Tidy
<1>14. ASSUME NEW c \in Canaries \ disturbed', c # d PROVE Sound(c)'
  <2>1. Sound(c) /\ sacl'[c] = sacl[c] BY <1>1, <1>3, <1>14 DEF Traced
  <2>2. Staged(c)' = Staged(c) /\ RowsOf(c)' = RowsOf(c) BY <1>11, <1>12, <1>14
  <2>3. \A i \in Staged(c) : Applied'[i] = Applied[i] BY <1>7 DEF Staged
  <2>4. Now'.on # c BY <1>01, <1>14 DEF d
  <2>6. sacl'[c] \in {{}, {"ours"}} /\ \A i \in RowsOf(c) : Clean(saclRows[i])
    BY <2>1 DEF Sound
  <2>7. \A i \in Staged(c) : Clean(Applied'[i]) /\ sacl'[c] = {"ours"}
                             /\ Applied'[i].original = before[c]
    BY <2>1, <2>3 DEF Sound
  <2>8. sacl'[c] = {"ours"} => \/ \E i \in RowsOf(c) : i > 0 /\ saclRows[i].original = {}
                              \/ \E i \in Staged(c) : Applied'[i].original = {}
    BY <1>2, <2>1, <2>3 DEF Sound
  <2>9. Staged(c) = {} => sacl'[c] = before[c] BY <1>1, <2>1 DEF Sound
  <2> QED BY <1>1, <1>4, <2>2, <2>4, <2>6, <2>7, <2>8, <2>9 DEF Sound, Clean
<1>15. ASSUME d \notin disturbed' PROVE Sound(d)'
  <2>1. Sound(d) BY <1>1, <1>3, <1>15 DEF Traced
  <2>2. Clean(e) /\ e.original = before[d] BY <1>1, <2>1 DEF Sound, d, e
  <2>3. sacl[d] = e.original
    <3>1. Held BY <1>02, <1>1, <1>15 DEF Traced
    <3> QED BY <1>1, <3>1 DEF Held, d, e
  <2>4. sacl'[d] = {"ours"} /\ sacl[d] \in {{}, {"ours"}} BY <1>3, <2>1, <2>2 DEF Clean, Sound
  <2>5. Staged(d)' = {n + 1} /\ RowsOf(d)' = RowsOf(d) BY <1>010, <1>10, <1>12 DEF Staged
  <2>6. sacl[d] = {"ours"} => \E i \in RowsOf(d) : i > 0 /\ saclRows[i].original = {}
    BY <1>2, <1>10, <2>1 DEF Sound
  <2>7. \/ \E i \in RowsOf(d) : i > 0 /\ saclRows[i].original = {}
        \/ Applied'[n + 1].original = {}
    BY <1>5, <2>3, <2>4, <2>6
  <2>8. \A i \in RowsOf(d) : Clean(saclRows[i]) BY <2>1 DEF Sound
  <2>9. Now' = e /\ d' = d BY <1>01, <1>010 DEF e
  <2> QED BY <1>1, <1>01, <1>4, <1>5, <2>2, <2>4, <2>5, <2>7, <2>8, <2>9 DEF Sound, Clean
<1>16. raced' \subseteq disturbed' /\ found'.sacl = [c \in Canaries |-> {}] BY <1>1 DEF Traced
<1>17. \A c \in Canaries \ disturbed' : Sound(c)'
  BY <1>14, <1>15, <1>010 DEF Sound, Staged, RowsOf
<1> QED BY <1>13, <1>16, <1>17 DEF Traced

\* The last change of the command is no longer in Windows, because a rollback took it
\* away, or what became of it is not known.
LEMMA Shrunk ==
    ASSUME RowsHonest, Traced, UNCHANGED <<saclRows, found, before, outcome, raced>>,
           disturbed \subseteq disturbed', job'.saved = job.saved, job'.todo = job.todo,
           \/ pc \in {"rollback", "undo"} /\ pc' = pc
           \/ pc = "apply" /\ pc' = "rollback",
           NEW q \in Seq(Honest), NEW s \in Honest, Applied = Append(q, s), Applied' = q,
           \A c \in Canaries : c # s.on => sacl'[c] = sacl[c],
           s.on \in disturbed' \/ sacl'[s.on] = s.original,
           \A c \in Canaries \ disturbed' : Calls' /\ Now'.on = c => Clean(Now')
    PROVE  Traced'
<1> USE DEF Begun, Written, Restoring
<1> DEFINE n == Len(Applied)
<1>4. /\ n \in Nat \ {0} /\ DOMAIN Applied = 1 .. n /\ n \in DOMAIN Applied /\ Applied[n] = s
      /\ DOMAIN Applied' = 1 .. n - 1 /\ \A i \in 1 .. n - 1 : Applied'[i] = Applied[i]
  <2>1. Append(q, s) \in Seq(Honest) /\ Len(Append(q, s)) = Len(q) + 1 /\ Len(q) \in Nat
        /\ Append(q, s)[Len(q) + 1] = s /\ \A i \in 1 .. Len(q) : Append(q, s)[i] = q[i]
    OBVIOUS
  <2>2. DOMAIN q = 1 .. Len(q) /\ DOMAIN Append(q, s) = 1 .. Len(q) + 1 BY <2>1
  <2>3. n = Len(q) + 1 BY <2>1
  <2> HIDE DEF n
  <2> QED BY <2>1, <2>2, <2>3
<1>04. s.on \in Canaries BY DEF Honest, Change
<1> HIDE DEF n
<1>7. \A i \in DOMAIN Applied' :
        i \in DOMAIN Applied /\ i # n /\ Applied'[i] = Applied[i]
  BY <1>4
<1>8. \A i \in DOMAIN Applied : i # n => i \in DOMAIN Applied' BY <1>4
<1>9. Tidy BY DEF Traced
<1>10. \A i \in DOMAIN Applied : Applied[i].on = s.on => i = n BY <1>4, <1>9 DEF Tidy
<1>11. Staged(s.on) = {n} /\ {i \in DOMAIN Applied' : Applied'[i].on = s.on} = {}
  BY <1>4, <1>7, <1>10 DEF Staged
<1>12. ASSUME NEW c, c # s.on PROVE Staged(c)' = Staged(c)
  BY <1>4, <1>7, <1>8, <1>12 DEF Staged
<1>13. \A c : RowsOf(c)' = RowsOf(c) BY DEF RowsOf
<1>15. Tidy'
  <2>1. \A i, j \in DOMAIN Applied' : Applied'[i].on = Applied'[j].on => i = j
    BY <1>7, <1>9 DEF Tidy
  <2>2. \A i \in DOMAIN Applied' : Applied'[i].on \notin job'.todo
    BY <1>7, <1>9 DEF Tidy
  <2>3. \A i \in DOMAIN Applied' : i <= job'.saved =>
          job'.saved + 1 - i \in DOMAIN saclRows' /\ saclRows'[job'.saved + 1 - i] = Applied'[i]
    BY <1>7, <1>9 DEF Tidy
  <2>4. pc \in {"apply", "rollback"} => job.saved = 0 BY <1>9 DEF Tidy
  <2>5. pc' \in {"rollback", "undo"} /\ (pc' = "rollback" => pc \in {"apply", "rollback"}) OBVIOUS
  <2> QED BY <2>1, <2>2, <2>3, <2>4, <2>5 DEF Tidy
<1>16. ASSUME NEW c \in Canaries \ disturbed', c # s.on PROVE Sound(c)'
  <2>1. Sound(c) /\ sacl'[c] = sacl[c] BY <1>16 DEF Traced
  <2>2. Staged(c)' = Staged(c) /\ RowsOf(c)' = RowsOf(c) BY <1>12, <1>13, <1>16
  <2>3. \A i \in Staged(c) : Applied'[i] = Applied[i]
    <3>1. \A i \in Staged(c) : i \in DOMAIN Applied' BY <1>10, <1>4, <1>8, <1>16 DEF Staged
    <3> QED BY <1>7, <3>1
  <2>4. sacl'[c] \in {{}, {"ours"}} /\ \A i \in RowsOf(c) : Clean(saclRows[i])
    BY <2>1 DEF Sound
  <2>5. \A i \in Staged(c) :
          Clean(Applied'[i]) /\ sacl'[c] = {"ours"} /\ Applied'[i].original = before[c]
    BY <2>1, <2>3 DEF Sound
  <2>6. sacl'[c] = {"ours"} => \/ \E i \in RowsOf(c) : i > job.saved /\ saclRows[i].original = {}
                               \/ \E i \in Staged(c) : Applied'[i].original = {}
    BY <2>1, <2>3 DEF Sound
  <2>7. Staged(c) = {} => sacl'[c] = before[c] BY <2>1 DEF Sound
  <2>8. pc' \in {"rollback", "undo"} /\ (Calls' /\ Now'.on = c => Clean(Now')) OBVIOUS
  <2> QED BY <2>2, <2>4, <2>5, <2>6, <2>7, <2>8 DEF Sound, Clean
<1>17. ASSUME NEW c \in Canaries \ disturbed', c = s.on PROVE Sound(c)'
  <2>1. Sound(c) BY <1>17 DEF Traced
  <2>2. Staged(c) = {n} /\ Staged(c)' = {} /\ RowsOf(c)' = RowsOf(c)
    BY <1>11, <1>13, <1>17 DEF Staged
  <2>3. Clean(s) /\ s.original = before[c] BY <1>4, <2>1, <2>2 DEF Sound
  <2>4. sacl'[c] = s.original BY <1>17
  <2>5. sacl[c] = {"ours"} BY <1>4, <2>1, <2>2 DEF Sound
  <2>6. ASSUME s.original = {"ours"}
        PROVE  \E i \in RowsOf(c) : i > job.saved /\ saclRows[i].original = {}
    <3>1. {"ours"} # {} OBVIOUS
    <3>2. \A i \in Staged(c) : Applied[i].original # {} BY <1>4, <2>2, <2>6, <3>1
    <3> QED BY <2>1, <2>5, <3>2 DEF Sound
  <2>7. \A i \in RowsOf(c) : Clean(saclRows[i]) BY <2>1 DEF Sound
  <2>8. s.original \in {{}, {"ours"}} BY <2>3 DEF Clean
  <2>9. pc' \in {"rollback", "undo"} /\ (Calls' /\ Now'.on = c => Clean(Now')) OBVIOUS
  <2> QED BY <2>2, <2>3, <2>4, <2>6, <2>7, <2>8, <2>9 DEF Sound, Clean
<1>18. raced' \subseteq disturbed' /\ found'.sacl = [c \in Canaries |-> {}] BY DEF Traced
<1> QED BY <1>15, <1>16, <1>17, <1>18 DEF Traced

\* A canary that is not staged, because a call fails or there is no path for it.
LEMMA NotAppliedTraced ==
    ASSUME RowsHonest, Traced, ApplyFails \/ \E d \in Canaries : NotConverted(d)
    PROVE  Traced'
<1>0. job \in Job BY DEF RowsHonest
<1>1. /\ pc = "apply" /\ pc' \in {"apply", "rollback"}
      /\ UNCHANGED <<sacl, saclRows, found, before, outcome, raced>> /\ disturbed \subseteq disturbed'
      /\ pc' = "apply" => job'.skipped
      /\ job'.staged = job.staged /\ job'.saved = job.saved /\ job'.todo \subseteq job.todo
      /\ job'.step = "get"
  <2>1. CASE ApplyFails
    <3>1. job'.staged = job.staged /\ job'.saved = job.saved /\ job'.todo = job.todo /\ job'.step = "get"
      BY <1>0, <2>1, CallEnded DEF ApplyFails
    <3> QED BY <2>1, <3>1 DEF ApplyFails, At, winVars, saclVars
  <2>2. CASE \E d \in Canaries : NotConverted(d)
    <3>1. PICK d \in Canaries : NotConverted(d) BY <2>2
    <3>2. /\ job'.staged = job.staged /\ job'.saved = job.saved /\ job'.todo \subseteq job.todo
          /\ job'.step = "get" /\ job'.skipped
      BY <1>0, <3>1 DEF NotConverted, Job
    <3> QED BY <3>1, <3>2 DEF NotConverted, NextCanary, At, History, winVars, saclVars
  <2> QED BY <2>1, <2>2
<1>2. ~Calls' /\ Applied' = job.staged BY <1>1 DEF Calls, Applied
<1>3. CASE job.step # "verify"
  <2>1. Applied = job.staged BY <1>1, <1>3 DEF Applied
  <2>2. DOMAIN Applied' = DOMAIN Applied /\ Applied' = Applied BY <1>2, <2>1
  <2>3. \A i \in DOMAIN Applied :
          /\ Applied'[i].on = Applied[i].on
          /\ Applied'[i] = Applied[i] \/ (pc = "apply" /\ Applied[i].on \in disturbed')
    BY <2>2
  <2>4. pc # "sacls" /\ pc' \notin {"save", "retiresacl"} /\ job'.step # "set" BY <1>1
  <2> QED BY ONLY RowsHonest, Traced, <1>1, <1>2, <2>2, <2>3, <2>4, AroundTraced
<1>4. CASE job.step = "verify"
  <2>1. ApplyFails /\ Calls BY <1>4 DEF NotConverted, ApplyFails, Calls
  <2>2. Now.on \in disturbed' /\ pc' = "rollback" /\ job'.todo = job.todo
    BY <1>0, <1>4, <2>1, CallEnded DEF ApplyFails, At
  <2>3. Now \in Honest /\ job.staged \in Seq(Honest) /\ Applied = Append(job.staged, Now)
    BY <1>1, <1>4, <2>1, CallFacts, Elements, WhatApplied
  <2> DEFINE s == Now
  <2> HIDE DEF s
  <2>4. s \in Honest /\ Applied = Append(job.staged, s) /\ s.on \in disturbed' BY <2>2, <2>3 DEF s
  <2> QED BY <1>1, <1>2, <2>2, <2>3, <2>4, Shrunk
<1> QED BY <1>3, <1>4

\* A script of a rollback begins, does what it is to, or fails.
LEMMA RollBackTraced ==
    ASSUME RowsHonest, Traced,
           RollBack \/ RollBackVerified \/ RollBackFails \/ (SetExactSacl /\ pc # "sacls")
    PROVE  Traced'
<1>0. job \in Job /\ job.staged \in Seq(Honest) BY Elements DEF RowsHonest
<1> DEFINE q == Front(job.staged)
           s == Last(job.staged)
<1>1. ASSUME job.staged # <<>>
      PROVE  q \in Seq(Honest) /\ s \in Honest /\ job.staged = Append(q, s)
  <2>1. q \in Seq(Honest) /\ s \in Honest BY <1>0, <1>1, FrontAndLast
  <2>2. job.staged = Append(q, s) BY <1>0, <1>1 DEF Front, Last
  <2> QED BY <2>1, <2>2
<1>2. CASE RollBack
  <2>1. /\ pc \in {"rollback", "undo"} /\ pc' = pc /\ ~Calls /\ job.staged # <<>>
        /\ UNCHANGED <<sacl, saclRows, found, before, outcome, raced, disturbed>>
        /\ IF sacl[s.on] = s.after THEN job' = [job EXCEPT !.staged = q, !.now = <<s>>, !.step = "set"]
           ELSE job' = [job EXCEPT !.staged = q]
    BY <1>2 DEF RollBack, AsLeft, Set, Quiet, History, winVars, saclVars
  <2>2. q \in Seq(Honest) /\ s \in Honest /\ job.staged = Append(q, s) BY <1>1, <2>1
  <2>3. Applied = Append(q, s) BY <2>1, <2>2, WhatApplied
  <2> HIDE DEF q, s
  <2>4. CASE sacl[s.on] = s.after
    <3>1. /\ job'.staged = q /\ job'.now = <<s>> /\ job'.step = "set"
          /\ job'.saved = job.saved /\ job'.todo = job.todo
      BY <1>0, <2>1, <2>2, <2>4 DEF Job
    <3>2. Now' = s BY <3>1 DEF Now
    <3>3. Applied' = Applied
      <4>1. Applied' = q \o <<s>> BY <2>1, <3>1 DEF Applied
      <4>2. q \o <<s>> = Append(q, s) BY <2>2
      <4> QED BY <2>3, <4>1, <4>2
    <3>4. ASSUME NEW c \in Canaries \ disturbed', Now'.on = c PROVE Clean(Now')
      <4>1. Sound(c) BY <2>1, <3>4 DEF Traced
      <4>2. Len(q) + 1 \in DOMAIN Applied /\ Applied[Len(q) + 1] = s BY <2>2, <2>3
      <4>3. Len(q) + 1 \in Staged(c) BY <3>2, <3>4, <4>2 DEF Staged
      <4> QED BY <3>2, <4>1, <4>2, <4>3 DEF Sound
    <3>5. \A i \in DOMAIN Applied :
            /\ Applied'[i].on = Applied[i].on
            /\ Applied'[i] = Applied[i] \/ (pc = "apply" /\ Applied[i].on \in disturbed')
      BY <3>3
    <3>6. DOMAIN Applied' = DOMAIN Applied /\ disturbed \subseteq disturbed'
          /\ job'.todo \subseteq job.todo
          /\ pc' \notin {"apply", "save", "retiresacl", "sacls"} /\ pc' = pc
      BY <2>1, <3>1, <3>3
    <3> QED BY ONLY RowsHonest, Traced, <2>1, <3>1, <3>3, <3>4, <3>5, <3>6, AroundTraced
  <2>5. CASE sacl[s.on] # s.after
    <3>1. job'.staged = q /\ job'.step = job.step /\ job'.saved = job.saved /\ job'.todo = job.todo
      BY <1>0, <2>1, <2>2, <2>5 DEF Job
    <3>2. ~Calls' /\ Applied' = q BY <2>1, <3>1 DEF Calls, Applied
    <3>3. s.on \in disturbed
      <4> SUFFICES ASSUME s.on \notin disturbed PROVE FALSE OBVIOUS
      <4>1. Sound(s.on) BY <2>2 DEF Traced, Honest, Change
      <4>2. Len(q) + 1 \in DOMAIN Applied /\ Applied[Len(q) + 1] = s BY <2>2, <2>3
      <4>3. Len(q) + 1 \in Staged(s.on) BY <4>2 DEF Staged
      <4>4. Clean(s) /\ sacl[s.on] = {"ours"} BY <4>1, <4>2, <4>3 DEF Sound
      <4> QED BY <2>5, <4>4 DEF Clean
    <3> QED BY <2>1, <2>2, <2>3, <3>1, <3>2, <3>3, Shrunk
  <2> QED BY <2>4, <2>5
<1>3. CASE RollBackVerified
  <2>1. /\ pc \in {"rollback", "undo"} /\ pc' = pc /\ job.step = "verify"
        /\ UNCHANGED <<sacl, saclRows, found, before, outcome, raced, disturbed>>
    BY <1>3 DEF RollBackVerified, Quiet, History, winVars, saclVars
  <2>2. /\ job'.staged = job.staged /\ job'.saved = job.saved /\ job'.todo = job.todo
        /\ job'.step = "get"
    BY <1>0, <1>3, CallEnded DEF RollBackVerified
  <2>3. ~Calls' /\ Applied' = job.staged BY <2>2 DEF Calls, Applied
  <2>4. Applied' = Applied BY <2>1, <2>3, WhatApplied
  <2>5. \A i \in DOMAIN Applied :
          /\ Applied'[i].on = Applied[i].on
          /\ Applied'[i] = Applied[i] \/ (pc = "apply" /\ Applied[i].on \in disturbed')
    BY <2>4
  <2>6. DOMAIN Applied' = DOMAIN Applied /\ disturbed \subseteq disturbed'
        /\ job'.todo \subseteq job.todo
        /\ pc' \notin {"apply", "save", "retiresacl", "sacls"} /\ pc' = pc
    BY <2>1, <2>2, <2>4
  <2> QED BY ONLY RowsHonest, Traced, <2>1, <2>2, <2>3, <2>4, <2>5, <2>6, AroundTraced
<1>4. CASE RollBackFails
  <2>1. /\ pc \in {"rollback", "undo"} /\ pc' = pc
        /\ UNCHANGED <<sacl, saclRows, found, before, outcome, raced>> /\ disturbed \subseteq disturbed'
        /\ \/ ~Calls /\ job.staged # <<>> /\ job' = [job EXCEPT !.staged = q] /\ s.on \in disturbed'
           \/ job.step = "set" /\ CallsEnd(job) /\ Now.on \in disturbed'
    BY <1>4 DEF RollBackFails, Set, winVars, saclVars
  <2>2. CASE ~Calls
    <3>1. job.staged # <<>> /\ job' = [job EXCEPT !.staged = q] /\ s.on \in disturbed'
      BY <2>1, <2>2 DEF Calls
    <3>2. q \in Seq(Honest) /\ s \in Honest /\ job.staged = Append(q, s) BY <1>1, <3>1
    <3>3. Applied = Append(q, s) BY <2>2, <3>2, WhatApplied
    <3> HIDE DEF q, s
    <3>4. job'.staged = q /\ job'.step = job.step /\ job'.saved = job.saved /\ job'.todo = job.todo
      BY <1>0, <3>1, <3>2 DEF Job
    <3>5. ~Calls' /\ Applied' = q BY <2>2, <3>4 DEF Calls, Applied
    <3> QED BY <2>1, <3>1, <3>2, <3>3, <3>4, <3>5, Shrunk
  <2>3. CASE Calls
    <3>1. job.step = "set" /\ CallsEnd(job) /\ Now.on \in disturbed' BY <2>1, <2>3
    <3>2. Now \in Honest /\ Applied = Append(job.staged, Now)
      BY <2>1, <2>3, <3>1, CallFacts, WhatApplied
    <3>3. /\ job'.staged = job.staged /\ job'.saved = job.saved /\ job'.todo = job.todo
          /\ job'.step = "get"
      BY <1>0, <3>1, CallEnded
    <3>4. ~Calls' /\ Applied' = job.staged BY <3>3 DEF Calls, Applied
    <3> DEFINE r == Now
    <3>5. r \in Honest /\ Applied = Append(job.staged, r) /\ r.on \in disturbed' BY <3>1, <3>2
    <3> HIDE DEF r
    <3> QED BY <1>0, <2>1, <3>3, <3>4, <3>5, Shrunk
  <2> QED BY <2>2, <2>3
<1>5. CASE SetExactSacl /\ pc # "sacls"
  <2>1. /\ pc \in {"rollback", "undo"} /\ pc' = pc /\ job.step = "set" /\ Calls
        /\ UNCHANGED <<saclRows, found, before, outcome, raced, disturbed>>
    BY <1>5 DEF SetExactSacl, Quiet, History, Calls
  <2>2. /\ job'.staged = job.staged /\ job'.saved = job.saved /\ job'.todo = job.todo
        /\ job'.step = "verify" /\ Now' = Now
        /\ \A c \in Canaries : sacl'[c] = IF c # Now.on THEN sacl[c] ELSE Now.original
    BY <1>5, <2>1, CallSets
  <2>3. Now \in Honest /\ Now.on \in Canaries /\ Applied = Append(job.staged, Now)
    BY <2>1, CallFacts, WhatApplied
  <2>4. Applied' = job.staged BY <2>1, <2>2 DEF Applied
  <2>5. ASSUME NEW c \in Canaries \ disturbed', Now'.on = c PROVE Clean(Now')
    <3>1. Sound(c) BY <2>1, <2>5 DEF Traced
    <3> QED BY <2>1, <2>2, <2>5, <3>1 DEF Sound
  <2> DEFINE r == Now
  <2>6. /\ r \in Honest /\ Applied = Append(job.staged, r) /\ sacl'[r.on] = r.original
        /\ \A c \in Canaries : c # r.on => sacl'[c] = sacl[c]
    BY <2>2, <2>3
  <2> HIDE DEF r
  <2> QED BY <1>0, <2>1, <2>2, <2>4, <2>5, <2>6, Shrunk
<1> QED BY <1>2, <1>3, <1>4, <1>5

\* The next row of this setup is written.
LEMMA RecordTraced ==
    ASSUME RowsHonest, Traced, RecordSacl
    PROVE  Traced'
<1> USE DEF Begun, Written, Restoring
<1> DEFINE n == job.saved + 1
<1>01. /\ pc = "save" /\ pc' = IF n = Len(job.staged) THEN "offer" ELSE "save"
       /\ saclRows' = <<job.staged[n]>> \o saclRows /\ job' = [job EXCEPT !.saved = n]
       /\ UNCHANGED <<sacl, found, before, disturbed, outcome, raced>>
  BY DEF RecordSacl, At, Set, Quiet, History
<1>02. ~Calls /\ Applied = job.staged BY <1>01, NotCalling, WhatApplied DEF CallStages
<1>1. /\ pc = "save" /\ pc' = IF n = Len(Applied) THEN "offer" ELSE "save"
      /\ saclRows' = <<Applied[n]>> \o saclRows /\ job' = [job EXCEPT !.saved = n]
      /\ UNCHANGED <<sacl, found, before, disturbed, outcome, raced>>
  BY <1>01, <1>02
<1>2. n \in DOMAIN Applied /\ n \in Nat /\ n = job.saved + 1 /\ job.saved \in Nat
  BY <1>1, <1>02, Elements DEF RowsHonest
<1> HIDE DEF n
<1>03. /\ job'.saved = n /\ job'.staged = job.staged /\ job'.todo = job.todo
       /\ job'.step = job.step
  <2>1. job \in Job BY DEF RowsHonest
  <2> QED BY <1>1, <2>1 DEF Job
<1>3. job'.saved = n /\ Applied' = Applied /\ job'.todo = job.todo /\ ~Calls'
  BY <1>02, <1>03 DEF Applied, Calls
<1> DEFINE e == Applied[n]
<1>4. e \in Honest /\ saclRows \in Seq(Honest) BY <1>2, Elements
<1>5. saclRows' = <<e>> \o saclRows BY <1>1
<1> HIDE DEF e
<1>6. /\ saclRows'[1] = e /\ 1 \in DOMAIN saclRows'
      /\ \A i \in DOMAIN saclRows : i + 1 \in DOMAIN saclRows' /\ saclRows'[i + 1] = saclRows[i]
      /\ \A j \in DOMAIN saclRows' : j = 1 \/ (j - 1 \in DOMAIN saclRows /\ saclRows'[j] = saclRows[j - 1])
  BY <1>4, <1>5, PrependedAt
<1>7. DOMAIN saclRows \subseteq Nat /\ DOMAIN Applied \subseteq Nat BY Elements
<1>8. Tidy BY DEF Traced
<1>9. Tidy'
  <2>1. ASSUME NEW i \in DOMAIN Applied', i <= job'.saved
        PROVE  job'.saved + 1 - i \in DOMAIN saclRows' /\ saclRows'[job'.saved + 1 - i] = Applied'[i]
    <3>1. i \in DOMAIN Applied /\ i \in Nat /\ i <= n BY <1>3, <1>7, <2>1
    <3>2. CASE i = n
      <4>1. n + 1 - i = 1 BY <1>2, <3>2
      <4> QED BY <1>3, <1>6, <3>2, <4>1 DEF e
    <3>3. CASE i # n
      <4>1. i <= job.saved /\ n + 1 - i = (job.saved + 1 - i) + 1 BY <1>2, <3>1, <3>3
      <4>2. job.saved + 1 - i \in DOMAIN saclRows /\ saclRows[job.saved + 1 - i] = Applied[i]
        BY <1>8, <3>1, <4>1 DEF Tidy
      <4> QED BY <1>3, <1>6, <4>1, <4>2
    <3> QED BY <3>2, <3>3
  <2>2. pc' = "offer" => job'.saved = Len(Applied') BY <1>1, <1>3
  <2>3. pc' \in {"save", "offer"} BY <1>1
  <2>4. /\ \A i, j \in DOMAIN Applied' : Applied'[i].on = Applied'[j].on => i = j
        /\ \A i \in DOMAIN Applied' : Applied'[i].on \notin job'.todo
    BY <1>3, <1>8 DEF Tidy
  <2> QED BY <1>3, <2>1, <2>2, <2>3, <2>4 DEF Tidy, Calls
<1>10. ASSUME NEW c \in Canaries \ disturbed' PROVE Sound(c)'
  <2>1. Sound(c) /\ sacl'[c] = sacl[c] BY <1>1 DEF Traced
  <2>2. Staged(c)' = Staged(c) BY <1>3 DEF Staged
  <2>3. ASSUME NEW j \in RowsOf(c)' PROVE Clean(saclRows'[j])
    <3>1. j \in DOMAIN saclRows' /\ saclRows'[j].on = c BY DEF RowsOf
    <3>2. CASE j = 1
      <4>1. n \in Staged(c) BY <1>2, <1>6, <3>1, <3>2 DEF Staged, e
      <4> QED BY <1>6, <2>1, <3>2, <4>1 DEF Sound, e
    <3>3. CASE j # 1
      <4>1. j - 1 \in RowsOf(c) /\ saclRows'[j] = saclRows[j - 1] BY <1>6, <3>1, <3>3 DEF RowsOf
      <4> QED BY <2>1, <4>1 DEF Sound
    <3> QED BY <3>2, <3>3
  <2>4. ASSUME NEW i \in RowsOf(c), i > job.saved, saclRows[i].original = {}
        PROVE  \E j \in RowsOf(c)' : j > job'.saved /\ saclRows'[j].original = {}
    <3>1. i \in DOMAIN saclRows /\ i \in Nat /\ saclRows[i].on = c BY <1>7 DEF RowsOf
    <3>2. i + 1 \in RowsOf(c)' /\ saclRows'[i + 1] = saclRows[i] BY <1>6, <3>1 DEF RowsOf
    <3>3. i + 1 > job'.saved BY <1>2, <1>3, <2>4, <3>1
    <3> QED BY <2>4, <3>2, <3>3
  <2>5. sacl'[c] = {"ours"} =>
          \/ \E j \in RowsOf(c)' : j > job'.saved /\ saclRows'[j].original = {}
          \/ \E i \in Staged(c)' : Applied'[i].original = {}
    BY <1>3, <2>1, <2>2, <2>4 DEF Sound
  <2>6. \A i \in Staged(c)' : Clean(Applied'[i]) /\ sacl'[c] = {"ours"}
                              /\ Applied'[i].original = before'[c]
    BY <1>1, <1>3, <2>1, <2>2 DEF Sound
  <2>7. sacl'[c] \in {{}, {"ours"}} /\ Staged(c)' # {} BY <1>1, <2>1, <2>2 DEF Sound
  <2>8. pc' \in {"save", "offer"} BY <1>1
  <2> QED BY <1>3, <2>3, <2>5, <2>6, <2>7, <2>8 DEF Sound, Clean
<1> QED BY <1>1, <1>9, <1>10 DEF Traced

\* A row of this setup is retired again, or left.
LEMMA DropTraced ==
    ASSUME RowsHonest, Traced, DropRow
    PROVE  Traced'
<1> USE DEF Begun, Written, Restoring
<1> DEFINE k == job.saved
<1>1. /\ pc = "undo" /\ pc' = pc /\ job.staged = <<>> /\ ~Calls /\ k > 0
      /\ saclRows' = RemoveAt(saclRows, k) \/ saclRows' = saclRows
      /\ job' = [job EXCEPT !.saved = k - 1]
      /\ UNCHANGED <<sacl, found, before, disturbed, outcome, raced>>
  BY DEF DropRow, Set, History
<1>2. k \in 1 .. Len(saclRows) /\ k \in Nat /\ saclRows \in Seq(Honest) /\ DOMAIN saclRows \subseteq Nat
  BY <1>1, Elements DEF RowsHonest
<1>03. job'.saved = k - 1 /\ job'.staged = <<>> /\ job'.todo = job.todo /\ job'.step = job.step
  <2>1. job \in Job BY DEF RowsHonest
  <2> QED BY <1>1, <2>1 DEF Job
<1>02. Applied = <<>> BY <1>1, WhatApplied
<1>3. job'.saved = k - 1 /\ Applied' = <<>> /\ job'.todo = job.todo /\ ~Calls'
  BY <1>1, <1>03 DEF Applied, Calls
<1>4. \A i \in DOMAIN saclRows : i > k => \E j \in DOMAIN saclRows' : j > k - 1 /\ saclRows'[j] = saclRows[i]
  <2> SUFFICES ASSUME NEW i \in DOMAIN saclRows, i > k
               PROVE  \E j \in DOMAIN saclRows' : j > k - 1 /\ saclRows'[j] = saclRows[i]
    OBVIOUS
  <2> HIDE DEF k
  <2>1. i - 1 > k - 1 /\ i > k - 1 BY <1>2
  <2>2. CASE saclRows' = RemoveAt(saclRows, k) BY <1>2, <2>1, <2>2, RemovedAt
  <2>3. CASE saclRows' = saclRows BY <2>1, <2>3
  <2> QED BY <1>1, <2>2, <2>3
<1>5. \A j \in DOMAIN saclRows' : \E i \in DOMAIN saclRows : saclRows'[j] = saclRows[i]
  <2> HIDE DEF k
  <2>1. CASE saclRows' = RemoveAt(saclRows, k) BY <1>2, <2>1, RemovedAt
  <2>2. CASE saclRows' = saclRows BY <2>2
  <2> QED BY <1>1, <2>1, <2>2
<1>6. DOMAIN Applied' = {} /\ DOMAIN Applied = {} BY <1>02, <1>3
<1>7. Tidy' BY <1>1, <1>3, <1>6 DEF Tidy, Calls
<1>8. ASSUME NEW c \in Canaries \ disturbed' PROVE Sound(c)'
  <2>1. Sound(c) /\ sacl'[c] = sacl[c] BY <1>1 DEF Traced
  <2>2. Staged(c)' = {} /\ Staged(c) = {} BY <1>6 DEF Staged
  <2>3. \A j \in RowsOf(c)' : Clean(saclRows'[j])
    <3>1. \A i \in DOMAIN saclRows : saclRows[i].on = c => Clean(saclRows[i])
      BY <2>1 DEF Sound, RowsOf
    <3> QED BY <1>5, <3>1 DEF RowsOf
  <2>4. sacl'[c] = {"ours"} => \E j \in RowsOf(c)' : j > job'.saved /\ saclRows'[j].original = {}
    <3>1. sacl[c] = {"ours"} =>
            \E i \in DOMAIN saclRows : i > k /\ saclRows[i].on = c /\ saclRows[i].original = {}
      BY <2>1, <2>2 DEF Sound, RowsOf
    <3> HIDE DEF k
    <3> QED BY <1>3, <1>4, <2>1, <3>1 DEF RowsOf
  <2>5. sacl'[c] \in {{}, {"ours"}} /\ sacl'[c] = before'[c] BY <1>1, <2>1, <2>2 DEF Sound
  <2> QED BY <1>1, <1>3, <2>2, <2>3, <2>4, <2>5 DEF Sound, Clean
<1> QED BY <1>1, <1>7, <1>8 DEF Traced

\* The script that a row names, whether or not it does what it is to.
LEMMA RestoreTraced ==
    ASSUME RowsHonest, Traced,
           RestoreSacl \/ RestoredSacl \/ RestoreSaclFails \/ (SetExactSacl /\ pc = "sacls")
    PROVE  Traced'
<1> USE DEF Begun, Written, Restoring
<1> DEFINE r == saclRows[job.at]
<1>0. job \in Job BY DEF RowsHonest
<1>1. /\ pc = "sacls" /\ pc' \in {"sacls", "retiresacl"}
      /\ UNCHANGED <<saclRows, found, before, disturbed, outcome, raced>>
  BY DEF RestoreSacl, RestoredSacl, RestoreSaclFails, SetExactSacl, Row, Keep, Quiet, History,
         winVars, saclVars
<1>2. Tidy /\ job.staged = <<>> /\ Applied = <<>> /\ job.saved = 0
  BY <1>1, WhatApplied DEF Traced, Tidy
<1>3. Calls => Now = r /\ r \in Honest /\ r.on \in Canaries /\ job.at \in DOMAIN saclRows
               /\ (Now.on \notin raced => Held)
  <2>1. Calls => Now = r /\ job.at <= Len(saclRows) BY <1>1 DEF RowsHonest, Underway
  <2>2. Calls => (Now.on \notin raced => Held) BY CallFacts
  <2>3. job.at <= Len(saclRows) => job.at \in DOMAIN saclRows BY Elements
  <2> QED BY <2>1, <2>2, <2>3, Elements
<1> HIDE DEF r
<1>4. /\ job'.staged = <<>> /\ job'.saved = 0
      /\ pc' = "retiresacl" => job'.at = job.at /\ Calls /\ ~Calls' /\ sacl' = sacl /\ sacl[r.on] = r.original
      /\ Calls' => \/ Now' = Now /\ Calls
                   \/ Now' = r /\ job.at \in DOMAIN saclRows
      /\ \/ sacl' = sacl
         \/ /\ Calls /\ job.step = "set" /\ sacl'[r.on] = r.original
            /\ \A c \in Canaries : c # r.on => sacl'[c] = sacl[c]
  <2>1. CASE RestoreSacl
    <3>1. /\ job.at <= Len(saclRows) /\ ~Calls /\ sacl' = sacl
          /\ IF sacl[r.on] = r.after
             THEN pc' = pc /\ job' = [job EXCEPT !.now = <<r>>, !.step = "set"]
             ELSE pc' = "sacls" /\ job' = [job EXCEPT !.at = job.at + 1]
      BY <2>1 DEF RestoreSacl, Row, AsLeft, Keep, Set, Quiet, winVars, saclVars, r
    <3>2. job.at \in DOMAIN saclRows BY <3>1, Elements
    <3>3. CASE sacl[r.on] = r.after
      <4>1. /\ job'.staged = job.staged /\ job'.saved = job.saved /\ job'.now = <<r>>
            /\ pc' = pc
        BY <1>0, <3>1, <3>3 DEF Job
      <4>2. Now' = r BY <4>1 DEF Now
      <4> QED BY <1>1, <1>2, <3>1, <3>2, <4>1, <4>2
    <3>4. CASE sacl[r.on] # r.after
      <4>1. /\ job'.staged = job.staged /\ job'.saved = job.saved /\ job'.step = job.step
            /\ pc' = "sacls"
        BY <1>0, <3>1, <3>4 DEF Job
      <4>2. ~Calls' BY <3>1, <4>1 DEF Calls
      <4> QED BY <1>2, <3>1, <4>1, <4>2
    <3> QED BY <3>3, <3>4
  <2>2. CASE RestoredSacl
    <3>1. /\ job.step = "verify" /\ sacl' = sacl
          /\ IF sacl[Now.on] = Now.original THEN pc' = "retiresacl" /\ CallsEnd(job)
             ELSE pc' = "sacls" /\ CallsEnd([job EXCEPT !.at = job.at + 1])
      BY <2>2 DEF RestoredSacl, Quiet, winVars, saclVars
    <3>2. Calls BY <3>1 DEF Calls
    <3>3. CASE sacl[Now.on] = Now.original
      <4>1. /\ job'.staged = job.staged /\ job'.saved = job.saved /\ job'.at = job.at
            /\ job'.step = "get"
        BY <1>0, <3>1, <3>3, CallEnded
      <4>2. ~Calls' BY <4>1 DEF Calls
      <4> QED BY <1>2, <1>3, <3>1, <3>2, <3>3, <4>1, <4>2
    <3>4. CASE sacl[Now.on] # Now.original
      <4> DEFINE j == [job EXCEPT !.at = job.at + 1]
      <4>1. j \in Job /\ j.staged = job.staged /\ j.saved = job.saved BY <1>0 DEF Job
      <4>2. pc' = "sacls" /\ CallsEnd(j) BY <3>1, <3>4
      <4> HIDE DEF j
      <4>3. job'.staged = job.staged /\ job'.saved = job.saved /\ job'.step = "get"
        BY <4>1, <4>2, CallEnded
      <4>4. ~Calls' BY <4>3 DEF Calls
      <4> QED BY <1>2, <3>1, <4>2, <4>3, <4>4
    <3> QED BY <3>3, <3>4
  <2>3. CASE RestoreSaclFails
    <3> DEFINE j == [job EXCEPT !.at = job.at + 1]
    <3>1. pc' = "sacls" /\ CallsEnd(j) /\ sacl' = sacl
      BY <2>3 DEF RestoreSaclFails, winVars, saclVars
    <3>2. j \in Job /\ j.staged = job.staged /\ j.saved = job.saved BY <1>0 DEF Job
    <3> HIDE DEF j
    <3>3. job'.staged = job.staged /\ job'.saved = job.saved /\ job'.step = "get"
      BY <3>1, <3>2, CallEnded
    <3>4. ~Calls' BY <3>3 DEF Calls
    <3> QED BY <1>2, <3>1, <3>3, <3>4
  <2>4. CASE SetExactSacl
    <3>1. job.step = "set" /\ Calls BY <2>4 DEF SetExactSacl, Calls
    <3>2. /\ pc' = pc /\ job'.staged = job.staged /\ job'.saved = job.saved /\ Now' = Now
          /\ \A c \in Canaries : sacl'[c] = IF c # Now.on THEN sacl[c] ELSE Now.original
      BY <1>1, <2>4, CallSets
    <3> QED BY <1>1, <1>2, <1>3, <3>1, <3>2
  <2> QED BY <2>1, <2>2, <2>3, <2>4
<1>5. Applied' = <<>>
  <2>1. pc' = "sacls" \/ job'.step = "get" BY <1>1, <1>4 DEF Calls
  <2> QED BY <1>4, <2>1 DEF Applied
<1>05. DOMAIN Applied' = {} /\ DOMAIN Applied = {} BY <1>2, <1>5
<1>6. Tidy' BY <1>1, <1>4, <1>5, <1>05 DEF Tidy
<1>9. ASSUME NEW c \in Canaries \ disturbed' PROVE Sound(c)'
  <2>1. Sound(c) /\ (c \notin raced) BY <1>1 DEF Traced
  <2>2. Staged(c)' = {} /\ Staged(c) = {} /\ RowsOf(c)' = RowsOf(c)
    BY <1>1, <1>05 DEF Staged, RowsOf
  <2>3. job.at \in DOMAIN saclRows /\ r.on = c => Clean(r) BY <2>1 DEF Sound, RowsOf, r
  <2>4. sacl[c] \in {{}, {"ours"}} /\ \A i \in RowsOf(c) : Clean(saclRows[i])
    BY <2>1 DEF Sound
  <2>5. sacl'[c] \in {{}, {"ours"}} /\ (sacl'[c] = {"ours"} => sacl[c] = {"ours"})
    <3>1. CASE sacl' = sacl BY <2>4, <3>1
    <3>2. CASE sacl' # sacl
      <4>1. /\ Calls /\ job.step = "set" /\ sacl'[r.on] = r.original
            /\ \A d \in Canaries : d # r.on => sacl'[d] = sacl[d]
        BY <1>4, <3>2
      <4>2. CASE r.on = c
        <5>1. Clean(r) /\ Held /\ Now = r BY <1>3, <2>1, <2>3, <4>1, <4>2
        <5>2. sacl[c] = {"ours"} BY <1>1, <4>1, <4>2, <5>1 DEF Held, Clean
        <5> QED BY <4>1, <4>2, <5>1, <5>2 DEF Clean
      <4>3. CASE r.on # c BY <2>4, <4>1, <4>3
      <4> QED BY <4>2, <4>3
    <3> QED BY <3>1, <3>2
  <2>6. sacl[c] = {"ours"} => \E i \in RowsOf(c) : i > 0 /\ saclRows[i].original = {}
    BY <1>2, <2>1, <2>2 DEF Sound
  <2>7. pc' = "retiresacl" /\ saclRows'[job'.at].on = c => sacl'[c] = saclRows'[job'.at].original
    BY <1>1, <1>4 DEF r
  <2>8. Calls' /\ Now'.on = c => Clean(Now') BY <1>3, <1>4, <2>3
  <2> QED BY <1>1, <1>4, <2>2, <2>4, <2>5, <2>6, <2>7, <2>8 DEF Sound, Clean
<1>10. raced' \subseteq disturbed' /\ found'.sacl = [c \in Canaries |-> {}] BY <1>1 DEF Traced
<1> QED BY <1>6, <1>9, <1>10 DEF Traced

\* The row of a SACL that was restored is retired.
LEMMA RetireTraced ==
    ASSUME RowsHonest, Traced, RetireSacl
    PROVE  Traced'
<1> USE DEF Begun, Written, Restoring
<1> DEFINE k == job.at
<1>1. /\ pc = "retiresacl" /\ pc' = "sacls" /\ saclRows' = RemoveAt(saclRows, k)
      /\ UNCHANGED <<sacl, job, found, before, disturbed, outcome, raced>>
  BY DEF RetireSacl, At, Quiet, History
<1>2. k \in 1 .. Len(saclRows) /\ saclRows \in Seq(Honest) /\ DOMAIN saclRows = 1 .. Len(saclRows)
      /\ Len(saclRows) \in Nat
  BY <1>1, Elements DEF RowsHonest
<1>03. ~Calls BY <1>1, NotCalling DEF CallStages
<1>3. Tidy /\ job.staged = <<>> /\ Applied = <<>> /\ Applied' = <<>> /\ job.saved = 0 /\ ~Calls'
  BY <1>03, <1>1, WhatApplied DEF Traced, Tidy, Applied, Calls
<1>4. DOMAIN Applied = {} /\ DOMAIN Applied' = {} BY <1>3
<1>5. Tidy' BY <1>1, <1>3, <1>4 DEF Tidy
<1>6. k = job.at OBVIOUS
<1> HIDE DEF k
<1>7. \A i \in DOMAIN saclRows : i # k => \E j \in DOMAIN saclRows' : j > 0 /\ saclRows'[j] = saclRows[i]
  <2> SUFFICES ASSUME NEW i \in DOMAIN saclRows, i # k
               PROVE  \E j \in DOMAIN saclRows' : j > 0 /\ saclRows'[j] = saclRows[i]
    OBVIOUS
  <2>1. (i < k /\ i > 0) \/ (i > k /\ i - 1 > 0) BY <1>2
  <2> QED BY <1>1, <1>2, <2>1, RemovedAt
<1>8. \A j \in DOMAIN saclRows' : \E i \in DOMAIN saclRows : saclRows'[j] = saclRows[i]
  BY <1>1, <1>2, RemovedAt
<1>9. ASSUME NEW c \in Canaries \ disturbed' PROVE Sound(c)'
  <2>1. Sound(c) BY <1>1 DEF Traced
  <2>2. Staged(c)' = {} /\ Staged(c) = {} BY <1>1, <1>4 DEF Staged
  <2>3. \A j \in RowsOf(c)' : Clean(saclRows'[j])
    <3>1. \A i \in DOMAIN saclRows : saclRows[i].on = c => Clean(saclRows[i])
      BY <2>1 DEF Sound, RowsOf
    <3> QED BY <1>8, <3>1 DEF RowsOf
  <2>4. ASSUME sacl[c] = {"ours"}
        PROVE  \E j \in RowsOf(c)' : j > 0 /\ saclRows'[j].original = {}
    <3>1. PICK i \in DOMAIN saclRows : saclRows[i].on = c /\ saclRows[i].original = {}
      BY <2>1, <2>2, <2>4 DEF Sound, RowsOf
    <3>2. i # k
      <4>1. saclRows[k].on = c => sacl[c] = saclRows[k].original BY <1>1, <1>6, <2>1 DEF Sound
      <4>2. {"ours"} # {} OBVIOUS
      <4> QED BY <2>4, <3>1, <4>1, <4>2
    <3>3. PICK j \in DOMAIN saclRows' : j > 0 /\ saclRows'[j] = saclRows[i] BY <1>7, <3>2
    <3> QED BY <3>1, <3>3 DEF RowsOf
  <2>5. sacl'[c] \in {{}, {"ours"}} BY <1>1, <2>1 DEF Sound
  <2> QED BY <1>1, <1>3, <2>2, <2>3, <2>4, <2>5 DEF Sound, Clean
<1> QED BY <1>1, <1>5, <1>9 DEF Traced

\* What a step that ends a stage of setup before the rows does, and one after them.
LEMMA AllSaved ==
    ASSUME RowsHonest, Traced, pc \in Written
    PROVE  \A i \in DOMAIN Applied : i <= job.saved
<1>1. job.saved = Len(Applied) BY DEF Traced, Tidy
<1>2. DOMAIN Applied = 1 .. Len(Applied) /\ Len(Applied) \in Nat BY Elements
<1> QED BY <1>1, <1>2

LEMMA SetupTraced ==
    ASSUME RowsHonest, Traced,
           \/ CapturePolicy \/ EnablePolicy \/ RecordPolicy \/ NotVerified
           \/ SecurityLogReadable \/ PolicyFails \/ RolledBack \/ RecordSaclFails
           \/ RowsDropped \/ SkipFsutil \/ SetFsutil \/ RecordFsutil
           \/ \E w \in BOOLEAN : StartSetup(w)
    PROVE  Traced'
<1> USE DEF saclVars, policyVars, accessVars, taskVars, winVars, Quiet, History, At, Set, Begun,
            Written, Restoring
<1>0. job \in Job BY DEF RowsHonest
<1>01. ~Calls /\ ~Calls' /\ raced' = raced /\ Applied = job.staged
  <2>1. ~Calls /\ ~Calls' /\ raced' = raced BY SetupFramed
  <2> QED BY <2>1, WhatApplied
<1>1. CASE CapturePolicy
  <2>1. /\ job'.staged = job.staged /\ job'.saved = job.saved /\ job'.todo = job.todo
        /\ job'.skipped = job.skipped
    BY <1>0, <1>1 DEF CapturePolicy, Job
  <2> QED BY <1>01, <1>1, <2>1, MovedOn DEF CapturePolicy
<1>2. CASE EnablePolicy BY <1>01, <1>2, MovedOn DEF EnablePolicy
<1>3. CASE RecordPolicy BY <1>01, <1>3, MovedOn DEF RecordPolicy
<1>4. CASE SecurityLogReadable BY <1>01, <1>4, MovedOn DEF SecurityLogReadable
<1>5. CASE RecordSaclFails BY <1>01, <1>5, MovedOn DEF RecordSaclFails
<1>6. CASE SetFsutil BY <1>01, <1>6, MovedOn DEF SetFsutil
<1>7. CASE NotVerified \/ PolicyFails
  <2>1. /\ pc \in Begun /\ pc' = "idle" /\ job' = NoJob
        /\ UNCHANGED <<saclVars, found, before, disturbed>>
    BY <1>7 DEF NotVerified, PolicyFails, GiveUp, End
  <2>2. Applied = <<>> BY <2>1 DEF Traced, Tidy
  <2>3. DOMAIN Applied = {} BY <2>2
  <2>4. outcome' = "refused" BY <1>7 DEF NotVerified, PolicyFails, GiveUp, End
  <2> HIDE DEF Begun, Written, Restoring
  <2> QED BY <1>01, <2>1, <2>2, <2>3, <2>4, Ended
<1>8. CASE RolledBack \/ RowsDropped
  <2>1. /\ pc \in {"rollback", "undo"} /\ pc' = "idle" /\ job' = NoJob /\ job.staged = <<>>
        /\ UNCHANGED <<saclVars, found, before, disturbed>>
    BY <1>8 DEF RolledBack, RowsDropped, GiveUp, End
  <2>2. Applied = <<>> /\ DOMAIN Applied = {} BY <1>01, <2>1
  <2>3. outcome' = "refused" BY <1>8 DEF RolledBack, RowsDropped, GiveUp, End
  <2> HIDE DEF Begun, Written, Restoring
  <2> QED BY <1>01, <2>1, <2>2, <2>3, Ended
<1>9. CASE SkipFsutil \/ RecordFsutil
  <2>1. pc \in Written /\ UNCHANGED <<saclVars, found, before, disturbed>>
    BY <1>9 DEF SkipFsutil, RecordFsutil, Configured, End
  <2>2. CASE job.watcher
    <3>1. pc' = "script" /\ UNCHANGED job BY <1>9, <2>2 DEF SkipFsutil, RecordFsutil, Configured
    <3> QED BY <1>01, <2>1, <3>1, MovedOn
  <2>3. CASE ~job.watcher
    <3>1. pc' = "idle" /\ job' = NoJob /\ outcome' = "configured"
      BY <1>9, <2>3 DEF SkipFsutil, RecordFsutil, Configured, End
    <3>2. \A i \in DOMAIN Applied : i <= job.saved BY <2>1, AllSaved
    <3> HIDE DEF Begun, Written, Restoring
    <3> QED BY <1>01, <2>1, <3>1, <3>2, Ended
  <2> QED BY <2>2, <2>3
<1>10. CASE \E w \in BOOLEAN : StartSetup(w)
  <2>1. PICK w \in BOOLEAN : StartSetup(w) BY <1>10
  <2>2. /\ pc = "idle" /\ pc' = "capture" /\ before' = sacl
        /\ job' = [NoJob EXCEPT !.todo = Canaries, !.watcher = w]
        /\ UNCHANGED <<saclVars, found, disturbed>>
    BY <2>1 DEF StartSetup, Start
  <2>3. job'.staged = <<>> /\ job'.step = "get" /\ job'.saved = 0 /\ ~job'.skipped /\ job'.todo = Canaries
    BY <2>2 DEF NoJob
  <2> QED BY <1>01, <2>2, <2>3, Started
<1> QED BY <1>1, <1>2, <1>3, <1>4, <1>5, <1>6, <1>7, <1>8, <1>9, <1>10

LEMMA WatcherTraced == ASSUME RowsHonest, Traced, Watcher PROVE Traced'
<1> USE DEF saclVars, policyVars, accessVars, taskVars, winVars, Quiet, History, At
<1>0. job \in Job BY DEF RowsHonest
<1>01. ~Calls /\ ~Calls' /\ raced' = raced BY WatcherFramed
<1>1. CASE ScriptRefused \/ RecordTask \/ RollBackScript \/ RollBackScriptFails
  <2>1. /\ pc \in Written /\ pc' = "idle" /\ job' = NoJob /\ outcome' = "configured"
        /\ UNCHANGED <<saclVars, found, before>> /\ disturbed \subseteq disturbed'
    BY <1>1 DEF ScriptRefused, RecordTask, RollBackScript, RollBackScriptFails, End, Written
  <2>2. \A i \in DOMAIN Applied : i <= job.saved BY <2>1, AllSaved
  <2>3. outcome' # "refused" BY <2>1
  <2> QED BY <1>01, <2>1, <2>2, <2>3, Ended
<1>2. CASE RegisterTask \/ RegisterFails \/ RecordTaskFails \/ Unregister
  <2>1. /\ pc \in Written /\ pc' \in Written /\ UNCHANGED <<saclVars, found, before, job, disturbed>>
    BY <1>2 DEF RegisterTask, RegisterFails, RecordTaskFails, Unregister, Written
  <2> QED BY <1>01, <2>1, MovedOn
<1>3. CASE \E body \in Bodies : WriteScript(body)
  <2>1. PICK body \in Bodies : WriteScript(body) BY <1>3
  <2>2. /\ pc \in Written /\ pc' \in Written /\ UNCHANGED <<saclVars, found, before, disturbed>>
        /\ job' = [job EXCEPT !.body = body, !.previous = script]
    BY <2>1 DEF WriteScript, Written
  <2>3. /\ job'.staged = job.staged /\ job'.saved = job.saved /\ job'.todo = job.todo
        /\ job'.skipped = job.skipped
    BY <1>0, <2>2 DEF Job
  <2> QED BY <1>01, <2>2, <2>3, MovedOn
<1> QED BY <1>1, <1>2, <1>3 DEF Watcher

LEMMA RestoringTraced ==
    ASSUME RowsHonest, Traced,
           \/ StartRestore \/ SaclsDone \/ RestorePolicy \/ DisablePolicy \/ CheckPolicy
           \/ RestorePolicyFails \/ RetirePolicy \/ PoliciesDone \/ DeleteTask
           \/ DeleteTaskFails \/ UnlinkScript \/ RetireTask \/ TasksDone
    PROVE  Traced'
<1> USE DEF saclVars, policyVars, accessVars, taskVars, winVars, Quiet, History, At, Row
<1>0. job \in Job BY DEF RowsHonest
<1>01. ~Calls /\ ~Calls' /\ raced' = raced BY RestoreFramed
<1>1. CASE StartRestore
  <2>1. job'.staged = <<>> /\ job'.step = "get" /\ job'.saved = 0 /\ ~job'.skipped
    BY <1>1 DEF StartRestore, Start, NoJob
  <2> QED BY <1>01, <1>1, <2>1, Started DEF StartRestore, Start
<1>2. CASE TasksDone
  <2>1. /\ pc = "tasks" /\ pc' = "idle" /\ job' = NoJob /\ outcome' = "restored"
        /\ UNCHANGED <<saclVars, found, before, disturbed>>
    BY <1>2 DEF TasksDone, End
  <2>2. Applied = <<>> BY <2>1 DEF Traced, Tidy, Restoring
  <2>3. DOMAIN Applied = {} BY <2>2
  <2> QED BY <1>01, <2>1, <2>3, Ended
<1>3. CASE ~StartRestore /\ ~TasksDone
  <2>1. /\ pc \in Restoring /\ pc' \in Restoring \ {"retiresacl"}
        /\ UNCHANGED <<saclVars, found, before, disturbed>>
    <3> USE DEF Restoring
    <3>1. CASE SaclsDone BY <3>1 DEF SaclsDone, AllDone
    <3>2. CASE RestorePolicy BY <3>2 DEF RestorePolicy, Keep
    <3>3. CASE DisablePolicy BY <3>3 DEF DisablePolicy
    <3>4. CASE CheckPolicy BY <3>4 DEF CheckPolicy, Keep
    <3>5. CASE RestorePolicyFails BY <3>5 DEF RestorePolicyFails, Keep
    <3>6. CASE RetirePolicy BY <3>6 DEF RetirePolicy
    <3>7. CASE PoliciesDone BY <3>7 DEF PoliciesDone, AllDone
    <3>8. CASE DeleteTask BY <3>8 DEF DeleteTask, Keep
    <3>9. CASE DeleteTaskFails BY <3>9 DEF DeleteTaskFails, Keep
    <3>10. CASE UnlinkScript BY <3>10 DEF UnlinkScript, Keep
    <3>11. CASE RetireTask BY <3>11 DEF RetireTask
    <3> QED BY <1>3, <3>1, <3>2, <3>3, <3>4, <3>5, <3>6, <3>7, <3>8, <3>9, <3>10, <3>11
  <2>2. UNCHANGED job \/ \E n \in {1, job.at + 1} : job' = [job EXCEPT !.at = n]
    BY <1>3 DEF SaclsDone, AllDone, RestorePolicy, DisablePolicy, CheckPolicy, RestorePolicyFails,
       RetirePolicy, PoliciesDone, DeleteTask, DeleteTaskFails, UnlinkScript, RetireTask, Keep, Set
  <2>3. /\ job'.staged = job.staged /\ job'.saved = job.saved /\ job'.todo = job.todo
        /\ job'.skipped = job.skipped
    BY <1>0, <2>2 DEF Job
  <2> QED BY <1>01, <2>1, <2>3, MovedOn
<1> QED BY <1>1, <1>2, <1>3

LEMMA DieTraced == ASSUME RowsHonest, Traced, Die PROVE Traced'
<1>1. /\ pc' = "idle" /\ job' = NoJob /\ outcome' = "died"
      /\ UNCHANGED <<sacl, saclRows, found, before, raced>> /\ disturbed \subseteq disturbed'
      /\ {Applied[i].on : i \in {k \in DOMAIN Applied : k > job.saved}} \subseteq disturbed'
  BY DEF Die, End, winVars, saclVars
<1>2. ASSUME NEW i \in DOMAIN Applied
      PROVE  i <= job.saved \/ Applied[i].on \in disturbed'
  <2>1. i \in Nat /\ job.saved \in Nat BY Elements
  <2>2. CASE i <= job.saved BY <2>2
  <2>3. CASE ~(i <= job.saved)
    <3>1. i > job.saved BY <2>1, <2>3
    <3> QED BY <1>1, <3>1
  <2> QED BY <2>2, <2>3
<1> QED BY <1>1, <1>2, Ended

LEMMA AdminTraced == ASSUME RowsHonest, Traced, Admin PROVE Traced'
<1> USE DEF saclVars, policyVars, accessVars, taskVars
<1>1. CASE AdminPolicy \/ UserScript \/ UserTask
  <2>1. UNCHANGED <<sacl, saclRows, found, before, pc, job, outcome, raced>> /\ disturbed \subseteq disturbed'
    BY <1>1 DEF AdminPolicy, UserScript, UserTask, Act
  <2>2. raced' \subseteq disturbed' BY <2>1 DEF Traced
  <2> QED BY <2>1, <2>2, Interfered
<1>2. CASE \E c \in Canaries, ace \in {"ours", "admin"} : AdminSacl(c, ace)
  <2>1. PICK c \in Canaries, ace \in {"ours", "admin"} : AdminSacl(c, ace) BY <1>2
  <2>2. /\ disturbed' = disturbed \cup {c} /\ raced' \subseteq raced \cup {c} /\ \A d \in Canaries : d # c => sacl'[d] = sacl[d]
        /\ UNCHANGED <<saclRows, found, before, pc, job, outcome>>
    BY <2>1 DEF AdminSacl, Act, RowsHonest
  <2>3. raced' \subseteq disturbed' BY <2>2 DEF Traced
  <2> QED BY <2>2, <2>3, Interfered
<1> QED BY <1>1, <1>2 DEF Admin

LEMMA TracedStep == ASSUME RowsHonest, Traced, [Next]_vars PROVE Traced'
<1>1. CASE Setup
  BY <1>1, SetupTraced, GetAclTraced, SetAclTraced, GotAclTraced, NotAppliedTraced, RollBackTraced, RecordTraced, DropTraced
     DEF Setup
<1>2. CASE Watcher BY <1>2, WatcherTraced
<1>3. CASE Restore BY <1>3, RestoringTraced, RestoreTraced, RetireTraced DEF Restore
<1>4. CASE Die BY <1>4, DieTraced
<1>5. CASE Admin BY <1>5, AdminTraced
<1>6. CASE UNCHANGED vars
  <2>1. UNCHANGED <<sacl, saclRows, found, before, pc, job, outcome, raced, disturbed>>
    BY <1>6 DEF vars, winVars, saclVars
  <2>2. raced' \subseteq disturbed' BY <2>1 DEF Traced
  <2> QED BY <2>1, <2>2, Interfered
<1>7. CASE SetExactSacl BY <1>7, RollBackTraced, RestoreTraced
<1> QED BY <1>1, <1>2, <1>3, <1>4, <1>5, <1>6, <1>7 DEF Next

LEMMA TracedInit == Init => Traced
<1> SUFFICES ASSUME Init PROVE Traced OBVIOUS
<1>1. /\ Applied = <<>> /\ job.step = "get" /\ raced = {} /\ job.saved = 0 /\ saclRows = <<>> /\ pc = "idle"
      /\ outcome = "none" /\ found.sacl = sacl /\ sacl = [c \in Canaries |-> {}]
  BY DEF Init, NoJob, Applied
<1>2. DOMAIN Applied = {} /\ DOMAIN saclRows = {} BY <1>1
<1>03. ~Calls BY <1>1 DEF Calls
<1>3. Tidy BY <1>1, <1>2, <1>03 DEF Tidy, Begun, Written, Restoring
<1>4. ASSUME NEW c \in Canaries PROVE Sound(c)
  <2>1. Staged(c) = {} /\ RowsOf(c) = {} BY <1>2 DEF Staged, RowsOf
  <2>2. sacl[c] = {} /\ {"ours"} # {} BY <1>1
  <2> QED BY <1>03, <1>1, <2>1, <2>2 DEF Sound, Begun, Written, Restoring
<1> QED BY <1>1, <1>3, <1>4 DEF Traced
-----------------------------------------------------------------------------
(* The watcher script has a row. *)

\* Setup, up to the scheduled watcher, leaves script, task and their rows alone.
Stages == {"idle", "apply", "rollback", "save", "undo", "offer", "recordaccess"} \cup Begun

LEMMA SetupLeaves ==
    ASSUME Setup
    PROVE  /\ UNCHANGED <<taskVars, found>> /\ disturbed \subseteq disturbed'
           /\ pc \in Stages /\ pc' \in Stages \cup {"script"}
           /\ pc' = "idle" => outcome' # "restored"
<1> USE DEF saclVars, policyVars, accessVars, winVars, Quiet, History, At, Set, Begun, Stages
<1>1. CASE CapturePolicy \/ EnablePolicy \/ RecordPolicy \/ SecurityLogReadable \/ SetFsutil
  BY <1>1 DEF CapturePolicy, EnablePolicy, RecordPolicy, SecurityLogReadable, SetFsutil
<1>2. CASE NotVerified \/ PolicyFails \/ RolledBack \/ RowsDropped
  BY <1>2 DEF NotVerified, PolicyFails, RolledBack, RowsDropped, GiveUp, End
<1>3. CASE RollBack \/ RollBackVerified \/ RollBackFails
  BY <1>3 DEF RollBack, RollBackVerified, RollBackFails
<1>4. CASE RecordSacl \/ RecordSaclFails \/ DropRow
  BY <1>4 DEF RecordSacl, RecordSaclFails, DropRow
<1>5. CASE SkipFsutil \/ RecordFsutil
  BY <1>5 DEF SkipFsutil, RecordFsutil, Configured, End
<1>6. CASE \E w \in BOOLEAN : StartSetup(w) BY <1>6 DEF StartSetup, Start
<1>7. CASE \E c \in Canaries : GetAcl(c) \/ NotConverted(c)
  BY <1>7 DEF GetAcl, NotConverted, NextCanary
<1>8. CASE SetAcl BY <1>8 DEF SetAcl
<1>9. CASE GetAclAfter
  <2>1. pc = "apply" /\ pc' \in {"apply", "rollback", "save"}
        /\ UNCHANGED <<taskVars, found, disturbed>>
    BY <1>9 DEF GetAclAfter, NextCanary
  <2> QED BY <2>1
<1>10. CASE ApplyFails BY <1>10 DEF ApplyFails
<1> QED BY <1>1, <1>2, <1>3, <1>4, <1>5, <1>6, <1>7, <1>8, <1>9, <1>10 DEF Setup

LEMMA ScriptFramed ==
    ASSUME Scripted, UNCHANGED <<script, taskRows>>, disturbed \subseteq disturbed',
           \/ pc \notin Unsettled /\ pc' \notin Unsettled \cup {"unlink", "retiretask"}
           \/ pc \in Unsettled /\ pc' \in Unsettled /\ UNCHANGED job
           \/ UNCHANGED <<pc, job>>
           \/ pc' = "idle" /\ (pc \in Unsettled => "script" \in disturbed')
    PROVE  Scripted'
BY DEF Scripted, Unsettled

LEMMA WatcherScripted == ASSUME RowsHonest, Scripted, Watcher PROVE Scripted'
<1> USE DEF saclVars, policyVars, accessVars, taskVars, winVars, Quiet, History, At, Unsettled
<1>0. job \in Job BY DEF RowsHonest
<1>1. CASE ScriptRefused BY <1>1, ScriptFramed DEF ScriptRefused, End
<1>2. CASE RegisterTask \/ RegisterFails \/ RecordTaskFails \/ Unregister
  BY <1>2, ScriptFramed DEF RegisterTask, RegisterFails, RecordTaskFails, Unregister
<1>3. CASE RecordTask
  <2>1. /\ pc = "recordtask" /\ pc' = "idle" /\ taskRows' = <<job.body>> \o taskRows
        /\ UNCHANGED <<script, disturbed>>
    BY <1>3 DEF RecordTask, End
  <2>2. taskRows \in Seq(Bodies) BY DEF Scripted
  <2>3. job.body \in Bodies BY <2>1 DEF Scripted
  <2>4. taskRows' \in Seq(Bodies) /\ Len(taskRows') = Len(taskRows) + 1 /\ Len(taskRows) \in Nat
    BY <2>1, <2>2, <2>3, Prepended
  <2>5. taskRows' # <<>> BY <2>4
  <2> QED BY <2>1, <2>4, <2>5 DEF Scripted
<1>4. CASE RollBackScript
  <2>1. /\ pc = "unwrite" /\ pc' = "idle" /\ UNCHANGED <<taskRows, disturbed>>
        /\ script' = IF script = job.body THEN job.previous ELSE script
    BY <1>4 DEF RollBackScript, End
  <2> QED BY <2>1 DEF Scripted
<1>5. CASE RollBackScriptFails
  BY <1>5, ScriptFramed DEF RollBackScriptFails, End
<1>6. CASE \E body \in Bodies : WriteScript(body)
  <2>1. PICK body \in Bodies : WriteScript(body) BY <1>6
  <2>2. /\ script = "absent" \/ taskRows # <<>>
        /\ pc' = "register" /\ script' = body /\ UNCHANGED <<taskRows, disturbed>>
        /\ job' = [job EXCEPT !.body = body, !.previous = script]
    BY <2>1 DEF WriteScript, MayWrite
  <2>3. job'.body = body /\ job'.previous = script BY <1>0, <2>2 DEF Job
  <2>4. "absent" \notin Bodies BY WinSetupAssumption
  <2> QED BY <2>2, <2>3, <2>4 DEF Scripted
<1> QED BY <1>1, <1>2, <1>3, <1>4, <1>5, <1>6 DEF Watcher

LEMMA RestoreScripted == ASSUME RowsHonest, Scripted, Restore PROVE Scripted'
<1> USE DEF saclVars, policyVars, accessVars, taskVars, winVars, Quiet, History, At, Row, Unsettled
<1>1. CASE StartRestore BY <1>1, ScriptFramed DEF StartRestore, Start
<1>2. CASE RestoreSacl \/ RestoredSacl \/ RestoreSaclFails \/ RetireSacl
  <2>1. /\ pc \in {"sacls", "retiresacl"} /\ pc' \in {"sacls", "retiresacl"}
        /\ UNCHANGED <<script, taskRows, disturbed>>
    BY <1>2 DEF RestoreSacl, RestoredSacl, RestoreSaclFails, RetireSacl, Keep
  <2> QED BY <2>1, ScriptFramed
<1>3. CASE SaclsDone \/ PoliciesDone
  BY <1>3, ScriptFramed DEF SaclsDone, PoliciesDone, AllDone
<1>4. CASE RestorePolicy \/ DisablePolicy \/ CheckPolicy \/ RetirePolicy
  BY <1>4, ScriptFramed DEF RestorePolicy, DisablePolicy, CheckPolicy, RetirePolicy, Keep
<1>5. CASE RestorePolicyFails BY <1>5, ScriptFramed DEF RestorePolicyFails, Keep
<1>6. CASE DeleteTask \/ DeleteTaskFails
  <2>1. /\ pc = "tasks" /\ pc' \in {"tasks", "unlink"} /\ UNCHANGED <<script, taskRows, disturbed>>
        /\ pc' = "unlink" => job.at <= Len(taskRows) /\ UNCHANGED job
    BY <1>6 DEF DeleteTask, DeleteTaskFails, Keep
  <2> QED BY <2>1 DEF Scripted
<1>7. CASE UnlinkScript
  <2>1. "absent" \notin Bodies BY WinSetupAssumption
  <2>2. CASE script = taskRows[job.at]
    <3>1. /\ script' = "absent" /\ pc = "unlink" /\ pc' = "retiretask"
          /\ UNCHANGED <<taskRows, disturbed, job>>
      BY <1>7, <2>2 DEF UnlinkScript
    <3> QED BY <2>1, <3>1 DEF Scripted
  <2>3. CASE script # taskRows[job.at]
    <3>1. pc = "unlink" /\ pc' = "tasks" /\ UNCHANGED <<script, taskRows, disturbed>>
      BY <1>7, <2>3 DEF UnlinkScript, Keep
    <3> QED BY <3>1, ScriptFramed
  <2> QED BY <2>2, <2>3
<1>8. CASE RetireTask
  <2>1. /\ pc = "retiretask" /\ pc' = "tasks" /\ taskRows' = RemoveAt(taskRows, job.at)
        /\ UNCHANGED <<script, disturbed, job>>
    BY <1>8 DEF RetireTask
  <2>2. script \notin Bodies /\ taskRows \in Seq(Bodies) /\ job.at <= Len(taskRows)
    BY <2>1 DEF Scripted
  <2>3. job.at \in 1 .. Len(taskRows)
    <3>1. job.at \in Nat \ {0} /\ Len(taskRows) \in Nat BY <2>2, Elements
    <3> QED BY <2>2, <3>1
  <2>4. taskRows' \in Seq(Bodies) BY <2>1, <2>2, <2>3, Removed
  <2> QED BY <2>1, <2>2, <2>4 DEF Scripted
<1>9. CASE TasksDone BY <1>9, ScriptFramed DEF TasksDone, End
<1> QED BY <1>1, <1>2, <1>3, <1>4, <1>5, <1>6, <1>7, <1>8, <1>9 DEF Restore

LEMMA ScriptedStep == ASSUME RowsHonest, Scripted, [Next]_vars PROVE Scripted'
<1> USE DEF saclVars, policyVars, accessVars, taskVars
<1>1. CASE Setup BY <1>1, SetupLeaves, ScriptFramed DEF Stages, Begun, Unsettled
<1>2. CASE Watcher BY <1>2, WatcherScripted
<1>3. CASE Restore BY <1>3, RestoreScripted
<1>4. CASE Die
  <2>1. pc \in Unsettled => "script" \in disturbed' BY <1>4 DEF Die, Unsettled
  <2>2. /\ pc' = "idle" /\ UNCHANGED <<script, taskRows>> /\ disturbed \subseteq disturbed'
    BY <1>4 DEF Die, End, winVars
  <2> QED BY <2>1, <2>2, ScriptFramed
<1>5. CASE Admin
  <2>1. CASE UserScript
    <3>1. /\ script' \in {"user", "absent"} /\ UNCHANGED <<taskRows, pc, job>>
          /\ "script" \in disturbed'
      BY <2>1 DEF UserScript, Act
    <3>2. script' \notin Bodies BY <3>1, WinSetupAssumption
    <3> QED BY <3>1, <3>2 DEF Scripted
  <2>2. CASE AdminPolicy \/ UserTask
    BY <2>2, ScriptFramed DEF AdminPolicy, UserTask, Act
  <2>3. CASE \E c \in Canaries, ace \in {"ours", "admin"} : AdminSacl(c, ace)
    BY <2>3, ScriptFramed DEF AdminSacl, Act
  <2> QED BY <1>5, <2>1, <2>2, <2>3 DEF Admin
<1>6. CASE UNCHANGED vars BY <1>6, ScriptFramed DEF vars, winVars
<1>7. CASE SetExactSacl
  <2>1. /\ pc \in {"rollback", "undo", "sacls"} /\ pc' = pc
        /\ UNCHANGED <<script, taskRows, disturbed>>
    BY <1>7 DEF SetExactSacl, Quiet, History
  <2> QED BY <2>1, ScriptFramed DEF Unsettled
<1> QED BY <1>1, <1>2, <1>3, <1>4, <1>5, <1>6, <1>7 DEF Next

LEMMA ScriptedInit == Init => Scripted
BY WinSetupAssumption DEF Init, Scripted, Unsettled
-----------------------------------------------------------------------------
(* A restore that nothing disturbed. *)

\* A step either leaves the counts of what went wrong alone or raises one of them.
LEMMA TroubleCounted ==
    ASSUME Next
    PROVE  /\ UNCHANGED <<trouble, acts>> \/ trouble' = trouble + 1 \/ acts' = acts + 1
           /\ trouble' \in {trouble, trouble + 1}
<1> USE DEF boundVars, Quiet, Trouble
<1>1. CASE Setup
  BY <1>1 DEF Setup, CapturePolicy, EnablePolicy, RecordPolicy, NotVerified, SecurityLogReadable,
     PolicyFails, RollBack, RollBackVerified, RollBackFails, RolledBack, RecordSacl,
     RecordSaclFails, DropRow, RowsDropped, SkipFsutil, SetFsutil, RecordFsutil, StartSetup, Start,
     GetAcl, SetAcl, GetAclAfter, ApplyFails, NotConverted
<1>2. CASE Watcher
  BY <1>2 DEF Watcher, ScriptRefused, RegisterTask, RegisterFails, RecordTask, RecordTaskFails,
     Unregister, RollBackScript, RollBackScriptFails, WriteScript
<1>3. CASE Restore
  BY <1>3 DEF Restore, StartRestore, Start, RestoreSacl, RestoredSacl, RestoreSaclFails,
     RetireSacl, SaclsDone, AllDone, RestorePolicy, DisablePolicy, CheckPolicy, RestorePolicyFails, RetirePolicy,
     PoliciesDone, DeleteTask, DeleteTaskFails, UnlinkScript, RetireTask, TasksDone
<1>4. CASE Die \/ SetExactSacl BY <1>4 DEF Die, SetExactSacl
<1>5. CASE Admin BY <1>5, AdminSteps DEF Admin, AdminPolicy, UserScript, UserTask, AdminSacl, Act
<1> QED BY <1>1, <1>2, <1>3, <1>4, <1>5 DEF Next

\* The steps left while nothing goes wrong.
CalmSetup ==
    \/ CapturePolicy \/ EnablePolicy \/ RecordPolicy \/ NotVerified \/ SecurityLogReadable
    \/ RecordSacl \/ SkipFsutil \/ SetFsutil \/ RecordFsutil
    \/ (\E w \in BOOLEAN : StartSetup(w))
    \/ (\E c \in Canaries : GetAcl(c)) \/ SetAcl \/ GetAclAfter

CalmWatcher ==
    ScriptRefused \/ RegisterTask \/ RecordTask \/ (\E body \in Bodies : WriteScript(body))

CalmRestore ==
    \/ StartRestore \/ RestoreSacl \/ (SetExactSacl /\ pc = "sacls") \/ RestoredSacl
    \/ RetireSacl \/ SaclsDone \/ RestorePolicy \/ DisablePolicy \/ CheckPolicy \/ RetirePolicy \/ PoliciesDone \/ DeleteTask \/ UnlinkScript \/ RetireTask
    \/ TasksDone

LEMMA CalmSteps ==
    ASSUME RowsHonest, Traced, Next, trouble \in Nat, acts \in Nat, Undisturbed, Calm'
    PROVE  Calm /\ (CalmSetup \/ CalmWatcher \/ CalmRestore)
<1>1. UNCHANGED <<trouble, acts>> /\ Calm /\ trouble' # trouble + 1 /\ acts' # acts + 1
  BY TroubleCounted DEF Calm
<1>2. pc \notin {"rollback", "undo", "unregister", "unwrite"}
  BY <1>1 DEF Undisturbed, SaclsCalm
<1> USE DEF Trouble
<1>3. CASE Setup
  <2>1. ~ApplyFails
    <3> SUFFICES ASSUME ApplyFails PROVE FALSE OBVIOUS
    <3>1. pc = "apply" /\ job.step = "verify" /\ sacl[Now.on] = {} BY <1>1 DEF ApplyFails, At
    <3>2. Calls /\ Now \in Honest /\ Now.on \in Canaries /\ Applied = Append(job.staged, Now)
      BY <3>1, CallFacts, WhatApplied DEF Calls
    <3>3. Sound(Now.on) BY <1>1, <3>2 DEF Traced, Undisturbed, SaclsCalm
    <3>4. Len(job.staged) + 1 \in DOMAIN Applied /\ Applied[Len(job.staged) + 1] = Now
      BY <3>2, Elements
    <3>5. Len(job.staged) + 1 \in Staged(Now.on) BY <3>4 DEF Staged
    <3>6. sacl[Now.on] = {"ours"} BY <3>3, <3>5 DEF Sound
    <3> QED BY <3>1, <3>6
  <2> QED
    BY <1>1, <1>2, <1>3, <2>1 DEF Setup, CalmSetup, PolicyFails, RollBack, RollBackVerified,
       RollBackFails, RolledBack, RecordSaclFails, DropRow, RowsDropped, NotConverted
<1>4. CASE Watcher
  BY <1>1, <1>2, <1>4 DEF Watcher, CalmWatcher, RegisterFails, RecordTaskFails, Unregister,
     RollBackScript, RollBackScriptFails, At
<1>5. CASE Restore
  BY <1>1, <1>5 DEF Restore, CalmRestore, RestoreSaclFails, RestorePolicyFails, DeleteTaskFails
<1>6. ~Die BY <1>1 DEF Die
<1>7. ~Admin BY <1>1 DEF Admin, AdminPolicy, UserScript, UserTask, AdminSacl, Act
<1>8. CASE SetExactSacl
  <2>1. pc = "sacls" BY <1>2, <1>8 DEF SetExactSacl
  <2> QED BY <1>1, <1>8, <2>1 DEF CalmRestore
<1> QED BY <1>1, <1>3, <1>4, <1>5, <1>6, <1>7, <1>8 DEF Next

\* Steps that leave the SACLs, their rows and the changes of the command alone.
LEMMA SaclsFramed ==
    ASSUME SaclsCalm, UNCHANGED <<sacl, saclRows, disturbed>>, ~job'.skipped,
           \/ Applied' = Applied /\ job'.saved = job.saved
           \/ ~Calls /\ ~Calls' /\ job'.staged = job.staged /\ job'.saved = job.saved
           \/ ~Calls' /\ job'.staged = <<>>,
           ~Undone, pc' \notin {"rollback", "undo", "unregister", "unwrite"},
           pc' \in Restoring \ {"tasks"} => job'.at = 1,
           Restored' \/ pc' \in Restoring \ {"sacls", "retiresacl"} => saclRows = <<>>
    PROVE  SaclsCalm'
<1>1. (Applied' = Applied /\ job'.saved = job.saved) \/ Applied' = <<>> BY DEF Applied, Calls
<1>2. \A i \in DOMAIN Applied', j \in DOMAIN saclRows' :
        i > job'.saved /\ saclRows'[j].on = Applied'[i].on => Applied'[i].original = {"ours"}
  <2>1. CASE Applied' = Applied /\ job'.saved = job.saved
    BY <2>1 DEF SaclsCalm
  <2>2. CASE Applied' = <<>>
    <3>1. DOMAIN Applied' = {} BY <2>2
    <3> QED BY <3>1
  <2> QED BY <1>1, <2>1, <2>2
<1> QED BY <1>2 DEF SaclsCalm

\* A canary with a row carries the ACE already.
LEMMA SaclsApply ==
    ASSUME RowsHonest, Traced, SaclsCalm, SetAcl \/ GetAclAfter \/ \E d \in Canaries : GetAcl(d)
    PROVE  SaclsCalm'
<1> USE DEF Begun, Written, Restoring
<1>0. job \in Job /\ ~job.skipped /\ raced = {} /\ job.staged \in Seq(Honest)
  BY Elements DEF RowsHonest, Traced, SaclsCalm
<1>1. CASE \E d \in Canaries : GetAcl(d)
  <2>1. PICK d \in Canaries : GetAcl(d) BY <1>1
  <2>2. /\ pc = "apply" /\ pc' = pc /\ ~Calls /\ UNCHANGED <<sacl, saclRows, disturbed>>
        /\ job'.staged = job.staged /\ job'.saved = job.saved /\ ~job'.skipped /\ job'.step = "set"
    BY <1>0, <2>1 DEF GetAcl, Quiet, History, winVars, saclVars, Job
  <2>3. Applied' = Applied BY <2>2 DEF Applied, Calls
  <2> QED BY <2>2, <2>3, SaclsFramed DEF Undone, Restored
<1>2. CASE GetAclAfter
  <2> DEFINE r == [Now EXCEPT !.after = sacl[Now.on]]
  <2>1. /\ pc = "apply" /\ job.step = "verify" /\ pc' \in {"apply", "save"}
        /\ job' = [[job EXCEPT !.staged = Append(job.staged, r)] EXCEPT !.now = <<>>, !.step = "get"]
        /\ UNCHANGED <<sacl, saclRows, disturbed>>
    BY <1>0, <1>2 DEF GetAclAfter, NextCanary, At, CallsEnd, Quiet, History, winVars, saclVars
  <2>2. /\ Calls /\ Now \in Honest /\ Held /\ Applied = Append(job.staged, Now)
        /\ Now = [on |-> Now.on, original |-> Now.original, after |-> Now.after]
    BY <1>0, <2>1, CallFacts, WhatApplied DEF Calls
  <2>3. sacl[Now.on] = Now.after BY <2>1, <2>2 DEF Held
  <2>4. r = Now BY <2>2, <2>3
  <2> HIDE DEF r
  <2>5. /\ job'.staged = Append(job.staged, Now) /\ job'.saved = job.saved /\ ~job'.skipped
        /\ job'.step = "get"
    BY <1>0, <2>1, <2>4 DEF Job
  <2>6. Applied' = Applied BY <2>2, <2>5 DEF Applied
  <2> QED BY <2>1, <2>5, <2>6, SaclsFramed DEF Undone, Restored
<1>3. CASE SetAcl
  <2> DEFINE e == Now
  <2>1. /\ pc = "apply" /\ pc' = pc /\ job.step = "set" /\ Calls
        /\ UNCHANGED <<saclRows, disturbed, outcome>>
    BY <1>3 DEF SetAcl, Quiet, History, Calls
  <2>2. /\ job'.staged = job.staged /\ job'.saved = job.saved /\ job'.skipped = job.skipped
        /\ job'.now = job.now /\ job'.step = "verify"
        /\ \A c \in Canaries : sacl'[c] = IF c # e.on THEN sacl[c] ELSE e.after
    BY <1>3, <2>1, CallSets
  <2>3. e \in Honest /\ e.on \in Canaries /\ Held /\ job.now = <<e>> BY <1>0, <2>1, CallFacts
  <2>4. sacl[e.on] = e.original BY <2>1, <2>3 DEF Held
  <2> HIDE DEF e
  <2>5. Applied = job.staged BY <2>1, WhatApplied
  <2>6. Applied' = Append(job.staged, e)
    <3>1. job.staged \o <<e>> = Append(job.staged, e) BY <1>0, <2>3
    <3> QED BY <2>1, <2>2, <2>3, <3>1 DEF Applied
  <2>7. \A i \in DOMAIN Applied' :
          Applied'[i] = e \/ (i \in DOMAIN Applied /\ Applied'[i] = Applied[i])
    BY <1>0, <2>5, <2>6
  <2>8. \A i \in DOMAIN saclRows : sacl[saclRows[i].on] = {"ours"}
    BY <2>1 DEF SaclsCalm, Undone
  <2>9. \A j \in DOMAIN saclRows : saclRows[j].on = e.on => e.original = {"ours"} BY <2>4, <2>8
  <2>10. ASSUME NEW i \in DOMAIN saclRows PROVE sacl'[saclRows[i].on] = {"ours"}
    <3>1. saclRows[i].on \in Canaries BY Elements
    <3>2. CASE saclRows[i].on # e.on BY <2>2, <2>8, <3>1, <3>2
    <3>3. CASE saclRows[i].on = e.on
      <4>1. Clean(e)
        <5>1. Sound(e.on) BY <2>3 DEF Traced, SaclsCalm
        <5> QED BY <2>1, <5>1 DEF Sound, e
      <4> QED BY <2>2, <2>3, <3>3, <4>1 DEF Clean
    <3> QED BY <3>2, <3>3
  <2>11. ASSUME NEW i \in DOMAIN Applied', NEW j \in DOMAIN saclRows',
                i > job'.saved, saclRows'[j].on = Applied'[i].on
         PROVE  Applied'[i].original = {"ours"}
    <3>1. CASE Applied'[i] = e BY <2>1, <2>9, <2>11, <3>1
    <3>2. CASE i \in DOMAIN Applied /\ Applied'[i] = Applied[i]
      BY <2>1, <2>2, <2>11, <3>2 DEF SaclsCalm
    <3> QED BY <2>7, <3>1, <3>2
  <2>12. ~job'.skipped BY <1>0, <2>2
  <2> QED BY <2>1, <2>10, <2>11, <2>12 DEF SaclsCalm, Restored
<1> QED BY <1>1, <1>2, <1>3

LEMMA SaclsRecord ==
    ASSUME RowsHonest, Traced, SaclsCalm, RecordSacl
    PROVE  SaclsCalm'
<1> USE DEF Begun, Written, Restoring
<1> DEFINE n == job.saved + 1
<1>01. /\ pc = "save" /\ pc' \in {"offer", "save"}
       /\ saclRows' = <<job.staged[n]>> \o saclRows /\ job' = [job EXCEPT !.saved = n]
       /\ UNCHANGED <<sacl, disturbed, outcome>>
  BY DEF RecordSacl, At, Set, Quiet, History
<1>02. ~Calls /\ Applied = job.staged BY <1>01, NotCalling, WhatApplied DEF CallStages
<1>1. /\ pc = "save" /\ pc' \in {"offer", "save"} /\ ~Undone /\ ~Undone'
      /\ saclRows' = <<Applied[n]>> \o saclRows /\ job' = [job EXCEPT !.saved = n]
      /\ UNCHANGED <<sacl, disturbed, outcome>>
  BY <1>01, <1>02 DEF Undone
<1>2. n \in DOMAIN Applied /\ n \in Nat /\ n = job.saved + 1 /\ job.saved \in Nat
      /\ n > job.saved
  BY <1>1, <1>02, Elements DEF RowsHonest
<1> HIDE DEF n
<1>03. /\ job'.saved = n /\ job'.staged = job.staged /\ job'.skipped = job.skipped
       /\ job'.step = job.step
  <2>1. job \in Job BY DEF RowsHonest
  <2> QED BY <1>1, <2>1 DEF Job
<1>3. job'.saved = n /\ Applied' = Applied /\ job'.skipped = job.skipped
  BY <1>02, <1>03 DEF Applied, Calls
<1> DEFINE e == Applied[n]
<1>4. e \in Honest /\ saclRows \in Seq(Honest) /\ e.on \in Canaries BY <1>2, Elements
<1>5. saclRows' = <<e>> \o saclRows BY <1>1
<1>6. sacl[e.on] = {"ours"}
  <2>1. Sound(e.on) BY <1>4 DEF Traced, SaclsCalm
  <2>2. n \in Staged(e.on) BY <1>2 DEF Staged
  <2> QED BY <2>1, <2>2 DEF Sound
<1>7. \A j \in DOMAIN saclRows : saclRows[j].on = e.on => e.original = {"ours"}
  BY <1>2 DEF SaclsCalm
<1>8. \A i \in DOMAIN Applied : Applied[i].on = e.on => i = n
  BY <1>2 DEF Traced, Tidy
<1> HIDE DEF e
<1>9. /\ saclRows'[1] = e /\ 1 \in DOMAIN saclRows'
      /\ \A j \in DOMAIN saclRows' : j = 1 \/ (j - 1 \in DOMAIN saclRows /\ saclRows'[j] = saclRows[j - 1])
  BY <1>4, <1>5, PrependedAt
<1>10. DOMAIN saclRows \subseteq Nat /\ DOMAIN Applied \subseteq Nat BY Elements
<1>11. \A i \in DOMAIN saclRows : sacl[saclRows[i].on] = {"ours"} BY <1>1 DEF SaclsCalm
<1>12. \A j \in DOMAIN saclRows' : sacl'[saclRows'[j].on] = {"ours"}
  BY <1>1, <1>6, <1>9, <1>11
<1>13. ASSUME NEW i \in DOMAIN saclRows', NEW j \in DOMAIN saclRows',
              i < j, saclRows'[i].on = saclRows'[j].on
       PROVE  saclRows'[i].original = {"ours"}
  <2>0. DOMAIN saclRows' \subseteq Nat \ {0}
    <3>1. saclRows' \in Seq(Honest) BY <1>4, <1>5, Prepended
    <3> QED BY <3>1
  <2>1. j # 1 /\ j - 1 \in DOMAIN saclRows /\ saclRows'[j] = saclRows[j - 1]
    <3>1. j # 1 BY <1>13, <2>0
    <3> QED BY <1>9, <3>1
  <2>2. CASE i = 1
    <3>1. j - 1 \in DOMAIN saclRows /\ saclRows[j - 1].on = e.on BY <1>9, <1>13, <2>1, <2>2
    <3> QED BY <1>7, <1>9, <2>2, <3>1
  <2>3. CASE i # 1
    <3>1. i - 1 \in DOMAIN saclRows /\ saclRows'[i] = saclRows[i - 1] BY <1>9, <2>3
    <3>2. i - 1 < j - 1 BY <1>13, <2>0
    <3> QED BY <1>13, <2>1, <3>1, <3>2 DEF SaclsCalm
  <2> QED BY <2>2, <2>3
<1>14. ASSUME NEW i \in DOMAIN Applied', NEW j \in DOMAIN saclRows',
              i > job'.saved, saclRows'[j].on = Applied'[i].on
       PROVE  Applied'[i].original = {"ours"}
  <2>1. i \in DOMAIN Applied /\ i > n /\ i > job.saved /\ i # n
    BY <1>2, <1>3, <1>10, <1>14
  <2>2. Applied[i].on # e.on BY <1>8, <2>1
  <2>3. j # 1 BY <1>3, <1>9, <1>14, <2>2
  <2>4. j - 1 \in DOMAIN saclRows /\ saclRows[j - 1].on = Applied[i].on
    BY <1>3, <1>9, <1>14, <2>3
  <2> QED BY <1>3, <2>1, <2>4 DEF SaclsCalm
<1> QED BY <1>1, <1>3, <1>12, <1>13, <1>14 DEF SaclsCalm, Restored

\* The first row expects what is there.
LEMMA SaclsRestore ==
    ASSUME RowsHonest, Traced, SaclsCalm,
           RestoreSacl \/ RestoredSacl \/ (SetExactSacl /\ pc = "sacls")
    PROVE  SaclsCalm'
<1> USE DEF Begun, Written, Restoring
<1> DEFINE r == saclRows[1]
<1>0. job \in Job /\ ~job.skipped /\ raced = {} BY DEF RowsHonest, Traced, SaclsCalm
<1>1. pc = "sacls" /\ job.at = 1 /\ UNCHANGED <<saclRows, disturbed, outcome>>
  BY DEF RestoreSacl, RestoredSacl, Row, SetExactSacl, SaclsCalm, Quiet, History, winVars, saclVars
<1>2. 1 <= Len(saclRows) => 1 \in DOMAIN saclRows /\ r.on \in Canaries BY Elements
<1>3. Applied = <<>> /\ job.staged = <<>> BY <1>1, WhatApplied DEF Traced, Tidy
<1>4. 1 <= Len(saclRows) => Clean(r)
  <2>1. 1 <= Len(saclRows) => Sound(r.on) BY <1>2 DEF Traced, SaclsCalm
  <2> QED BY <1>2, <2>1 DEF Sound, RowsOf
<1>5. Calls => Now = r /\ 1 <= Len(saclRows) /\ Held
  <2>1. Calls => Now = r /\ 1 <= Len(saclRows) BY <1>1 DEF RowsHonest, Underway
  <2> QED BY <1>0, <2>1, CallFacts
<1>6. CASE RestoreSacl
  <2>1. /\ 1 <= Len(saclRows) /\ ~Calls /\ UNCHANGED sacl
        /\ sacl[r.on] = r.after => pc' = pc /\ job' = [job EXCEPT !.now = <<r>>, !.step = "set"]
    BY <1>1, <1>6 DEF RestoreSacl, Row, AsLeft, Quiet, winVars, saclVars
  <2>2. ~Undone BY <1>1, <2>1 DEF Undone, Calls
  <2>3. sacl[r.on] = {"ours"} BY <1>2, <2>1, <2>2 DEF SaclsCalm
  <2>4. pc' = pc /\ job' = [job EXCEPT !.now = <<r>>, !.step = "set"] BY <1>4, <2>1, <2>3 DEF Clean
  <2> HIDE DEF r
  <2>5. /\ job'.staged = job.staged /\ job'.saved = job.saved /\ job'.skipped = job.skipped
        /\ job'.at = job.at
    BY <1>0, <2>4 DEF Job
  <2>6. Applied' = Applied BY <1>1, <1>3, <2>4, <2>5 DEF Applied
  <2> QED BY <1>0, <1>1, <2>1, <2>2, <2>4, <2>5, <2>6, SaclsFramed DEF Restored
<1>7. CASE SetExactSacl
  <2>1. job.step = "set" /\ Calls BY <1>7 DEF SetExactSacl, Calls
  <2>2. /\ pc' = pc /\ job'.staged = job.staged /\ job'.skipped = job.skipped /\ job'.at = job.at
        /\ job'.step = "verify"
        /\ \A c \in Canaries : sacl'[c] = IF c # r.on THEN sacl[c] ELSE r.original
    BY <1>1, <1>5, <1>7, <2>1, CallSets
  <2>3. Applied' = <<>> /\ DOMAIN Applied' = {} BY <1>1, <1>3, <2>2 DEF Applied
  <2>4. ASSUME NEW i \in DOMAIN saclRows, i # 1 PROVE sacl'[saclRows[i].on] = {"ours"}
    <3>1. i > 1 /\ saclRows[i].on \in Canaries BY <2>4, Elements
    <3>2. CASE saclRows[i].on = r.on
      <4>1. r.original = {"ours"} BY <1>2, <1>5, <2>1, <3>1, <3>2 DEF SaclsCalm
      <4> QED BY <2>2, <3>1, <3>2, <4>1
    <3>3. CASE saclRows[i].on # r.on
      BY <2>2, <2>4, <3>1, <3>3 DEF SaclsCalm
    <3> QED BY <3>2, <3>3
  <2>5. Undone' BY <1>1, <2>2 DEF Undone
  <2> QED BY <1>0, <1>1, <2>2, <2>3, <2>4, <2>5 DEF SaclsCalm, Restored
<1>8. CASE RestoredSacl
  <2>1. /\ job.step = "verify" /\ UNCHANGED sacl
        /\ sacl[Now.on] = Now.original => pc' = "retiresacl" /\ CallsEnd(job)
    BY <1>8 DEF RestoredSacl, Quiet, winVars, saclVars
  <2>2. Calls BY <2>1 DEF Calls
  <2>3. sacl[Now.on] = Now.original BY <1>1, <1>5, <2>1, <2>2 DEF Held
  <2>4. /\ pc' = "retiresacl" /\ job'.staged = job.staged /\ job'.skipped = job.skipped
        /\ job'.at = job.at /\ job'.step = "get"
    BY <1>0, <2>1, <2>3, CallEnded
  <2>5. Applied' = <<>> /\ DOMAIN Applied' = {} BY <1>3, <2>4 DEF Applied
  <2>6. Undone /\ Undone' BY <1>1, <2>1, <2>4 DEF Undone
  <2> QED BY <1>0, <1>1, <2>1, <2>4, <2>5, <2>6 DEF SaclsCalm, Restored
<1> QED BY <1>6, <1>7, <1>8

LEMMA SaclsRetire ==
    ASSUME RowsHonest, Traced, SaclsCalm, RetireSacl
    PROVE  SaclsCalm'
<1> USE DEF Begun, Written, Restoring
<1>1. /\ pc = "retiresacl" /\ pc' = "sacls" /\ job.at = 1 /\ saclRows' = RemoveAt(saclRows, 1)
      /\ UNCHANGED <<sacl, job, disturbed>>
  BY DEF RetireSacl, At, Quiet, History, SaclsCalm
<1>2. 1 \in 1 .. Len(saclRows) /\ saclRows \in Seq(Honest) /\ DOMAIN saclRows = 1 .. Len(saclRows)
      /\ Len(saclRows) \in Nat
  BY <1>1, Elements DEF RowsHonest
<1>3. \A j \in DOMAIN saclRows' : j \in Nat \ {0} /\ j + 1 \in DOMAIN saclRows /\ saclRows'[j] = saclRows[j + 1]
  <2>1. saclRows' \in Seq(Honest) BY <1>1, <1>2, Removed
  <2>2. DOMAIN saclRows' \subseteq Nat \ {0} BY <2>1
  <2>3. \A j \in DOMAIN saclRows' : ~(j < 1) BY <2>2
  <2> QED BY <1>1, <1>2, <2>2, <2>3, RemovedAt
<1>04. ~Calls BY <1>1, NotCalling DEF CallStages
<1>4. Applied' = <<>> /\ ~Undone'
  <2>1. job.staged = <<>> BY <1>04, <1>1, WhatApplied DEF Traced, Tidy
  <2> QED BY <1>04, <1>1, <2>1 DEF Applied, Calls, Undone
<1>5. DOMAIN Applied' = {} BY <1>4
<1>6. \A j \in DOMAIN saclRows' : sacl'[saclRows'[j].on] = {"ours"}
  <2>1. \A i \in DOMAIN saclRows : i # 1 => sacl[saclRows[i].on] = {"ours"} BY DEF SaclsCalm
  <2>2. \A j \in DOMAIN saclRows' : j + 1 # 1 BY <1>3
  <2> QED BY <1>1, <1>3, <2>1, <2>2
<1>7. ASSUME NEW i \in DOMAIN saclRows', NEW j \in DOMAIN saclRows',
             i < j, saclRows'[i].on = saclRows'[j].on
      PROVE  saclRows'[i].original = {"ours"}
  <2>1. i + 1 < j + 1 BY <1>3, <1>7
  <2> QED BY <1>3, <1>7, <2>1 DEF SaclsCalm
<1> QED BY <1>1, <1>4, <1>5, <1>6, <1>7 DEF SaclsCalm, Restored

\* With nothing in the way, --restore finds each policy as its row says, and each script.
LEMMA NoConflict ==
    ASSUME RowsHonest, Scripted, SaclsCalm, PolicyCalm, TaskCalm
    PROVE  /\ RestorePolicy => /\ pc' \in {"disable", "retirepolicy"} /\ UNCHANGED job
                               /\ policyRows # <<>> /\ policy = {"success"}
                               /\ pc' = IF policyRows[1].included THEN "retirepolicy" ELSE "disable"
           /\ CheckPolicy => pc' = "retirepolicy" /\ UNCHANGED job
           /\ UnlinkScript => pc' = "retiretask" /\ UNCHANGED job /\ script' = "absent"
           /\ DeleteTask /\ pc' = "unlink" => job.at = 1 /\ UNCHANGED job /\ Installed
           /\ DeleteTask /\ pc' # "unlink" => pc' = "tasks" /\ AsFound /\ job'.staged = job.staged
                                              /\ job'.saved = job.saved /\ job'.skipped = job.skipped
<1> USE DEF Restoring
<1>1. ASSUME RestorePolicy
      PROVE  /\ pc' \in {"disable", "retirepolicy"} /\ UNCHANGED job
             /\ policyRows # <<>> /\ policy = {"success"}
             /\ pc' = IF policyRows[1].included THEN "retirepolicy" ELSE "disable"
  <2>1. pc = "policies" /\ job.at = 1 /\ 1 <= Len(policyRows)
    BY <1>1 DEF RestorePolicy, Row, SaclsCalm
  <2>2. policyRows \in Seq([included : BOOLEAN, after : Policy]) BY DEF PolicyCalm
  <2>3. policyRows # <<>> /\ 1 \in DOMAIN policyRows BY <2>1, <2>2
  <2>4. policy = policyRows[1].after /\ policy = {"success"} BY <2>1, <2>3 DEF PolicyCalm
  <2> QED BY <1>1, <2>1, <2>3, <2>4 DEF RestorePolicy
<1>2. ASSUME CheckPolicy PROVE pc' = "retirepolicy" /\ UNCHANGED job
  <2>1. policy = {} BY <1>2 DEF CheckPolicy, PolicyCalm
  <2> QED BY <1>2, <2>1 DEF CheckPolicy
<1>3. ASSUME UnlinkScript PROVE pc' = "retiretask" /\ UNCHANGED job /\ script' = "absent"
  <2>1. script = taskRows[1] /\ job.at = 1 BY <1>3 DEF UnlinkScript, TaskCalm, SaclsCalm
  <2> QED BY <1>3, <2>1 DEF UnlinkScript
<1>4. ASSUME DeleteTask, pc' = "unlink" PROVE job.at = 1 /\ UNCHANGED job /\ Installed
  BY <1>4 DEF DeleteTask, Row, Keep, TaskCalm, AsFound
<1>5. ASSUME DeleteTask, pc' # "unlink"
      PROVE  /\ pc' = "tasks" /\ AsFound /\ job'.staged = job.staged
             /\ job'.saved = job.saved /\ job'.skipped = job.skipped
  <2>1. pc = "tasks" /\ pc' = "tasks" /\ task # "ours" /\ job' = [job EXCEPT !.at = job.at + 1]
    BY <1>5 DEF DeleteTask, Row, Keep, Set
  <2>2. job \in Job BY DEF RowsHonest
  <2>3. AsFound BY <2>1 DEF TaskCalm, Installed
  <2> QED BY <2>1, <2>2, <2>3 DEF Job
<1> QED BY <1>1, <1>2, <1>3, <1>4, <1>5

LEMMA SaclsSetup ==
    ASSUME RowsHonest, Traced, Scripted, SaclsCalm, PolicyCalm, TaskCalm, CalmSetup \/ CalmWatcher
    PROVE  SaclsCalm'
<1> USE DEF Restoring, Restored, saclVars, policyVars, accessVars, taskVars, winVars, Quiet, History,
            At, Set
<1>0. job \in Job /\ ~job.skipped BY DEF RowsHonest, SaclsCalm
<1>01. ASSUME \/ CapturePolicy \/ EnablePolicy \/ RecordPolicy \/ NotVerified
              \/ SecurityLogReadable \/ SkipFsutil \/ SetFsutil \/ RecordFsutil
              \/ Watcher \/ \E w \in BOOLEAN : StartSetup(w)
       PROVE  ~Calls /\ ~Calls'
  BY <1>01, SetupFramed, WatcherFramed
<1>02. ~Calls /\ pc # "retiresacl" => ~Undone BY DEF Undone, Calls
<1>1. CASE \E w \in BOOLEAN : StartSetup(w)
  <2>1. PICK w \in BOOLEAN : StartSetup(w) BY <1>1
  <2>2. job'.staged = <<>> /\ ~job'.skipped BY <2>1 DEF StartSetup, Start, NoJob
  <2>3. ~Calls /\ ~Calls' BY <1>1, <1>01
  <2> QED BY <1>02, <2>1, <2>2, <2>3, SaclsFramed DEF StartSetup, Start
<1>2. CASE CapturePolicy
  <2>1. job'.staged = job.staged /\ job'.saved = job.saved /\ ~job'.skipped
    BY <1>0, <1>2 DEF CapturePolicy, Job
  <2>2. ~Calls /\ ~Calls' BY <1>2, <1>01
  <2> QED BY <1>02, <1>2, <2>1, <2>2, SaclsFramed DEF CapturePolicy
<1>3. CASE EnablePolicy \/ RecordPolicy \/ SecurityLogReadable \/ SetFsutil \/ RegisterTask
  <2>1. ~Calls /\ ~Calls' BY <1>3, <1>01 DEF Watcher
  <2> QED BY <1>0, <1>02, <1>3, <2>1, SaclsFramed DEF EnablePolicy, RecordPolicy,
       SecurityLogReadable, SetFsutil, RegisterTask
<1>4. CASE NotVerified \/ ScriptRefused \/ RecordTask
  <2>1. /\ pc' = "idle" /\ outcome' # "restored" /\ job' = NoJob /\ pc # "retiresacl"
        /\ UNCHANGED <<saclVars, disturbed>>
    BY <1>4 DEF NotVerified, ScriptRefused, RecordTask, GiveUp, End
  <2>2. job'.staged = <<>> /\ ~job'.skipped BY <2>1 DEF NoJob
  <2>3. ~Calls /\ ~Calls' BY <1>4, <1>01 DEF Watcher
  <2> QED BY <1>02, <2>1, <2>2, <2>3, SaclsFramed
<1>5. CASE SkipFsutil \/ RecordFsutil
  <2>1. pc # "retiresacl" /\ UNCHANGED <<saclVars, disturbed>>
    BY <1>5 DEF SkipFsutil, RecordFsutil, Configured, End
  <2>2. \/ pc' = "script" /\ UNCHANGED job
        \/ pc' = "idle" /\ outcome' = "configured" /\ job' = NoJob
    BY <1>5 DEF SkipFsutil, RecordFsutil, Configured, End
  <2>3. NoJob.staged = <<>> /\ ~NoJob.skipped BY DEF NoJob
  <2>4. ~Calls /\ ~Calls' BY <1>5, <1>01
  <2> QED BY <1>0, <1>02, <2>1, <2>2, <2>3, <2>4, SaclsFramed
<1>6. CASE \E body \in Bodies : WriteScript(body)
  <2>1. PICK body \in Bodies : WriteScript(body) BY <1>6
  <2>2. job'.staged = job.staged /\ job'.saved = job.saved /\ ~job'.skipped
    BY <1>0, <2>1 DEF WriteScript, Job
  <2>3. ~Calls /\ ~Calls' BY <1>6, <1>01 DEF Watcher
  <2> QED BY <1>02, <2>1, <2>2, <2>3, SaclsFramed DEF WriteScript
<1>7. CASE RecordSacl BY <1>7, SaclsRecord
<1>8. CASE SetAcl \/ GetAclAfter \/ \E c \in Canaries : GetAcl(c) BY <1>8, SaclsApply
<1> QED BY <1>1, <1>2, <1>3, <1>4, <1>5, <1>6, <1>7, <1>8 DEF CalmSetup, CalmWatcher

LEMMA SaclsRestoring ==
    ASSUME RowsHonest, Traced, Scripted, SaclsCalm, PolicyCalm, TaskCalm, CalmRestore
    PROVE  SaclsCalm'
<1> USE DEF Restoring, Restored, saclVars, policyVars, accessVars, taskVars, winVars, Quiet, History,
            At, Set, Row
<1>0. job \in Job /\ ~job.skipped BY DEF RowsHonest, SaclsCalm
<1>01. ASSUME \/ StartRestore \/ SaclsDone \/ RestorePolicy \/ DisablePolicy \/ CheckPolicy
              \/ RetirePolicy \/ PoliciesDone \/ DeleteTask \/ UnlinkScript \/ RetireTask
              \/ TasksDone
       PROVE  ~Calls /\ ~Calls'
  BY <1>01, RestoreFramed
<1>02. ~Calls /\ pc # "retiresacl" => ~Undone BY DEF Undone, Calls
<1>1. CASE StartRestore
  <2>1. job'.staged = <<>> /\ ~job'.skipped /\ job'.at = 1 BY <1>1 DEF StartRestore, Start, NoJob
  <2>2. ~Calls /\ ~Calls' BY <1>1, <1>01
  <2> QED BY <1>02, <1>1, <2>1, <2>2, SaclsFramed DEF StartRestore, Start
<1>2. CASE SaclsDone
  <2>1. job.at = 1 /\ job.at > Len(saclRows) BY <1>2 DEF SaclsDone, AllDone, SaclsCalm
  <2>2. saclRows = <<>> BY <2>1, Elements
  <2>3. /\ job'.staged = job.staged /\ job'.saved = job.saved /\ ~job'.skipped /\ job'.at = 1
    BY <1>0, <1>2 DEF SaclsDone, AllDone, Job
  <2>4. ~Calls /\ ~Calls' BY <1>2, <1>01
  <2> QED BY <1>02, <1>2, <2>2, <2>3, <2>4, SaclsFramed DEF SaclsDone, AllDone
<1>3. CASE PoliciesDone
  <2>1. /\ job'.staged = job.staged /\ job'.saved = job.saved /\ ~job'.skipped
    BY <1>0, <1>3 DEF PoliciesDone, AllDone, Job
  <2>2. saclRows = <<>> BY <1>3 DEF PoliciesDone, AllDone, SaclsCalm
  <2>3. ~Calls /\ ~Calls' BY <1>3, <1>01
  <2> QED BY <1>02, <1>3, <2>1, <2>2, <2>3, SaclsFramed DEF PoliciesDone, AllDone
<1>4. CASE RestorePolicy \/ DisablePolicy \/ CheckPolicy \/ RetirePolicy \/ UnlinkScript \/ RetireTask
  <2>1. /\ pc \in Restoring \ {"sacls", "retiresacl", "tasks"}
        /\ pc' \in Restoring \ {"sacls", "retiresacl"} /\ UNCHANGED <<saclVars, disturbed, job>>
    BY <1>4, NoConflict DEF RestorePolicy, DisablePolicy, CheckPolicy, RetirePolicy, UnlinkScript,
       RetireTask
  <2>2. saclRows = <<>> /\ job.at = 1 BY <2>1 DEF SaclsCalm
  <2>3. ~Calls /\ ~Calls' BY <1>4, <1>01
  <2> QED BY <1>0, <1>02, <2>1, <2>2, <2>3, SaclsFramed
<1>5. CASE DeleteTask
  <2>1. pc = "tasks" /\ UNCHANGED <<saclVars, disturbed>> BY <1>5 DEF DeleteTask
  <2>2. saclRows = <<>> BY <2>1 DEF SaclsCalm
  <2>0. ~Calls /\ ~Calls' BY <1>5, <1>01
  <2>3. CASE pc' = "unlink"
    <3>1. job.at = 1 /\ UNCHANGED job BY <1>5, <2>3, NoConflict
    <3> QED BY <1>0, <1>02, <2>0, <2>1, <2>2, <2>3, <3>1, SaclsFramed
  <2>4. CASE pc' # "unlink"
    <3>1. /\ pc' = "tasks" /\ job'.staged = job.staged /\ job'.saved = job.saved /\ ~job'.skipped
      BY <1>0, <1>5, <2>4, NoConflict
    <3> QED BY <1>02, <2>0, <2>1, <2>2, <3>1, SaclsFramed
  <2> QED BY <2>3, <2>4
<1>6. CASE TasksDone
  <2>1. pc = "tasks" /\ pc' = "idle" /\ job' = NoJob /\ UNCHANGED <<saclVars, disturbed>>
    BY <1>6 DEF TasksDone, End
  <2>2. saclRows = <<>> BY <2>1 DEF SaclsCalm
  <2>3. job'.staged = <<>> /\ ~job'.skipped BY <2>1 DEF NoJob
  <2>4. ~Calls /\ ~Calls' BY <1>6, <1>01
  <2> QED BY <1>02, <2>1, <2>2, <2>3, <2>4, SaclsFramed
<1>7. CASE RestoreSacl \/ RestoredSacl \/ (SetExactSacl /\ pc = "sacls") BY <1>7, SaclsRestore
<1>8. CASE RetireSacl BY <1>8, SaclsRetire
<1> QED BY <1>1, <1>2, <1>3, <1>4, <1>5, <1>6, <1>7, <1>8 DEF CalmRestore

\* Nothing is left without the only element.
LEMMA OneLess ==
    ASSUME NEW S, NEW s \in Seq(S), NEW t \in Seq(S), Len(t) = Len(s) - 1
    PROVE  t = <<>> <=> ~(1 < Len(s))
<1>1. Len(s) \in Nat /\ Len(t) \in Nat OBVIOUS
<1>2. t = <<>> <=> Len(t) = 0
  <2>1. t = <<>> => Len(t) = 0 OBVIOUS
  <2>2. Len(t) = 0 => t = <<>> OBVIOUS
  <2> QED BY <2>1, <2>2
<1>3. Len(t) = 0 <=> ~(1 < Len(s)) BY <1>1
<1> QED BY <1>2, <1>3

\* Steps that leave the audit policy and its rows alone.
LEMMA PolicyFramed ==
    ASSUME PolicyCalm, UNCHANGED <<policyVars, found>>,
           pc \notin {"verify", "checkpolicy", "retirepolicy"},
           pc' \notin {"enable", "verify", "disable", "checkpolicy", "retirepolicy"},
           Restored' \/ pc' \in {"tasks", "unlink", "retiretask"} => policyRows = <<>>
    PROVE  PolicyCalm'
BY DEF PolicyCalm, policyVars

LEMMA PolicySetup ==
    ASSUME RowsHonest, PolicyCalm, CalmSetup \/ CalmWatcher
    PROVE  PolicyCalm'
<1> USE DEF Restored, saclVars, accessVars, taskVars, winVars, Quiet, History, At, Set
<1>1. CASE \E w \in BOOLEAN : StartSetup(w)
  <2>1. pc = "idle" /\ pc' = "capture" /\ UNCHANGED <<policyVars, found>>
    BY <1>1 DEF StartSetup, Start
  <2> QED BY <2>1, PolicyFramed
<1>2. CASE CapturePolicy
  <2>1. /\ pc = "capture" /\ pc' = "enable" /\ UNCHANGED <<policy, policyRows, found>>
        /\ job' = [job EXCEPT !.policy = policy]
    BY <1>2 DEF CapturePolicy, policyVars
  <2>2. job'.policy = policy
    <3>1. job \in Job BY DEF RowsHonest
    <3> QED BY <2>1, <3>1 DEF Job
  <2> QED BY <2>1, <2>2 DEF PolicyCalm
<1>3. CASE EnablePolicy
  <2>1. /\ pc = "enable" /\ pc' = "verify" /\ UNCHANGED <<policyRows, found, job>>
        /\ policy' = policy \cup {"success"}
    BY <1>3 DEF EnablePolicy
  <2>2. policy' = {"success"} BY <2>1 DEF PolicyCalm
  <2> QED BY <2>1, <2>2 DEF PolicyCalm
<1>4. CASE RecordPolicy
  <2> DEFINE e == [included |-> "success" \in job.policy, after |-> policy]
             S == [included : BOOLEAN, after : Policy]
  <2>1. /\ pc = "verify" /\ pc' = "readable" /\ policyRows' = <<e>> \o policyRows
        /\ UNCHANGED <<policy, found, job>>
    BY <1>4 DEF RecordPolicy
  <2>2. /\ policy = {"success"} /\ e.after = policy /\ e.included = ("success" \in job.policy)
        /\ job.policy = IF policyRows = <<>> THEN found.policy ELSE {"success"}
    BY <2>1 DEF PolicyCalm
  <2>3. e \in S /\ policyRows \in Seq(S) BY DEF RowsHonest, PolicyCalm
  <2> HIDE DEF e, S
  <2>4. policyRows' \in Seq(S) /\ Len(policyRows') = Len(policyRows) + 1 /\ Len(policyRows) \in Nat
    BY <2>1, <2>3, Prepended
  <2>5. /\ policyRows'[1] = e
        /\ \A j \in DOMAIN policyRows' :
              j = 1 \/ (j - 1 \in DOMAIN policyRows /\ policyRows'[j] = policyRows[j - 1])
    BY <2>1, <2>3, PrependedAt
  <2>6. policyRows' # <<>> /\ DOMAIN policyRows' \subseteq Nat BY <2>4
  <2>7. ASSUME NEW j \in DOMAIN policyRows'
        PROVE  /\ policyRows'[j].after = {"success"}
               /\ policyRows'[j].included <=> j < Len(policyRows') \/ "success" \in found.policy
    <3>1. CASE j = 1
      <4>1. CASE policyRows = <<>>
        <5>1. Len(policyRows') = 1 BY <2>4, <4>1
        <5>2. ~(j < Len(policyRows')) BY <3>1, <5>1
        <5>3. policyRows'[j].after = {"success"} BY <2>2, <2>5, <3>1
        <5>4. policyRows'[j].included = ("success" \in found.policy) BY <2>2, <2>5, <3>1, <4>1
        <5> QED BY <5>2, <5>3, <5>4
      <4>2. CASE policyRows # <<>>
        <5>1. Len(policyRows) # 0 BY <2>3, <4>2
        <5>2. 1 < Len(policyRows') BY <2>4, <5>1
        <5> QED BY <2>2, <2>5, <3>1, <4>2, <5>2
      <4> QED BY <4>1, <4>2
    <3>2. CASE j # 1
      <4>1. j - 1 \in DOMAIN policyRows /\ policyRows'[j] = policyRows[j - 1] BY <2>5, <3>2
      <4>2. j < Len(policyRows') <=> j - 1 < Len(policyRows) BY <2>4, <2>6
      <4> QED BY <4>1, <4>2 DEF PolicyCalm
    <3> QED BY <3>1, <3>2
  <2> QED BY <2>1, <2>2, <2>4, <2>6, <2>7 DEF PolicyCalm, S
<1>5. CASE NotVerified BY <1>5 DEF NotVerified, PolicyCalm
<1>6. CASE SecurityLogReadable \/ RecordSacl \/ SetFsutil \/ RegisterTask
  <2>1. /\ pc \in {"readable", "save", "offer", "register"} /\ UNCHANGED <<policyVars, found>>
        /\ pc' \in {"apply", "save", "offer", "recordaccess", "recordtask"}
    BY <1>6 DEF SecurityLogReadable, RecordSacl, SetFsutil, RegisterTask
  <2> QED BY <2>1, PolicyFramed
<1>7. CASE SkipFsutil \/ RecordFsutil
  <2>1. /\ pc \in {"offer", "recordaccess"} /\ UNCHANGED <<policyVars, found>>
        /\ pc' = "script" \/ (pc' = "idle" /\ outcome' = "configured")
    BY <1>7 DEF SkipFsutil, RecordFsutil, Configured, End
  <2> QED BY <2>1, PolicyFramed
<1>8. CASE ScriptRefused \/ RecordTask
  <2>1. /\ pc \in {"script", "recordtask"} /\ UNCHANGED <<policyVars, found>>
        /\ pc' = "idle" /\ outcome' = "configured"
    BY <1>8 DEF ScriptRefused, RecordTask, End
  <2> QED BY <2>1, PolicyFramed
<1>9. CASE \E body \in Bodies : WriteScript(body)
  <2>1. pc = "script" /\ pc' = "register" /\ UNCHANGED <<policyVars, found>>
    BY <1>9 DEF WriteScript
  <2> QED BY <2>1, PolicyFramed
<1>10. CASE SetAcl \/ GetAclAfter \/ \E c \in Canaries : GetAcl(c)
  <2>1. /\ pc = "apply" /\ pc' \in {"apply", "rollback", "save"} /\ UNCHANGED <<policyVars, found>>
    BY <1>10 DEF GetAcl, SetAcl, GetAclAfter, NextCanary
  <2> QED BY <2>1, PolicyFramed
<1> QED BY <1>1, <1>2, <1>3, <1>4, <1>5, <1>6, <1>7, <1>8, <1>9, <1>10 DEF CalmSetup, CalmWatcher

LEMMA PolicyRestoring ==
    ASSUME RowsHonest, Scripted, SaclsCalm, PolicyCalm, TaskCalm, CalmRestore
    PROVE  PolicyCalm'
<1> USE DEF Restored, saclVars, accessVars, taskVars, winVars, Quiet, History, At, Set, Row
<1> DEFINE S == [included : BOOLEAN, after : Policy]
<1>0. policyRows \in Seq(S) /\ Len(policyRows) \in Nat /\ DOMAIN policyRows = 1 .. Len(policyRows)
  BY DEF PolicyCalm
<1> HIDE DEF S
<1>1. CASE \/ StartRestore \/ RestoreSacl \/ (SetExactSacl /\ pc = "sacls") \/ RestoredSacl
         \/ RetireSacl \/ SaclsDone
  <2>1. /\ pc \in {"idle", "sacls", "retiresacl"} /\ UNCHANGED <<policyVars, found>>
        /\ pc' \in {"sacls", "retiresacl", "policies"}
    BY <1>1 DEF StartRestore, Start, RestoreSacl, SetExactSacl, RestoredSacl, RetireSacl,
       SaclsDone, AllDone, Keep
  <2> QED BY <2>1, PolicyFramed
<1>2. CASE RestorePolicy
  <2>1. /\ pc' \in {"disable", "retirepolicy"} /\ policyRows # <<>> /\ policy = {"success"}
        /\ pc' = IF policyRows[1].included THEN "retirepolicy" ELSE "disable"
    BY <1>2, NoConflict
  <2>2. UNCHANGED <<policy, policyRows, found>> BY <1>2 DEF RestorePolicy, policyVars
  <2>3. (pc' = "disable" => ~policyRows[1].included) /\ (pc' = "retirepolicy" => policyRows[1].included)
    BY <2>1
  <2>4. pc' \notin {"checkpolicy", "enable", "verify", "tasks", "unlink", "retiretask", "idle"}
    BY <2>1
  <2>5. pc' = "retirepolicy" => policy = IF policyRows[1].included THEN {"success"} ELSE {}
    BY <2>1, <2>3
  <2> QED BY <2>1, <2>2, <2>3, <2>4, <2>5 DEF PolicyCalm
<1>3. CASE DisablePolicy
  <2>1. /\ pc = "disable" /\ pc' = "checkpolicy" /\ UNCHANGED <<policyRows, found>>
        /\ policy' = policy \ {"success"}
    BY <1>3 DEF DisablePolicy
  <2>2. policyRows # <<>> /\ ~policyRows[1].included /\ policy' = {} BY <2>1 DEF PolicyCalm
  <2> QED BY <2>1, <2>2 DEF PolicyCalm
<1>4. CASE CheckPolicy
  <2>1. pc = "checkpolicy" /\ pc' = "retirepolicy" /\ UNCHANGED <<policy, policyRows, found>>
    BY <1>4, NoConflict DEF CheckPolicy, policyVars
  <2>2. policyRows # <<>> /\ ~policyRows[1].included /\ policy = {} BY <2>1 DEF PolicyCalm
  <2>3. policy' = IF policyRows'[1].included THEN {"success"} ELSE {} BY <2>1, <2>2
  <2> QED BY <2>1, <2>2, <2>3 DEF PolicyCalm
<1>5. CASE RetirePolicy
  <2>1. /\ pc = "retirepolicy" /\ pc' = "policies" /\ policyRows' = RemoveAt(policyRows, job.at)
        /\ UNCHANGED <<policy, found>>
    BY <1>5 DEF RetirePolicy
  <2>2. job.at = 1 BY <2>1 DEF SaclsCalm, Restoring
  <2>3. policyRows # <<>> /\ policy = IF policyRows[1].included THEN {"success"} ELSE {}
    BY <2>1 DEF PolicyCalm
  <2>4. 1 \in 1 .. Len(policyRows)
    <3>1. Len(policyRows) # 0 BY <1>0, <2>3
    <3> QED BY <1>0, <3>1
  <2>5. policyRows' \in Seq(S) /\ Len(policyRows') = Len(policyRows) - 1
    BY <1>0, <2>1, <2>2, <2>4, Removed
  <2>6. DOMAIN policyRows' \subseteq Nat \ {0} BY <2>5
  <2>7. \A j \in DOMAIN policyRows' : j + 1 \in DOMAIN policyRows /\ policyRows'[j] = policyRows[j + 1]
    <3>1. \A j \in DOMAIN policyRows' : ~(j < 1) BY <2>6
    <3> QED BY <1>0, <2>1, <2>2, <2>4, <3>1, RemovedAt
  <2>8. ASSUME NEW j \in DOMAIN policyRows'
        PROVE  /\ policyRows'[j].after = {"success"}
               /\ policyRows'[j].included <=> j < Len(policyRows') \/ "success" \in found.policy
    <3>1. j < Len(policyRows') <=> j + 1 < Len(policyRows) BY <1>0, <2>5, <2>6
    <3> QED BY <2>7, <3>1 DEF PolicyCalm
  <2>9. policyRows[1].included <=> 1 < Len(policyRows) \/ "success" \in found.policy
    BY <2>4, <1>0 DEF PolicyCalm
  <2>10. policyRows' # <<>> => policy = {"success"}
    <3>2. policyRows' # <<>> => 1 < Len(policyRows) BY <1>0, <2>5, OneLess
    <3> QED BY <2>3, <2>9, <3>2
  <2>11. policyRows' = <<>> => policy = found.policy
    <3>1. policyRows' = <<>> => ~(1 < Len(policyRows)) BY <1>0, <2>5, OneLess
    <3>2. found.policy \in SUBSET {"success"} BY DEF PolicyCalm
    <3>3. "success" \in found.policy => found.policy = {"success"} BY <3>2
    <3>4. "success" \notin found.policy => found.policy = {} BY <3>2
    <3> QED BY <2>3, <2>9, <3>1, <3>3, <3>4
  <2>12. found.policy \in SUBSET {"success"} BY DEF PolicyCalm
  <2> QED BY <2>1, <2>5, <2>8, <2>10, <2>11, <2>12 DEF PolicyCalm, S
<1>6. CASE PoliciesDone
  <2>1. /\ pc = "policies" /\ pc' = "tasks" /\ job.at > Len(policyRows) /\ UNCHANGED <<policyVars, found>>
    BY <1>6 DEF PoliciesDone, AllDone
  <2>2. job.at = 1 BY <2>1 DEF SaclsCalm, Restoring
  <2>3. policyRows = <<>>
    <3>1. Len(policyRows) = 0 BY <1>0, <2>1, <2>2
    <3> QED BY <1>0, <3>1
  <2> QED BY <2>1, <2>3, PolicyFramed
<1>7. CASE DeleteTask \/ UnlinkScript \/ RetireTask \/ TasksDone
  <2>1. /\ pc \in {"tasks", "unlink", "retiretask"} /\ UNCHANGED <<policyVars, found>>
        /\ pc' \in {"tasks", "unlink", "retiretask", "idle"}
    BY <1>7 DEF DeleteTask, UnlinkScript, RetireTask, TasksDone, End, Keep
  <2>2. policyRows = <<>> BY <2>1 DEF PolicyCalm
  <2> QED BY <2>1, <2>2, PolicyFramed
<1> QED BY <1>1, <1>2, <1>3, <1>4, <1>5, <1>6, <1>7 DEF CalmRestore

\* Steps that leave script, task and their rows alone.
LEMMA TaskFramed ==
    ASSUME TaskCalm, UNCHANGED <<taskVars, found>>,
           pc \notin {"register", "recordtask", "tasks", "unlink", "retiretask"},
           pc' \notin {"register", "recordtask", "unlink", "retiretask"},
           pc' = "tasks" => job'.at = 1,
           pc' = "idle" => outcome' # "restored"
    PROVE  TaskCalm'
BY DEF TaskCalm, taskVars, AsFound, Installed, Restored

LEMMA TaskWatcher ==
    ASSUME RowsHonest, Scripted, TaskCalm, CalmWatcher
    PROVE  TaskCalm'
<1> USE DEF saclVars, policyVars, accessVars, winVars, Quiet, History, At
<1>1. CASE ScriptRefused
  <2>1. /\ pc = "script" /\ pc' = "idle" /\ outcome' = "configured" /\ UNCHANGED <<taskVars, found>>
    BY <1>1 DEF ScriptRefused, End
  <2> QED BY <2>1, TaskFramed
<1>2. CASE \E body \in Bodies : WriteScript(body)
  <2>1. PICK body \in Bodies : WriteScript(body) BY <1>2
  <2>2. /\ script = "absent" \/ taskRows # <<>>
        /\ pc = "script" /\ pc' = "register" /\ script' = body
        /\ UNCHANGED <<task, taskRows, found>>
        /\ job' = [job EXCEPT !.body = body, !.previous = script]
    BY <2>1 DEF WriteScript, MayWrite
  <2>3. job'.body = body
    <3>1. job \in Job BY DEF RowsHonest
    <3> QED BY <2>2, <3>1 DEF Job
  <2>4. found.script = "absent"
    <3>1. CASE taskRows # <<>> BY <3>1 DEF TaskCalm
    <3>2. CASE taskRows = <<>> BY <2>2, <3>2 DEF TaskCalm, AsFound, Installed
    <3> QED BY <3>1, <3>2
  <2> QED BY <2>2, <2>3, <2>4 DEF TaskCalm, Restored
<1>3. CASE RegisterTask
  <2>1. /\ pc = "register" /\ pc' = "recordtask" /\ task' = "ours"
        /\ UNCHANGED <<script, taskRows, found, job>>
    BY <1>3 DEF RegisterTask
  <2> QED BY <2>1 DEF TaskCalm, Restored
<1>4. CASE RecordTask
  <2>1. /\ pc = "recordtask" /\ pc' = "idle" /\ outcome' = "configured"
        /\ taskRows' = <<job.body>> \o taskRows /\ UNCHANGED <<script, task, found>>
    BY <1>4 DEF RecordTask, End
  <2>2. script = job.body /\ job.body \in Bodies /\ task = "ours" BY <2>1 DEF TaskCalm
  <2>3. taskRows \in Seq(Bodies) BY DEF Scripted
  <2>4. Len(taskRows') = Len(taskRows) + 1 /\ Len(taskRows) \in Nat /\ taskRows'[1] = job.body
    BY <2>1, <2>2, <2>3, Prepended, PrependedAt
  <2>5. taskRows' # <<>> BY <2>4
  <2> QED BY <2>1, <2>2, <2>4, <2>5 DEF TaskCalm, Restored, Installed, AsFound
<1> QED BY <1>1, <1>2, <1>3, <1>4 DEF CalmWatcher

LEMMA TaskRestoring ==
    ASSUME RowsHonest, Scripted, SaclsCalm, PolicyCalm, TaskCalm, CalmRestore
    PROVE  TaskCalm'
<1> USE DEF saclVars, policyVars, accessVars, winVars, Quiet, History, At, Row, Set
<1>0. job \in Job /\ taskRows \in Seq(Bodies) BY DEF RowsHonest, Scripted
<1>1. CASE \/ StartRestore \/ RestoreSacl \/ (SetExactSacl /\ pc = "sacls") \/ RestoredSacl
         \/ RetireSacl \/ SaclsDone
  <2>1. /\ pc \in {"idle", "sacls", "retiresacl"} /\ UNCHANGED <<taskVars, found>>
        /\ pc' \in {"sacls", "retiresacl", "policies"}
    BY <1>1 DEF StartRestore, Start, RestoreSacl, SetExactSacl, RestoredSacl, RetireSacl,
       SaclsDone, AllDone, Keep
  <2> QED BY <2>1, TaskFramed
<1>2. CASE RestorePolicy \/ DisablePolicy \/ CheckPolicy \/ RetirePolicy
  <2>1. /\ pc \in {"policies", "disable", "checkpolicy", "retirepolicy"}
        /\ pc' \in {"policies", "disable", "checkpolicy", "retirepolicy"}
        /\ UNCHANGED <<taskVars, found>>
    BY <1>2 DEF RestorePolicy, DisablePolicy, CheckPolicy, RetirePolicy, Keep
  <2> QED BY <2>1, TaskFramed
<1>3. CASE PoliciesDone
  <2>1. /\ pc = "policies" /\ pc' = "tasks" /\ UNCHANGED <<taskVars, found>>
        /\ job' = [job EXCEPT !.at = 1]
    BY <1>3 DEF PoliciesDone, AllDone
  <2>2. job'.at = 1 BY <1>0, <2>1 DEF Job
  <2> QED BY <2>1, <2>2, TaskFramed
<1>4. CASE DeleteTask
  <2>1. /\ pc = "tasks" /\ task' = "absent" /\ UNCHANGED <<script, taskRows, found>>
    BY <1>4 DEF DeleteTask
  <2>2. CASE pc' = "unlink"
    <3>1. Installed BY <1>4, <2>2, NoConflict
    <3> QED BY <2>1, <2>2, <3>1 DEF TaskCalm, Installed, Restored
  <2>3. CASE pc' # "unlink"
    <3>1. pc' = "tasks" /\ AsFound BY <1>4, <2>3, NoConflict
    <3> QED BY <2>1, <3>1 DEF TaskCalm, AsFound, Restored
  <2> QED BY <2>2, <2>3
<1>5. CASE UnlinkScript
  <2>1. pc' = "retiretask" /\ script' = "absent" BY <1>5, NoConflict
  <2>2. pc = "unlink" /\ UNCHANGED <<task, taskRows, found>> BY <1>5 DEF UnlinkScript
  <2> QED BY <2>1, <2>2 DEF TaskCalm, AsFound, Restored
<1>6. CASE RetireTask
  <2>1. pc = "retiretask" /\ pc' = "tasks" /\ UNCHANGED <<script, task, found>>
    BY <1>6 DEF RetireTask
  <2> QED BY <2>1 DEF TaskCalm, AsFound, Restored
<1>7. CASE TasksDone
  <2>1. /\ pc = "tasks" /\ pc' = "idle" /\ job.at > Len(taskRows) /\ UNCHANGED <<taskVars, found>>
    BY <1>7 DEF TasksDone, End
  <2>2. AsFound
    <3>1. job.at = 1 => taskRows = <<>> BY <1>0, <2>1
    <3> QED BY <2>1, <3>1 DEF TaskCalm, Installed
  <2> QED BY <2>1, <2>2 DEF TaskCalm, AsFound, taskVars
<1> QED BY <1>1, <1>2, <1>3, <1>4, <1>5, <1>6, <1>7 DEF CalmRestore

LEMMA UndisturbedStep ==
    ASSUME RowsHonest, Traced, Scripted, Undisturbed, trouble \in Nat, acts \in Nat, [Next]_vars
    PROVE  Undisturbed'
<1> SUFFICES ASSUME Calm' PROVE (SaclsCalm /\ PolicyCalm /\ TaskCalm)' BY DEF Undisturbed
<1>1. CASE UNCHANGED vars
  <2>1. Calm BY <1>1 DEF Calm, vars, boundVars
  <2>2. SaclsCalm /\ PolicyCalm /\ TaskCalm BY <2>1 DEF Undisturbed
  <2>3. UNCHANGED <<sacl, saclRows, policy, policyRows, script, task, taskRows, found, disturbed, pc,
                    job, outcome>>
    BY <1>1 DEF vars, winVars, saclVars, policyVars, taskVars
  <2>4. Applied' = Applied /\ Undone' = Undone BY <2>3 DEF Applied, Undone
  <2>5. SaclsCalm' BY <2>2, <2>3, <2>4 DEF SaclsCalm, Restored
  <2>6. PolicyCalm' BY <2>2, <2>3 DEF PolicyCalm, Restored
  <2>7. TaskCalm' BY <2>2, <2>3 DEF TaskCalm, AsFound, Installed, Restored
  <2> QED BY <2>5, <2>6, <2>7
<1>2. CASE Next
  <2>1. Calm /\ (CalmSetup \/ CalmWatcher \/ CalmRestore) BY <1>2, CalmSteps
  <2>2. SaclsCalm /\ PolicyCalm /\ TaskCalm BY <2>1 DEF Undisturbed
  <2>3. CASE CalmSetup
    <3>1. Setup BY <2>3 DEF CalmSetup, Setup
    <3>2. /\ UNCHANGED <<taskVars, found>> /\ pc' \notin {"register", "recordtask", "unlink", "retiretask", "tasks"}
          /\ pc \notin {"register", "recordtask", "tasks", "unlink", "retiretask"}
          /\ pc' = "idle" => outcome' # "restored"
      BY <3>1, SetupLeaves DEF Stages, Begun
    <3>3. TaskCalm' BY <2>2, <3>2, TaskFramed
    <3> QED BY <2>2, <2>3, <3>3, SaclsSetup, PolicySetup
  <2>4. CASE CalmWatcher BY <2>2, <2>4, SaclsSetup, PolicySetup, TaskWatcher
  <2>5. CASE CalmRestore BY <2>2, <2>5, SaclsRestoring, PolicyRestoring, TaskRestoring
  <2> QED BY <2>1, <2>3, <2>4, <2>5
<1> QED BY <1>1, <1>2

LEMMA UndisturbedInit == Init => Undisturbed
<1> SUFFICES ASSUME Init PROVE SaclsCalm /\ PolicyCalm /\ TaskCalm BY DEF Undisturbed
<1>1. /\ saclRows = <<>> /\ policyRows = <<>> /\ taskRows = <<>> /\ disturbed = {} /\ pc = "idle"
      /\ outcome = "none" /\ Applied = <<>> /\ ~job.skipped
      /\ found.policy = policy /\ found.task = task /\ found.script = script
      /\ policy \in SUBSET {"success"} /\ task = "absent" /\ script \in {"absent", "user"}
  BY DEF Init, NoJob, Applied
<1>2. DOMAIN saclRows = {} /\ DOMAIN policyRows = {} /\ DOMAIN Applied = {} BY <1>1
<1>3. policyRows \in Seq([included : BOOLEAN, after : Policy]) BY <1>1
<1>4. SaclsCalm BY <1>1, <1>2 DEF SaclsCalm, Restoring, Restored
<1>5. PolicyCalm BY <1>1, <1>2, <1>3 DEF PolicyCalm, Restored
<1>6. TaskCalm BY <1>1 DEF TaskCalm, AsFound, Restored
<1> QED BY <1>4, <1>5, <1>6
-----------------------------------------------------------------------------
(* The invariants of the runs. *)

Invariant == RowsHonest /\ Traced /\ Scripted /\ Undisturbed /\ trouble \in Nat /\ acts \in Nat

\* What every state of Windows, of the command and of managed_changes satisfies,
\* whatever failed, died or was changed by an administrator on the way.
THEOREM SpecInvariant == Spec => []Invariant
<1>1. Init => Invariant
  BY RowsHonestInit, TracedInit, ScriptedInit, UndisturbedInit DEF Init, Invariant
<1>2. Invariant /\ [Next]_vars => Invariant'
  <2> SUFFICES ASSUME Invariant, [Next]_vars PROVE Invariant' OBVIOUS
  <2>1. RowsHonest' /\ acts' \in Nat BY Stepped DEF Invariant
  <2>2. Traced' BY TracedStep DEF Invariant
  <2>3. Scripted' BY ScriptedStep DEF Invariant
  <2>4. Undisturbed' BY UndisturbedStep DEF Invariant
  <2>5. trouble' \in Nat
    <3>1. trouble' = trouble \/ trouble' = trouble + 1
      BY TroubleCounted DEF vars, boundVars
    <3> QED BY <3>1 DEF Invariant
  <2> QED BY <2>1, <2>2, <2>3, <2>4, <2>5 DEF Invariant
<1> QED BY <1>1, <1>2, PTL DEF Spec

\* Between two commands every ACE of Honeypath's and the watcher script have a row in
\* managed_changes, except what a failed or killed call left unknown or others changed.
THEOREM SpecChangesRecorded == Spec => []ChangesRecorded
<1>1. Invariant => ChangesRecorded
  <2> SUFFICES ASSUME Invariant PROVE ChangesRecorded OBVIOUS
  <2>1. ASSUME pc = "idle", NEW c \in Canaries \ disturbed, "ours" \in sacl[c]
        PROVE  RowsOf(c) # {}
    <3>1. Sound(c) /\ Tidy BY DEF Invariant, Traced
    <3>2. DOMAIN Applied = {} BY <2>1, <3>1 DEF Tidy
    <3>3. sacl[c] = {"ours"} /\ Staged(c) = {} BY <2>1, <3>1, <3>2 DEF Sound, Staged
    <3> QED BY <3>1, <3>3 DEF Sound
  <2>2. ScriptRecorded BY DEF Invariant, Scripted, Unsettled, ScriptRecorded
  <2> QED BY <2>1, <2>2 DEF ChangesRecorded, AceRecorded
<1> QED BY <1>1, SpecInvariant, PTL

\* setup_windows_audit audits every canary or puts each of them back, with the same
\* exceptions.
THEOREM SpecAllOrNothing == Spec => []SetupAllOrNothing
<1>1. Invariant => SetupAllOrNothing
  BY DEF Invariant, Traced, Sound, SetupAllOrNothing
<1> QED BY <1>1, SpecInvariant, PTL

\* After any number of setups and interrupted restores, the rows of a canary lead back
\* to the SACL that the first setup found.
THEOREM SpecStillRestorable == Spec => []StillRestorable
<1>1. Invariant => StillRestorable
  <2> SUFFICES ASSUME Invariant, pc = "idle", NEW c \in Canaries \ disturbed,
                      sacl[c] # found.sacl[c]
               PROVE  /\ \A i \in RowsOf(c) :
                            /\ saclRows[i].after = sacl[c]
                            /\ saclRows[i].original \in {sacl[c], found.sacl[c]}
                      /\ \E i \in RowsOf(c) : saclRows[i].original = found.sacl[c]
    BY DEF StillRestorable
  <2>1. Sound(c) /\ Tidy /\ found.sacl[c] = {} BY DEF Invariant, Traced
  <2>2. sacl[c] = {"ours"} BY <2>1 DEF Sound
  <2>3. DOMAIN Applied = {} BY <2>1 DEF Tidy
  <2>4. Staged(c) = {} BY <2>3 DEF Staged
  <2>5. \A i \in RowsOf(c) : Clean(saclRows[i]) BY <2>1 DEF Sound
  <2>6. \E i \in RowsOf(c) : saclRows[i].original = {} BY <2>1, <2>2, <2>4 DEF Sound
  <2> QED BY <2>1, <2>2, <2>5, <2>6 DEF Clean
<1> QED BY <1>1, SpecInvariant, PTL

\* A restore_windows_audit that nothing disturbed leaves Windows as it was found, and
\* no SACL or policy row.
THEOREM SpecCleanRestore == Spec => []CleanRestore
<1>1. Invariant => CleanRestore
  <2> SUFFICES ASSUME Invariant, Calm, Restored
               PROVE  /\ sacl = found.sacl /\ policy = found.policy
                      /\ task = found.task /\ script = found.script
                      /\ saclRows = <<>> /\ policyRows = <<>>
    BY DEF CleanRestore, Calm, Restored
  <2>1. SaclsCalm /\ PolicyCalm /\ TaskCalm BY DEF Invariant, Undisturbed
  <2>2. saclRows = <<>> /\ policyRows = <<>> /\ disturbed = {} /\ pc = "idle"
    BY <2>1 DEF SaclsCalm, PolicyCalm, Restored
  <2>3. policy = found.policy BY <2>1, <2>2 DEF PolicyCalm
  <2>4. task = found.task /\ script = found.script BY <2>1 DEF TaskCalm, AsFound
  <2>5. Tidy /\ found.sacl = [c \in Canaries |-> {}] /\ sacl \in [Canaries -> Sacl]
    BY DEF Invariant, Traced, RowsHonest
  <2>6. DOMAIN Applied = {} /\ DOMAIN saclRows = {} BY <2>2, <2>5 DEF Tidy
  <2>7. ASSUME NEW c \in Canaries PROVE sacl[c] = {}
    <3>1. Sound(c) BY <2>2 DEF Invariant, Traced
    <3>2. Staged(c) = {} /\ RowsOf(c) = {} BY <2>6 DEF Staged, RowsOf
    <3> QED BY <3>1, <3>2 DEF Sound
  <2>8. sacl = found.sacl BY <2>5, <2>7
  <2> QED BY <2>2, <2>3, <2>4, <2>8
<1> QED BY <1>1, SpecInvariant, PTL

-----------------------------------------------------------------------------
(* Types. *)

PolicyRow == [included : BOOLEAN, after : Policy]
Disturbable == Canaries \cup {"script"}

\* What TypeOK says and the invariants above do not.
Typed ==
    /\ access \in {"found", "zero"} /\ task \in {"absent", "ours"}
    /\ policyRows \in Seq(PolicyRow) /\ accessRows \in Seq({"found"})
    /\ pc \in {"disable", "checkpolicy", "retirepolicy"} => job.at <= Len(policyRows)
    /\ outcome \in {"none", "refused", "configured", "restored", "died"}
    /\ before \in [Canaries -> Sacl] /\ disturbed \subseteq Disturbable

Bounded == runs \in 0 .. MaxRuns /\ trouble \in Nat /\ acts \in Nat /\ trouble + acts <= MaxTrouble

LEMMA BoundedStep == ASSUME Bounded, [Next]_vars PROVE Bounded'
<1> DEFINE Steady == UNCHANGED boundVars
           Wrong == trouble + acts < MaxTrouble /\ trouble' = trouble + 1 /\ UNCHANGED <<runs, acts>>
           Outside == trouble + acts < MaxTrouble /\ acts' = acts + 1 /\ UNCHANGED <<runs, trouble>>
           Another == runs < MaxRuns /\ runs' = runs + 1 /\ UNCHANGED <<trouble, acts>>
<1>1. Steady \/ Wrong \/ Outside \/ Another
  <2> USE DEF boundVars, Quiet, Trouble
  <2>1. CASE Setup
    BY <2>1 DEF Setup, CapturePolicy, EnablePolicy, RecordPolicy, NotVerified, SecurityLogReadable,
       PolicyFails, RollBack, RollBackVerified, RollBackFails, RolledBack, RecordSacl,
       RecordSaclFails, DropRow, RowsDropped, SkipFsutil, SetFsutil, RecordFsutil, StartSetup, Start,
       GetAcl, SetAcl, GetAclAfter, ApplyFails, NotConverted
  <2>2. CASE Watcher
    BY <2>2 DEF Watcher, ScriptRefused, RegisterTask, RegisterFails, RecordTask, RecordTaskFails,
       Unregister, RollBackScript, RollBackScriptFails, WriteScript
  <2>3. CASE Restore
    BY <2>3 DEF Restore, StartRestore, Start, RestoreSacl, RestoredSacl, RestoreSaclFails,
       RetireSacl, SaclsDone, AllDone, RestorePolicy, DisablePolicy, CheckPolicy, RestorePolicyFails, RetirePolicy,
       PoliciesDone, DeleteTask, DeleteTaskFails, UnlinkScript, RetireTask, TasksDone
  <2>4. CASE Die \/ SetExactSacl BY <2>4 DEF Die, SetExactSacl
  <2>5. CASE Admin BY <2>5 DEF Admin, AdminPolicy, UserScript, UserTask, AdminSacl, Act
  <2>6. CASE UNCHANGED vars BY <2>6 DEF vars
  <2> QED BY <2>1, <2>2, <2>3, <2>4, <2>5, <2>6 DEF Next
<1>2. MaxRuns \in Nat /\ MaxTrouble \in Nat BY WinSetupAssumption
<1>3. runs \in Int /\ trouble \in Nat /\ acts \in Nat BY DEF Bounded
<1>4. CASE Steady BY <1>4 DEF Bounded, boundVars
<1>5. CASE Wrong BY <1>2, <1>3, <1>5 DEF Bounded
<1>6. CASE Outside BY <1>2, <1>3, <1>6 DEF Bounded
<1>7. CASE Another BY <1>2, <1>3, <1>7 DEF Bounded
<1> QED BY <1>1, <1>4, <1>5, <1>6, <1>7

\* Steps that leave access, task and all rows but those of SACLs and tasks alone.
LEMMA TypedFramed ==
    ASSUME Typed, access' \in {"found", "zero"}, task' \in {"absent", "ours"},
           UNCHANGED <<policyRows, accessRows, before>>,
           pc' \notin {"disable", "checkpolicy", "retirepolicy"},
           outcome' \in {"none", "refused", "configured", "restored", "died"},
           disturbed' \subseteq Disturbable
    PROVE  Typed'
BY DEF Typed

LEMMA TypedSetup == ASSUME RowsHonest, Typed, Setup PROVE Typed'
<1> USE DEF saclVars, policyVars, accessVars, taskVars, winVars, Quiet, History, At, Set
<1>0. /\ access \in {"found", "zero"} /\ task \in {"absent", "ours"} /\ disturbed \subseteq Disturbable
      /\ outcome \in {"none", "refused", "configured", "restored", "died"}
  BY DEF Typed
<1>1. CASE CapturePolicy \/ EnablePolicy \/ SecurityLogReadable \/ SetFsutil \/ RecordSacl
           \/ RecordSaclFails \/ DropRow
  BY <1>0, <1>1, TypedFramed DEF CapturePolicy, EnablePolicy, SecurityLogReadable, SetFsutil,
     RecordSacl, RecordSaclFails, DropRow
<1>2. CASE RecordPolicy
  <2> DEFINE e == [included |-> "success" \in job.policy, after |-> policy]
  <2>1. /\ policyRows' = <<e>> \o policyRows /\ pc' = "readable"
        /\ UNCHANGED <<access, task, accessRows, before, outcome, disturbed>>
    BY <1>2 DEF RecordPolicy
  <2>2. e \in PolicyRow BY DEF RowsHonest, PolicyRow
  <2> HIDE DEF e
  <2>3. policyRows' \in Seq(PolicyRow) BY <2>1, <2>2, Prepended DEF Typed
  <2> QED BY <1>0, <2>1, <2>3 DEF Typed
<1>3. CASE NotVerified \/ PolicyFails \/ RolledBack \/ RowsDropped
  BY <1>0, <1>3, TypedFramed DEF NotVerified, PolicyFails, RolledBack, RowsDropped, GiveUp, End
<1>4. CASE SkipFsutil BY <1>0, <1>4, TypedFramed DEF SkipFsutil, Configured, End
<1>5. CASE RecordFsutil
  <2>1. /\ accessRows' = <<"found">> \o accessRows /\ pc' \in {"script", "idle"}
        /\ UNCHANGED <<access, task, policyRows, before, disturbed>>
        /\ outcome' \in {outcome, "configured"}
    BY <1>5 DEF RecordFsutil, Configured, End
  <2>2. accessRows' \in Seq({"found"}) BY <2>1, Prepended DEF Typed
  <2> QED BY <1>0, <2>1, <2>2 DEF Typed
<1>6. CASE \E w \in BOOLEAN : StartSetup(w)
  BY <1>0, <1>6 DEF StartSetup, Start, Typed, RowsHonest
<1>7. CASE SetAcl \/ GetAclAfter \/ \E c \in Canaries : GetAcl(c) \/ NotConverted(c)
  <2>1. /\ UNCHANGED <<policyRows, accessRows, before, access, task, outcome, disturbed>>
        /\ pc' \in {"apply", "rollback", "save"}
    BY <1>7 DEF GetAcl, SetAcl, GetAclAfter, NotConverted, NextCanary
  <2> QED BY <1>0, <2>1, TypedFramed
<1>8. CASE RollBack \/ RollBackVerified
  <2>1. /\ UNCHANGED <<policyRows, accessRows, before, access, task, outcome, disturbed, pc>>
        /\ pc \in {"rollback", "undo"}
    BY <1>8 DEF RollBack, RollBackVerified
  <2> QED BY <1>0, <2>1, TypedFramed
<1>9. CASE ApplyFails \/ RollBackFails
  <2>1. Calls => Now.on \in Disturbable BY CallFacts DEF Disturbable
  <2>2. job.staged # <<>> => Last(job.staged).on \in Disturbable
    <3>1. job.staged # <<>> => Last(job.staged) \in Honest BY Elements, FrontAndLast
    <3> QED BY <3>1 DEF Honest, Change, Disturbable
  <2>3. disturbed' \subseteq Disturbable
    BY <1>0, <1>9, <2>1, <2>2 DEF ApplyFails, RollBackFails, Calls
  <2>4. /\ UNCHANGED <<policyRows, accessRows, before, access, task, outcome>>
        /\ pc' \in {"rollback", "undo"}
    BY <1>9 DEF ApplyFails, RollBackFails
  <2> QED BY <1>0, <2>3, <2>4, TypedFramed
<1> QED BY <1>1, <1>2, <1>3, <1>4, <1>5, <1>6, <1>7, <1>8, <1>9 DEF Setup

LEMMA TypedWatcher == ASSUME Typed, Watcher PROVE Typed'
<1> USE DEF saclVars, policyVars, accessVars, taskVars, winVars, Quiet, History, At
<1>0. /\ access \in {"found", "zero"} /\ task \in {"absent", "ours"} /\ disturbed \subseteq Disturbable
      /\ outcome \in {"none", "refused", "configured", "restored", "died"}
  BY DEF Typed
<1>1. /\ UNCHANGED <<policyRows, accessRows, before, access>> /\ task' \in {"absent", "ours"}
      /\ pc' \in {"register", "recordtask", "unregister", "unwrite", "idle"}
      /\ outcome' \in {outcome, "configured"} /\ disturbed' \subseteq disturbed \cup {"script"}
  BY <1>0 DEF Watcher, ScriptRefused, RegisterTask, RegisterFails, RecordTask, RecordTaskFails,
     Unregister, RollBackScript, RollBackScriptFails, WriteScript, End
<1> QED BY <1>0, <1>1, TypedFramed DEF Disturbable

LEMMA TypedRestore == ASSUME RowsHonest, Typed, Restore PROVE Typed'
<1> USE DEF saclVars, policyVars, accessVars, taskVars, winVars, Quiet, History, At, Row
<1>0. /\ access \in {"found", "zero"} /\ task \in {"absent", "ours"} /\ disturbed \subseteq Disturbable
      /\ outcome \in {"none", "refused", "configured", "restored", "died"}
  BY DEF Typed
<1>1. CASE StartRestore BY <1>0, <1>1 DEF StartRestore, Start, Typed, RowsHonest
<1>2. CASE \/ RestoreSacl \/ RestoredSacl \/ RestoreSaclFails \/ RetireSacl
         \/ SaclsDone \/ PoliciesDone
  BY <1>0, <1>2, TypedFramed DEF RestoreSacl, RestoredSacl, RestoreSaclFails, RetireSacl,
     SaclsDone, PoliciesDone, AllDone, Keep
<1>3. CASE RestorePolicy \/ DisablePolicy \/ CheckPolicy
  <2>1. /\ UNCHANGED <<access, task, policyRows, accessRows, before, outcome, disturbed>>
        /\ pc' \in {"disable", "checkpolicy", "retirepolicy"} => UNCHANGED job /\ job.at <= Len(policyRows)
    BY <1>3 DEF RestorePolicy, DisablePolicy, CheckPolicy, Keep, Typed
  <2> QED BY <1>0, <2>1 DEF Typed
<1>4. CASE RestorePolicyFails BY <1>0, <1>4, TypedFramed DEF RestorePolicyFails, Keep
<1>5. CASE RetirePolicy
  <2>1. /\ pc = "retirepolicy" /\ pc' = "policies" /\ policyRows' = RemoveAt(policyRows, job.at)
        /\ UNCHANGED <<access, task, accessRows, before, outcome, disturbed>>
    BY <1>5 DEF RetirePolicy
  <2>2. policyRows \in Seq(PolicyRow) /\ job.at <= Len(policyRows) /\ job.at \in Nat \ {0}
    BY <2>1, Elements DEF Typed
  <2>3. job.at \in 1 .. Len(policyRows)
    <3>1. Len(policyRows) \in Nat BY <2>2
    <3> QED BY <2>2, <3>1
  <2>4. policyRows' \in Seq(PolicyRow) BY <2>1, <2>2, <2>3, Removed
  <2> QED BY <1>0, <2>1, <2>4 DEF Typed
<1>6. CASE DeleteTask \/ DeleteTaskFails \/ UnlinkScript \/ RetireTask \/ TasksDone
  BY <1>0, <1>6, TypedFramed DEF DeleteTask, DeleteTaskFails, UnlinkScript, RetireTask, TasksDone,
     End, Keep
<1> QED BY <1>1, <1>2, <1>3, <1>4, <1>5, <1>6 DEF Restore

LEMMA TypedStep == ASSUME RowsHonest, Typed, [Next]_vars PROVE Typed'
<1> USE DEF saclVars, policyVars, accessVars, taskVars, winVars
<1>0. /\ access \in {"found", "zero"} /\ task \in {"absent", "ours"} /\ disturbed \subseteq Disturbable
      /\ outcome \in {"none", "refused", "configured", "restored", "died"}
  BY DEF Typed
<1>1. CASE Setup BY <1>1, TypedSetup
<1>2. CASE Watcher BY <1>2, TypedWatcher
<1>3. CASE Restore BY <1>3, TypedRestore
<1>4. CASE Die
  <2>1. \A i \in DOMAIN Applied : Applied[i].on \in Disturbable BY Elements DEF Disturbable
  <2>2. disturbed' \subseteq Disturbable BY <1>0, <1>4, <2>1 DEF Die, Disturbable
  <2>3. pc' = "idle" /\ outcome' = "died" /\ UNCHANGED <<winVars, before>> BY <1>4 DEF Die, End
  <2> QED BY <1>0, <2>2, <2>3, TypedFramed
<1>5. CASE Admin
  <2>1. /\ UNCHANGED <<pc, job, outcome, before, policyRows, access, accessRows>>
        /\ task' \in {task, "absent"} /\ disturbed' \subseteq Disturbable
    BY <1>0, <1>5 DEF Admin, AdminPolicy, UserScript, UserTask, AdminSacl, Act, Disturbable
  <2> QED BY <1>0, <2>1 DEF Typed
<1>6. CASE UNCHANGED vars BY <1>6 DEF vars, Typed
<1>7. CASE SetExactSacl
  <2>1. /\ UNCHANGED <<policyRows, accessRows, before, access, task, outcome, disturbed, pc>>
        /\ pc \in {"rollback", "undo", "sacls"}
    BY <1>7 DEF SetExactSacl, Quiet, History
  <2> QED BY <1>0, <2>1, TypedFramed
<1> QED BY <1>1, <1>2, <1>3, <1>4, <1>5, <1>6, <1>7 DEF Next

LEMMA RacedStep ==
    ASSUME raced \subseteq Canaries, [Next]_vars
    PROVE  raced' \subseteq Canaries
<1>1. CASE Setup \/ SetExactSacl \/ Watcher \/ Restore \/ Die BY <1>1, ActsCounted
<1>2. CASE Admin BY <1>2 DEF Admin, AdminPolicy, UserScript, UserTask, AdminSacl
<1>3. CASE UNCHANGED vars BY <1>3 DEF vars
<1> QED BY <1>1, <1>2, <1>3 DEF Next

LEMMA TypedInit == Init => Typed /\ Bounded /\ raced \subseteq Canaries
BY WinSetupAssumption DEF Init, Typed, Bounded, Sacl

\* Every variable stays in its type, and what a rollback or a restore is about to look
\* at exists: no row is retired twice.
THEOREM SpecTypeOK == Spec => []TypeOK
<1> DEFINE Raced == raced \subseteq Canaries
<1>1. Init => Typed /\ Bounded /\ Raced BY TypedInit
<1>2. Invariant /\ Typed /\ Bounded /\ Raced /\ [Next]_vars => (Typed /\ Bounded /\ Raced)'
  BY TypedStep, BoundedStep, RacedStep DEF Invariant
<1>3. Invariant /\ Typed /\ Bounded /\ Raced => TypeOK
  <2> SUFFICES ASSUME Invariant, Typed, Bounded, Raced PROVE TypeOK OBVIOUS
  <2>1. /\ sacl \in [Canaries -> Sacl] /\ policy \in Policy /\ script \in Script
        /\ saclRows \in Seq(Honest) /\ job \in Job /\ job.saved <= Len(saclRows)
        /\ pc = "retiresacl" => job.at <= Len(saclRows)
    BY DEF Invariant, RowsHonest
  <2>2. \A q \in Seq(Honest) : q \in Seq(Change)
    <3>1. Honest \subseteq Change BY DEF Honest
    <3> QED BY <3>1
  <2>3. job.saved \in 0 .. Len(saclRows)
    <3>1. job.saved \in Nat /\ Len(saclRows) \in Nat BY <2>1 DEF Job
    <3> QED BY <2>1, <3>1
  <2>4. job.staged \in Seq(Change) /\ job.now \in Seq(Change) BY <2>1, <2>2 DEF Job
  <2>5. job \in [todo : SUBSET Canaries, skipped : BOOLEAN, staged : Seq(Change),
                 saved : 0 .. Len(saclRows), now : Seq(Change),
                 step : {"get", "set", "verify"}, policy : Policy, watcher : BOOLEAN,
                 body : Bodies \cup {"absent"}, previous : Script, at : Nat \ {0}]
    BY <2>1, <2>3, <2>4 DEF Job
  <2>6. /\ trouble \in 0 .. MaxTrouble /\ acts \in 0 .. MaxTrouble - trouble
    <3>1. MaxTrouble \in Nat BY WinSetupAssumption
    <3> QED BY <3>1 DEF Bounded
  <2>7. taskRows \in Seq(Bodies) /\ (pc \in {"unlink", "retiretask"} => job.at <= Len(taskRows))
    BY DEF Invariant, Scripted
  <2>8. /\ access \in {"found", "zero"} /\ task \in {"absent", "ours"}
        /\ policyRows \in Seq([included : BOOLEAN, after : Policy]) /\ accessRows \in Seq({"found"})
        /\ pc = "retirepolicy" => job.at <= Len(policyRows)
        /\ outcome \in {"none", "refused", "configured", "restored", "died"}
        /\ before \in [Canaries -> Sacl] /\ disturbed \subseteq Canaries \cup {"script"}
    BY DEF Typed, PolicyRow, Disturbable
  <2>9. runs \in 0 .. MaxRuns BY DEF Bounded
  <2>10. Calls => job.now # <<>>
    <3>1. Calls => job.now = <<Now>> BY DEF Invariant, RowsHonest, Underway
    <3> QED BY <3>1
  <2>11. raced \subseteq Canaries OBVIOUS
  <2> QED BY <2>1, <2>2, <2>5, <2>6, <2>7, <2>8, <2>9, <2>10, <2>11 DEF TypeOK
<1> HIDE DEF Raced
<1> QED BY <1>1, <1>2, <1>3, SpecInvariant, PTL DEF Spec
=============================================================================
