------------------------------ MODULE WinSetup ------------------------------
(***************************************************************************)
(* `honeypath setup-windows-audit` and its --restore (windows_audit.py):   *)
(* the audit policy, the audit ACE on each Windows canary, the last-access *)
(* setting and the optional scheduled watcher, each changed by a call into *)
(* Windows and recorded in managed_changes afterwards.                     *)
(*                                                                         *)
(* A call may fail before or after it took effect: PowerShell throws after *)
(* Set-Acl, or the interop timeout passes.  The command may be killed      *)
(* between two steps, and an administrator may change what it manages,     *)
(* also while a script is between its Get-Acl and its Set-Acl.             *)
(***************************************************************************)
EXTENDS Integers, SequencesExt

CONSTANTS
    Canaries,    \* recorded Windows-home canaries
    Bodies,      \* contents of the watcher script: paths and credentials change
    MaxRuns,     \* bound: commands
    MaxTrouble   \* bound: calls that fail, commands that die, and changes by an administrator

ASSUME WinSetupAssumption ==
    /\ MaxRuns \in Nat /\ MaxTrouble \in Nat
    /\ Canaries # {} /\ Bodies \cap {"absent", "user"} = {}

VARIABLES
    sacl, policy, access, task, script,            \* Windows
    saclRows, policyRows, accessRows, taskRows,    \* active rows, newest first
    pc, job, outcome,                              \* the command, and how the last one ended
    found, before,  \* history: Windows at first, and the SACLs the command started from
    disturbed,      \* history: whose state an administrator or a lost result changed
    raced,          \* history: canaries that an administrator changed in the middle of a call
    runs, trouble, acts

saclVars == <<sacl, saclRows>>
policyVars == <<policy, policyRows>>
accessVars == <<access, accessRows>>
taskVars == <<task, script, taskRows>>
winVars == <<saclVars, policyVars, accessVars, taskVars>>
boundVars == <<runs, trouble, acts>>
vars == <<winVars, pc, job, outcome, found, before, disturbed, raced, boundVars>>

\* todo: canaries whose turn has not come; skipped: one had no Windows path;
\* staged, saved: ACEs applied, and how many of them have a row; now, step: the
\* change of the script that runs, and its next call; at: the row a restore is at.
NoJob == [todo |-> {}, skipped |-> FALSE, staged |-> <<>>, saved |-> 0, now |-> <<>>, step |-> "get",
          policy |-> {}, watcher |-> FALSE, body |-> "absent", previous |-> "absent", at |-> 1]

Init ==
    /\ sacl = [c \in Canaries |-> {}] /\ policy \in SUBSET {"success"}
    /\ access = "found" /\ task = "absent" /\ script \in {"absent", "user"}
    /\ saclRows = <<>> /\ policyRows = <<>> /\ accessRows = <<>> /\ taskRows = <<>>
    /\ pc = "idle" /\ job = NoJob /\ outcome = "none"
    /\ found = [sacl |-> sacl, policy |-> policy, task |-> task, script |-> script]
    /\ before = sacl /\ disturbed = {} /\ raced = {} /\ runs = 0 /\ trouble = 0 /\ acts = 0
-----------------------------------------------------------------------------
History == UNCHANGED <<outcome, found, before, disturbed, raced>>
Quiet == History /\ UNCHANGED boundVars
Trouble == trouble + acts < MaxTrouble /\ trouble' = trouble + 1 /\ UNCHANGED <<runs, acts>>

At(here, next) == pc = here /\ pc' = next
Set(field, value) == job' = [job EXCEPT ![field] = value]

\* The command is over.
End(how) ==
    pc' = "idle" /\ job' = NoJob /\ outcome' = how /\ UNCHANGED <<found, before, raced>>

Start(here, first) ==
    /\ pc = "idle" /\ runs < MaxRuns /\ runs' = runs + 1
    /\ pc' = here /\ job' = first /\ outcome' = "none" /\ before' = sacl
    /\ UNCHANGED <<winVars, found, disturbed, raced, trouble, acts>>

\* Before a SACL was touched, a failure ends the command and is all there is to it.
GiveUp == End("refused") /\ UNCHANGED disturbed
-----------------------------------------------------------------------------
(* setup: the audit policy *)

StartSetup(watcher) ==
    Start("capture", [NoJob EXCEPT !.todo = Canaries, !.watcher = watcher])

CapturePolicy ==
    At("capture", "enable") /\ Set("policy", policy) /\ Quiet /\ UNCHANGED winVars

EnablePolicy ==
    /\ At("enable", "verify") /\ policy' = policy \cup {"success"}
    /\ Quiet /\ UNCHANGED <<job, saclVars, policyRows, accessVars, taskVars>>

\* Mutant: the state after enabling is recorded as the state before.
RecordPolicyEnabled ==
    /\ At("verify", "readable") /\ "success" \in policy
    /\ policyRows' = <<[included |-> TRUE, after |-> policy]>> \o policyRows
    /\ Quiet /\ UNCHANGED <<job, saclVars, policy, accessVars, taskVars>>

\* A policy that reads back with Success is recorded, with whether it was on before.
RecordPolicy ==
    /\ At("verify", "readable") /\ "success" \in policy
    /\ policyRows' = <<[included |-> "success" \in job.policy, after |-> policy]>> \o policyRows
    /\ Quiet /\ UNCHANGED <<job, saclVars, policy, accessVars, taskVars>>

NotVerified ==
    /\ pc = "verify" /\ "success" \notin policy /\ GiveUp
    /\ UNCHANGED <<winVars, boundVars>>

SecurityLogReadable ==
    /\ At("readable", "apply") /\ Quiet /\ UNCHANGED <<winVars, job>>

PolicyFails == \E effect \in BOOLEAN :
    /\ pc \in {"capture", "enable", "verify", "readable"} /\ GiveUp /\ Trouble
    /\ policy' = IF effect /\ pc = "enable" THEN policy \cup {"success"} ELSE policy
    /\ UNCHANGED <<saclVars, policyRows, accessVars, taskVars>>
-----------------------------------------------------------------------------
(* setup: the SACLs *)

\* After the last canary the rows are written, or everything is rolled back.
NextCanary(rest, skipped) ==
    At("apply", IF rest # {} THEN "apply" ELSE IF skipped THEN "rollback" ELSE "save")

\* A path that wslpath does not convert counts as failed, and the others go on.
NotConverted(c) ==
    /\ c \in job.todo /\ job.step = "get" /\ NextCanary(job.todo \ {c}, TRUE) /\ Trouble
    /\ job' = [job EXCEPT !.todo = @ \ {c}, !.skipped = TRUE]
    /\ History /\ UNCHANGED winVars

\* The change that the script under way is making, and the end of the script.
Now == job.now[1]
Calls == job.step # "get"
CallsEnd(j) == job' = [j EXCEPT !.now = <<>>, !.step = "get"]

\* capture_and_apply_audit_rule, Get-Acl: the exact SACL before; adding a rule that
\* is there already changes nothing.
GetAcl(c) ==
    /\ pc = "apply" /\ ~Calls /\ c \in job.todo
    /\ job' = [job EXCEPT !.todo = @ \ {c}, !.step = "set",
                  !.now = <<[on |-> c, original |-> sacl[c], after |-> sacl[c] \cup {"ours"}]>>]
    /\ Quiet /\ UNCHANGED <<pc, winVars>>

\* Set-Acl: the SACL as it was read, with the rule.
SetAcl ==
    /\ pc = "apply" /\ job.step = "set"
    /\ sacl' = [sacl EXCEPT ![Now.on] = Now.after] /\ Set("step", "verify")
    /\ Quiet /\ UNCHANGED <<pc, saclRows, policyVars, accessVars, taskVars>>

\* Get-Acl again: the exact SACL after, which must not be empty.
GetAclAfter ==
    /\ job.step = "verify" /\ NextCanary(job.todo, job.skipped) /\ sacl[Now.on] # {}
    /\ CallsEnd([job EXCEPT !.staged = Append(@, [Now EXCEPT !.after = sacl[Now.on]])])
    /\ Quiet /\ UNCHANGED winVars

\* Any of them throws, or the result is lost: after Set-Acl, what the script did to
\* this canary is not known to anyone.
ApplyFails ==
    /\ At("apply", "rollback") /\ CallsEnd(job)
    /\ Trouble \/ (job.step = "verify" /\ sacl[Now.on] = {} /\ UNCHANGED boundVars)
    /\ disturbed' = IF job.step = "verify" THEN disturbed \cup {Now.on} ELSE disturbed
    /\ UNCHANGED <<winVars, outcome, found, before, raced>>

\* Mutant: the current SACL is not compared.
AsLeftUnasked(r) == TRUE

\* restore_exact_sacl, Get-Acl: only the exact SACL that Honeypath left is replaced.
AsLeft(r) == sacl[r.on] = r.after

\* Set-Acl: by the one before, whatever is there by now.
SetExactSacl ==
    /\ pc \in {"rollback", "undo", "sacls"} /\ job.step = "set"
    /\ sacl' = [sacl EXCEPT ![Now.on] = Now.original] /\ Set("step", "verify")
    /\ Quiet /\ UNCHANGED <<pc, saclRows, policyVars, accessVars, taskVars>>

\* Mutant: only the last one is rolled back.
RollBackLast ==
    LET s == Last(job.staged) IN
    /\ pc \in {"rollback", "undo"} /\ ~Calls /\ job.staged # <<>>
    /\ IF AsLeft(s) THEN job' = [job EXCEPT !.staged = <<>>, !.now = <<s>>, !.step = "set"]
       ELSE Set("staged", <<>>)
    /\ Quiet /\ UNCHANGED <<pc, winVars>>

\* Those applied before are restored, newest first, whatever becomes of each.
RollBack ==
    LET s == Last(job.staged) IN
    /\ pc \in {"rollback", "undo"} /\ ~Calls /\ job.staged # <<>>
    /\ IF AsLeft(s) THEN job' = [job EXCEPT !.staged = Front(@), !.now = <<s>>, !.step = "set"]
       ELSE Set("staged", Front(job.staged))
    /\ Quiet /\ UNCHANGED <<pc, winVars>>

\* The last look at the SACL only changes what is logged.
RollBackVerified ==
    /\ pc \in {"rollback", "undo"} /\ job.step = "verify" /\ CallsEnd(job)
    /\ Quiet /\ UNCHANGED <<pc, winVars>>

\* Get-Acl or Set-Acl throws, or never runs.
RollBackFails ==
    /\ pc \in {"rollback", "undo"} /\ Trouble
    /\ \/ /\ ~Calls /\ job.staged # <<>> /\ Set("staged", Front(job.staged))
          /\ disturbed' = disturbed \cup {Last(job.staged).on}
       \/ job.step = "set" /\ CallsEnd(job) /\ disturbed' = disturbed \cup {Now.on}
    /\ UNCHANGED <<pc, winVars, outcome, found, before, raced>>

RolledBack ==
    /\ pc = "rollback" /\ job.staged = <<>> /\ ~Calls /\ GiveUp /\ UNCHANGED <<winVars, boundVars>>

RecordSacl ==
    LET n == job.saved + 1 IN
    /\ At("save", IF n = Len(job.staged) THEN "offer" ELSE "save")
    /\ saclRows' = <<job.staged[n]>> \o saclRows
    /\ Set("saved", n)
    /\ Quiet /\ UNCHANGED <<sacl, policyVars, accessVars, taskVars>>

RecordSaclFails ==
    /\ At("save", "undo") /\ Trouble
    /\ History /\ UNCHANGED <<winVars, job>>

\* The rows that were written are retired, oldest first; one that cannot be is left.
DropRow == \E dropped \in BOOLEAN :
    /\ pc = "undo" /\ job.staged = <<>> /\ ~Calls /\ job.saved > 0
    /\ IF dropped THEN saclRows' = RemoveAt(saclRows, job.saved) /\ UNCHANGED boundVars
       ELSE Trouble /\ UNCHANGED saclRows
    /\ Set("saved", job.saved - 1)
    /\ History /\ UNCHANGED <<pc, sacl, policyVars, accessVars, taskVars>>

RowsDropped ==
    /\ pc = "undo" /\ job.staged = <<>> /\ ~Calls /\ job.saved = 0 /\ GiveUp
    /\ UNCHANGED <<winVars, boundVars>>
-----------------------------------------------------------------------------
(* setup: last-access times, and the scheduled watcher *)

\* There is nothing more to do without --install-windows-watcher.
Configured(here) ==
    /\ pc = here
    /\ IF job.watcher THEN pc' = "script" /\ UNCHANGED job /\ History
       ELSE End("configured") /\ UNCHANGED disturbed

\* The setting is not known, is zero already, or the operator says no.
SkipFsutil == Configured("offer") /\ UNCHANGED <<winVars, boundVars>>

SetFsutil ==
    /\ At("offer", "recordaccess") /\ access = "found" /\ access' = "zero"
    /\ Quiet /\ UNCHANGED <<job, saclVars, policyVars, accessRows, taskVars>>

RecordFsutil ==
    /\ Configured("recordaccess") /\ accessRows' = <<"found">> \o accessRows
    /\ UNCHANGED <<saclVars, policyVars, access, taskVars, boundVars>>

\* A script is replaced if some row names its path.
MayWrite == script = "absent" \/ taskRows # <<>>

WriteScript(body) ==
    /\ MayWrite /\ At("script", "register") /\ script' = body
    /\ job' = [job EXCEPT !.body = body, !.previous = script]
    /\ Quiet /\ UNCHANGED <<saclVars, policyVars, accessVars, task, taskRows>>

\* Declined, refused, or the write fails.
ScriptRefused ==
    /\ pc = "script" /\ End("configured")
    /\ UNCHANGED <<winVars, disturbed, boundVars>>

RegisterTask ==
    /\ At("register", "recordtask") /\ task' = "ours"
    /\ Quiet /\ UNCHANGED <<job, saclVars, policyVars, accessVars, script, taskRows>>

RegisterFails == \E effect \in BOOLEAN :
    /\ At("register", "unwrite") /\ Trouble
    /\ task' = IF effect THEN "ours" ELSE task
    /\ History /\ UNCHANGED <<job, saclVars, policyVars, accessVars, script, taskRows>>

RecordTask ==
    /\ pc = "recordtask" /\ End("configured")
    /\ taskRows' = <<job.body>> \o taskRows
    /\ UNCHANGED <<saclVars, policyVars, accessVars, task, script, disturbed, boundVars>>

RecordTaskFails ==
    /\ At("recordtask", "unregister") /\ Trouble /\ History /\ UNCHANGED <<winVars, job>>

Unregister == \E gone \in BOOLEAN :
    /\ At("unregister", "unwrite")
    /\ IF gone THEN UNCHANGED boundVars ELSE Trouble
    /\ task' = IF gone THEN "absent" ELSE task
    /\ History /\ UNCHANGED <<job, saclVars, policyVars, accessVars, script, taskRows>>

\* rollback_script: the exact script just written gives way to what was there.
RollBackScript ==
    /\ pc = "unwrite" /\ End("configured")
    /\ script' = IF script = job.body THEN job.previous ELSE script
    /\ UNCHANGED <<saclVars, policyVars, accessVars, task, taskRows, disturbed, boundVars>>

RollBackScriptFails ==
    /\ pc = "unwrite" /\ End("configured") /\ Trouble
    /\ disturbed' = disturbed \cup {"script"}
    /\ UNCHANGED winVars
-----------------------------------------------------------------------------
(* --restore: each recorded change, newest first.  One that is not undone keeps *)
(* its row, and the command goes on with the next. *)

StartRestore == Start("sacls", NoJob)

\* Row k of these is the next one; there is none left.
Row(here, rows) == pc = here /\ job.at <= Len(rows)
AllDone(here, next, rows) ==
    /\ job.at > Len(rows) /\ At(here, next) /\ Set("at", 1) /\ Quiet /\ UNCHANGED winVars
Keep(back) == pc' = back /\ Set("at", job.at + 1)

\* restore_exact_sacl, from Get-Acl on; one that changed independently is left alone.
RestoreSacl ==
    LET r == saclRows[job.at] IN
    /\ Row("sacls", saclRows) /\ ~Calls
    /\ IF AsLeft(r) THEN pc' = pc /\ job' = [job EXCEPT !.now = <<r>>, !.step = "set"] ELSE Keep("sacls")
    /\ Quiet /\ UNCHANGED winVars

\* The last look: another SACL than the original counts as a failure.
RestoredSacl ==
    /\ pc = "sacls" /\ job.step = "verify"
    /\ IF sacl[Now.on] = Now.original THEN pc' = "retiresacl" /\ CallsEnd(job)
       ELSE pc' = "sacls" /\ CallsEnd([job EXCEPT !.at = @ + 1])
    /\ Quiet /\ UNCHANGED winVars

\* Mutant: the row is retired whether or not the SACL was restored.
RestoreSaclFailsRetired ==
    /\ Row("sacls", saclRows) /\ Trouble /\ pc' = "retiresacl" /\ CallsEnd(job)
    /\ History /\ UNCHANGED winVars

RestoreSaclFails ==
    /\ Row("sacls", saclRows) /\ Trouble
    /\ pc' = "sacls" /\ CallsEnd([job EXCEPT !.at = @ + 1])
    /\ History /\ UNCHANGED winVars

\* Mutant: the oldest row is retired, not the one that was undone.
RetireSaclOldest ==
    /\ At("retiresacl", "sacls") /\ saclRows' = Front(saclRows)
    /\ Quiet /\ UNCHANGED <<sacl, policyVars, accessVars, taskVars, job>>

RetireSacl ==
    /\ At("retiresacl", "sacls") /\ saclRows' = RemoveAt(saclRows, job.at)
    /\ Quiet /\ UNCHANGED <<sacl, policyVars, accessVars, taskVars, job>>

SaclsDone == ~Calls /\ AllDone("sacls", "policies", saclRows)

\* Only the exact policy that Honeypath left is changed, and only if it was off.
RestorePolicy ==
    LET r == policyRows[job.at] IN
    /\ Row("policies", policyRows)
    /\ IF policy # r.after THEN Keep("policies")
       ELSE pc' = (IF r.included THEN "retirepolicy" ELSE "disable") /\ UNCHANGED job
    /\ Quiet /\ UNCHANGED winVars

DisablePolicy ==
    /\ At("disable", "checkpolicy") /\ policy' = policy \ {"success"}
    /\ Quiet /\ UNCHANGED <<job, saclVars, policyRows, accessVars, taskVars>>

CheckPolicy ==
    /\ pc = "checkpolicy"
    /\ IF "success" \in policy THEN Keep("policies") ELSE pc' = "retirepolicy" /\ UNCHANGED job
    /\ Quiet /\ UNCHANGED winVars

RestorePolicyFails == \E effect \in BOOLEAN :
    /\ pc \in {"policies", "disable", "checkpolicy"} /\ Len(policyRows) >= job.at
    /\ Trouble /\ Keep("policies")
    /\ policy' = IF effect /\ pc = "disable" THEN policy \ {"success"} ELSE policy
    /\ History /\ UNCHANGED <<saclVars, policyRows, accessVars, taskVars>>

RetirePolicy ==
    /\ At("retirepolicy", "policies") /\ policyRows' = RemoveAt(policyRows, job.at)
    /\ Quiet /\ UNCHANGED <<policy, saclVars, accessVars, taskVars, job>>

PoliciesDone == AllDone("policies", "tasks", policyRows)

\* A task that is already gone cannot be deleted, and its row stays.
DeleteTask ==
    /\ Row("tasks", taskRows)
    /\ IF task = "ours" THEN pc' = "unlink" /\ UNCHANGED job ELSE Keep("tasks")
    /\ task' = "absent"
    /\ Quiet /\ UNCHANGED <<saclVars, policyVars, accessVars, script, taskRows>>

DeleteTaskFails == \E effect \in BOOLEAN :
    /\ Row("tasks", taskRows) /\ Trouble /\ Keep("tasks")
    /\ task' = IF effect THEN "absent" ELSE task
    /\ History /\ UNCHANGED <<saclVars, policyVars, accessVars, script, taskRows>>

\* Only the exact script the row describes is removed.
UnlinkScript ==
    /\ pc = "unlink"
    /\ IF script = taskRows[job.at]
       THEN script' = "absent" /\ pc' = "retiretask" /\ UNCHANGED job
       ELSE UNCHANGED script /\ Keep("tasks")
    /\ Quiet /\ UNCHANGED <<saclVars, policyVars, accessVars, task, taskRows>>

RetireTask ==
    /\ At("retiretask", "tasks") /\ taskRows' = RemoveAt(taskRows, job.at)
    /\ Quiet /\ UNCHANGED <<saclVars, policyVars, accessVars, task, script, job>>

TasksDone ==
    /\ pc = "tasks" /\ job.at > Len(taskRows) /\ End("restored")
    /\ UNCHANGED <<winVars, disturbed, boundVars>>
-----------------------------------------------------------------------------
(* The surroundings *)

\* The changes of this command that are in Windows: those staged, with that of the
\* script between Set-Acl and the end when it applies, up to Set-Acl when it restores.
Applied ==
    IF job.step = (IF pc = "apply" THEN "verify" ELSE "set") /\ pc # "sacls"
    THEN job.staged \o job.now ELSE job.staged

\* The command is killed, or ends with an exception that nothing catches.
Die ==
    LET unsaved == {Applied[i].on : i \in {k \in DOMAIN Applied : k > job.saved}} IN
    /\ pc # "idle" /\ Trouble /\ End("died")
    /\ disturbed' = disturbed \cup unsaved \cup
          (IF pc \in {"register", "recordtask", "unregister", "unwrite"} THEN {"script"} ELSE {})
    /\ UNCHANGED winVars

Act == trouble + acts < MaxTrouble /\ acts' = acts + 1
       /\ UNCHANGED <<pc, job, outcome, found, before, runs, trouble>>

\* An administrator adds or removes an audit rule of their own, or Honeypath's, at
\* any time: a script that is at this canary notices only what it compares later.
AdminSacl(c, ace) ==
    /\ Act /\ (ace = "ours" => ace \in sacl[c])
    /\ sacl' = [sacl EXCEPT ![c] = IF ace \in @ THEN @ \ {ace} ELSE @ \cup {ace}]
    /\ disturbed' = disturbed \cup {c}
    /\ raced' = IF Calls /\ Now.on = c THEN raced \cup {c} ELSE raced
    /\ UNCHANGED <<saclRows, policyVars, accessVars, taskVars>>

AdminPolicy ==
    /\ Act /\ policy' \in SUBSET {"success", "failure"} /\ policy' # policy
    /\ UNCHANGED <<policyRows, saclVars, accessVars, taskVars, disturbed, raced>>

UserScript ==
    /\ Act /\ script' \in {"user", "absent"} /\ script' # script
    /\ disturbed' = disturbed \cup {"script"} /\ UNCHANGED raced
    /\ UNCHANGED <<saclVars, policyVars, accessVars, task, taskRows>>

UserTask ==
    /\ Act /\ task = "ours" /\ task' = "absent"
    /\ UNCHANGED <<saclVars, policyVars, accessVars, script, taskRows, disturbed, raced>>

Setup ==
    \/ CapturePolicy \/ EnablePolicy \/ RecordPolicy \/ NotVerified \/ SecurityLogReadable
    \/ PolicyFails \/ SetAcl \/ GetAclAfter \/ ApplyFails
    \/ RollBack \/ RollBackVerified \/ RollBackFails \/ RolledBack \/ RecordSacl \/ RecordSaclFails
    \/ DropRow \/ RowsDropped \/ SkipFsutil \/ SetFsutil \/ RecordFsutil
    \/ (\E w \in BOOLEAN : StartSetup(w))
    \/ (\E c \in Canaries : GetAcl(c) \/ NotConverted(c))

Watcher ==
    \/ ScriptRefused \/ RegisterTask \/ RegisterFails \/ RecordTask \/ RecordTaskFails
    \/ Unregister \/ RollBackScript \/ RollBackScriptFails
    \/ (\E body \in Bodies : WriteScript(body))

Restore ==
    \/ StartRestore \/ RestoreSacl \/ RestoredSacl \/ RestoreSaclFails \/ RetireSacl \/ SaclsDone
    \/ RestorePolicy \/ DisablePolicy \/ CheckPolicy \/ RestorePolicyFails \/ RetirePolicy
    \/ PoliciesDone \/ DeleteTask \/ DeleteTaskFails \/ UnlinkScript \/ RetireTask \/ TasksDone

Admin ==
    AdminPolicy \/ UserScript \/ UserTask
    \/ \E c \in Canaries, ace \in {"ours", "admin"} : AdminSacl(c, ace)

Next == Setup \/ SetExactSacl \/ Watcher \/ Restore \/ Die \/ Admin

Spec == Init /\ [][Next]_vars
-----------------------------------------------------------------------------
(* Properties *)

Sacl == SUBSET {"ours", "admin"}
Policy == SUBSET {"success", "failure"}
Change == [on : Canaries, original : Sacl, after : Sacl]
Script == Bodies \cup {"absent", "user"}

\* Every variable stays in its type; in particular no row is retired twice, and
\* what a rollback or a restore is about to look at exists.
TypeOK ==
    /\ sacl \in [Canaries -> Sacl] /\ policy \in Policy /\ access \in {"found", "zero"}
    /\ task \in {"absent", "ours"} /\ script \in Script
    /\ saclRows \in Seq(Change) /\ policyRows \in Seq([included : BOOLEAN, after : Policy])
    /\ accessRows \in Seq({"found"}) /\ taskRows \in Seq(Bodies)
    /\ job \in [todo : SUBSET Canaries, skipped : BOOLEAN, staged : Seq(Change),
                saved : 0 .. Len(saclRows), now : Seq(Change),
                step : {"get", "set", "verify"}, policy : Policy, watcher : BOOLEAN,
                body : Bodies \cup {"absent"}, previous : Script, at : Nat \ {0}]
    /\ Calls => job.now # <<>>
    /\ pc = "retiresacl" => job.at <= Len(saclRows)
    /\ pc = "retirepolicy" => job.at <= Len(policyRows)
    /\ pc \in {"unlink", "retiretask"} => job.at <= Len(taskRows)
    /\ outcome \in {"none", "refused", "configured", "restored", "died"}
    /\ before \in [Canaries -> Sacl] /\ disturbed \subseteq Canaries \cup {"script"}
    /\ raced \subseteq Canaries
    /\ runs \in 0 .. MaxRuns /\ trouble \in 0 .. MaxTrouble /\ acts \in 0 .. MaxTrouble - trouble

\* "an independent administrator change is reported as a conflict rather than
\* overwritten" (README): no setup, rollback or restore takes away or brings back an
\* audit rule that is not Honeypath's, except at a canary whose SACL was changed
\* while a script was between its Get-Acl and its Set-Acl, or the Get-Acl after that.
AdminKept ==
    [][acts' = acts => \A c \in Canaries \ raced : sacl'[c] \ {"ours"} = sacl[c] \ {"ours"}]_vars

RowsOf(c) == {i \in DOMAIN saclRows : saclRows[i].on = c}

\* Between two commands every audit ACE of Honeypath has a row to restore it by,
\* whatever failed, unless a Set-Acl or its rollback failed after taking effect,
\* the command died before the row was written, or an administrator interfered.
AceRecorded ==
    pc = "idle" => \A c \in Canaries \ disturbed : "ours" \in sacl[c] => RowsOf(c) # {}

\* "A later SACL failed; restoring every earlier exact original SACL"
\* (setup_windows_audit): either every canary is audited, or all of them are as
\* they were, with the same exceptions.
SetupAllOrNothing ==
    pc = "idle" => \A c \in Canaries \ disturbed :
        /\ outcome = "configured" => "ours" \in sacl[c]
        /\ outcome = "refused" => sacl[c] = before[c]

\* However often setup was repeated and restore interrupted, the rows of a canary
\* still lead back to the SACL that the first setup found: while another one is
\* there every row expects it, each restores it or the one found, and one of them
\* the latter, so that a restore, newest first, gets there.
StillRestorable ==
    pc = "idle" => \A c \in Canaries \ disturbed :
        sacl[c] # found.sacl[c] =>
            /\ \A i \in RowsOf(c) :
                  saclRows[i].after = sacl[c] /\ saclRows[i].original \in {sacl[c], found.sacl[c]}
            /\ \E i \in RowsOf(c) : saclRows[i].original = found.sacl[c]

\* A restore that nothing disturbed, after any number of setups, leaves Windows as
\* it was found, and no SACL or policy row behind.  The last-access setting is not
\* part of it: --restore does not look at its row.
CleanRestore ==
    outcome = "restored" /\ pc = "idle" /\ trouble = 0 /\ acts = 0 =>
        /\ sacl = found.sacl /\ policy = found.policy
        /\ task = found.task /\ script = found.script
        /\ saclRows = <<>> /\ policyRows = <<>>

\* Between two commands the watcher script, which holds the credentials in plain
\* text, is never left without a row that restore can find it by, unless a command
\* died or its rollback failed.
ScriptRecorded ==
    pc = "idle" /\ script \in Bodies => taskRows # <<>> \/ "script" \in disturbed

\* Between two commands no audit ACE and no watcher script is left without a row for
\* --restore (the audit policy and the scheduled task are not part of this).
ChangesRecorded == AceRecorded /\ ScriptRecorded

=============================================================================
