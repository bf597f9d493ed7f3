-------------------------- MODULE SafeWrite_proofs --------------------------
(***************************************************************************)
(* Creation and replacement of a canary file, for any number of commands,  *)
(* things the user does, failures and kills.                               *)
(***************************************************************************)
EXTENDS SafeWrite, TLAPS

Places == {"plan", "recheck", "expect", "inspect", "temp", "open", "hash", "identity", "link", "excl",
           "fill", "verify", "stage", "exchange", "compare", "hook", "commit", "discard",
           "unlinkcheck", "unlink", "undo", "swap", "undone", "done", "killed"}

\* Where a command is when it has not made its file, and when it has given it no name.
Before == {"plan", "recheck", "expect", "inspect", "temp", "excl"}
Unnamed == Before \cup {"open", "hash", "identity", "link", "stage"}

OnlyCreates == {"link", "excl", "fill", "verify", "unlinkcheck", "unlink"}
OnlyReplaces == {"recheck", "expect", "open", "hash", "identity", "stage", "exchange", "compare",
                 "undo", "swap", "undone", "discard"}

\* The file that is to be replaced has been compared with the record.
Compared == {"identity", "stage", "exchange", "compare", "hook", "commit", "discard"}

\* What a command knows at each place.
Knows(w) ==
    /\ pc[w] = "plan" => op[w] = NoOp
    /\ pc[w] \in OnlyCreates => Creates(w)
    /\ pc[w] \in OnlyReplaces => ~Creates(w)
    /\ pc[w] \in Before => op[w].tmp = 0
    /\ pc[w] \in Places \ (Before \cup {"done", "killed"}) => op[w].tmp # 0
    /\ pc[w] \in Unnamed => name[w] = 0
    /\ name[w] # 0 => ~Creates(w) /\ op[w].tmp # 0
    /\ pc[w] \in {"unlinkcheck", "unlink"} => op[w].why \in {"reject", "fill"}
    /\ pc[w] \in {"hash"} \cup Compared /\ ~Creates(w) => op[w].chk # 0
    /\ pc[w] \in {"hook", "commit", "discard"} /\ ~Creates(w) =>
          op[w].inst = op[w].tmp /\ op[w].exch = op[w].chk
    /\ pc[w] = "commit" => op[w].seen # 0
    /\ pc[w] = "compare" => name[w] # 0

\* What is known of the files: whose they are never changes, the user's hold the
\* user's text, and two commands never share one.
Files ==
    /\ row.text # "user" /\ \A w \in Writers : op[w].expected # "user"
    /\ \A i \in DOMAIN inode : inode[i].text # "none" /\ (inode[i].by = "user" => inode[i].text = "user")
    /\ \A w \in Writers : op[w].tmp # 0 => inode[op[w].tmp].by = "honeypath"
    /\ \A v, w \in Writers : op[v].tmp = op[w].tmp /\ op[v].tmp # 0 => v = w
    /\ \A w \in Writers :
          pc[w] \in Compared /\ ~Creates(w) => inode[op[w].chk].by = "honeypath"

\* The invariant that everything rests on.
Known ==
    /\ TypeOK /\ pc \in [Writers -> Places]
    /\ \A w \in Writers : Knows(w)
    /\ Files

\* A command whose row is written, or that will write none.
After == {"discard", "done", "killed"}

\* When texts differ, a text says which command made the file it is in, and a text that
\* was recorded is in a file that was recorded.
Marks ==
    /\ 0 \notin recorded /\ \A w \in Writers : row.text = w => op[w].tmp \in recorded
    /\ \A v, w \in Writers : op[v].expected = w => op[w].tmp \in recorded
    /\ \A i \in DOMAIN inode, w \in Writers : inode[i].text = w => op[w].tmp = i
    /\ \A i \in DOMAIN inode : inode[i].text = "catalog" => i \in recorded
    /\ row.text \in Writers \cup {"catalog", "none"}
    /\ \A w \in Writers : op[w].expected \in Writers \cup {"catalog", "none"}
    /\ \A w \in Writers : pc[w] = "commit" => op[w].seen = op[w].tmp

\* Nothing that the row describes, or is about to, can be discarded.
Safe ==
    /\ 0 \notin recorded /\ (row.ino # 0 => row.ino \in recorded)
    /\ \A w \in Writers : op[w].tmp \in recorded => pc[w] \in After
    /\ \A w \in Writers : pc[w] = "commit" => op[w].seen = op[w].tmp
    /\ \A v, w \in Writers :
          pc[v] \in Compared /\ ~Creates(v) /\ op[v].chk = op[w].tmp => pc[w] \in After
    /\ \A w \in Writers : pc[w] = "discard" => row.ino # op[w].chk

Kept(i) == Linked(i) \/ i \in dropped \/ Unlinked
RowKept ==
    /\ row.ino # 0 => Kept(row.ino)
    /\ \A w \in Writers : pc[w] = "commit" => Kept(op[w].seen)

\* Without a second command that replaces files, a command's own file has at most
\* one name, and which one it can be depends on where the command is.
Alone(w) == ~Replaced(w) /\ op[w].tmp # 0
Nameless(w) == Dest # op[w].tmp /\ name[w] # op[w].tmp
OneNameOf(w) ==
    /\ pc[w] \in Unnamed => Nameless(w)
    /\ pc[w] \in {"exchange", "undone"} => Dest # op[w].tmp
    /\ pc[w] \in Places \ {"exchange", "undone", "killed"} => name[w] # op[w].tmp
    /\ Ended(w) /\ op[w].outcome # "written" => Nameless(w)
OneName == \A w \in Writers : Alone(w) => OneNameOf(w)
-----------------------------------------------------------------------------
(* Files and what becomes of them in a step *)

File == [text : AnyText, by : {"honeypath", "user"}]

\* A file is made, or one that is there gets another text.
LEMMA NewFile ==
    ASSUME inode \in Seq(File), NEW f \in File
    PROVE  /\ Append(inode, f) \in Seq(File)
           /\ Len(Append(inode, f)) = Len(inode) + 1
           /\ Append(inode, f)[Len(inode) + 1] = f
           /\ \A i \in 1 .. Len(inode) : Append(inode, f)[i] = inode[i]
OBVIOUS

\* Another text leaves the file its owner, and the other files alone.
LEMMA NewText ==
    ASSUME inode \in Seq(File), NEW i \in 1 .. Len(inode), NEW t \in AnyText,
           NEW s, s = [inode EXCEPT ![i].text = t]
    PROVE  /\ s \in Seq(File) /\ Len(s) = Len(inode)
           /\ s[i].text = t /\ s[i].by = inode[i].by
           /\ \A j \in 1 .. Len(inode) : j # i => s[j] = inode[j]
<1>1. inode \in [1 .. Len(inode) -> File] /\ Len(inode) \in Nat OBVIOUS
<1>2. inode[i] \in File BY <1>1
<1>3. [inode[i] EXCEPT !.text = t] = [text |-> t, by |-> inode[i].by] BY <1>2 DEF File
<1>4. [text |-> t, by |-> inode[i].by] \in File BY <1>2 DEF File
<1>5. s \in [1 .. Len(inode) -> File] /\ s[i] = [text |-> t, by |-> inode[i].by]
      /\ \A j \in 1 .. Len(inode) : j # i => s[j] = inode[j]
  BY <1>1, <1>3, <1>4
<1>6. s \in Seq(File) /\ Len(s) = Len(inode) BY <1>1, <1>5
<1> QED BY <1>5, <1>6

\* Only these steps make a file or change one.
Writes(w) == MakeTemp(w) \/ ExclusiveCreate(w) \/ Fill(w)

\* All others leave the files as they are.
LEMMA FilesSame ==
    ASSUME [Next]_vars
    PROVE  Edit \/ Place \/ (\E w \in Writers : Writes(w)) \/ UNCHANGED inode
BY DEF Next, User, Remove, Step, Kill, Planning, Checking, Creating, Replacing, Registering, Undoing,
   Writes, PlanCreate, PlanRefresh, Plan, Skip, Recheck, RecheckDeclines, ReadExpected, Inspect,
   InspectRefuses, NoTemp, OpenCheck, OpenFails, HashCheck, HashRefuses, IdentityCheck,
   IdentityRefuses, Link, LinkRefuses, ExclusiveRefuses, FillFails, VerifyLink, VerifyRefuses,
   Stage, Exchange, ExchangeFails, Compare, CompareFails, Discard, HookRead, HookRejects, Reject,
   RecordCanary, RecordFails, UnlinkCheck, UnlinkRefuses, Unlink, UndoCheck, UndoRefuses,
   UndoExchange, UndoExchangeFails, UndoVerify, Stop, fileVars, vars

\* No step takes a file away or gives it to somebody else; a text becomes the
\* user's, or the one its command writes.
LEMMA FilesGrow ==
    ASSUME SafeWriteAssumption, Known, [Next]_vars
    PROVE  /\ inode' \in Seq(File) /\ Len(inode) \in Nat /\ Len(inode') \in Nat
           /\ Len(inode) <= Len(inode')
           /\ \A i \in 1 .. Len(inode) : inode'[i].by = inode[i].by
           /\ \A i \in 1 .. Len(inode) :
                 \/ inode'[i].text = inode[i].text \/ inode'[i].text = "user"
                 \/ \E w \in Writers : Fill(w) /\ i = op[w].tmp /\ inode'[i].text = Text(w)
           /\ \A i \in Len(inode) + 1 .. Len(inode') :
                 /\ i = Len(inode) + 1
                 /\ \/ Place /\ inode'[i] = [text |-> "user", by |-> "user"]
                    \/ \E w \in Writers :
                          /\ MakeTemp(w) \/ ExclusiveCreate(w)
                          /\ inode'[i].by = "honeypath"
                          /\ inode'[i].text = IF MakeTemp(w) THEN Text(w) ELSE "partial"
<1>0. inode \in Seq(File) /\ Len(inode) \in Nat /\ Dest \in 0 .. Len(inode)
  BY DEF Known, TypeOK, File, Dest, Names, Ino
<1>1. CASE UNCHANGED inode BY <1>0, <1>1
<1>2. CASE Edit
  <2>1. inode' = [inode EXCEPT ![Dest].text = "user"] /\ Dest \in 1 .. Len(inode)
    BY <1>0, <1>2 DEF Edit
  <2>2. "user" \in AnyText BY DEF AnyText
  <2>3. /\ inode' \in Seq(File) /\ Len(inode') = Len(inode)
        /\ inode'[Dest].text = "user" /\ inode'[Dest].by = inode[Dest].by
        /\ \A j \in 1 .. Len(inode) : j # Dest => inode'[j] = inode[j]
    BY <1>0, <2>1, <2>2, NewText
  <2> QED BY <1>0, <2>1, <2>3
<1>3. CASE Place
  <2> DEFINE f == [text |-> "user", by |-> "user"]
  <2>1. inode' = Append(inode, f) BY <1>3 DEF Place
  <2>2. f \in File BY DEF File, AnyText
  <2> HIDE DEF f
  <2>3. /\ inode' \in Seq(File) /\ Len(inode') = Len(inode) + 1 /\ inode'[Len(inode) + 1] = f
        /\ \A i \in 1 .. Len(inode) : inode'[i] = inode[i]
    BY <1>0, <2>1, <2>2, NewFile
  <2> QED BY <1>0, <1>3, <2>3 DEF f
<1>4. ASSUME NEW w \in Writers, MakeTemp(w) \/ ExclusiveCreate(w) PROVE
           /\ inode' \in Seq(File) /\ Len(inode') = Len(inode) + 1
           /\ \A i \in 1 .. Len(inode) : inode'[i] = inode[i]
           /\ inode'[Len(inode) + 1].by = "honeypath"
           /\ inode'[Len(inode) + 1].text = IF MakeTemp(w) THEN Text(w) ELSE "partial"
  <2> DEFINE f == [text |-> IF MakeTemp(w) THEN Text(w) ELSE "partial", by |-> "honeypath"]
  <2>1. pc[w] = "temp" <=> MakeTemp(w) BY <1>4 DEF MakeTemp, ExclusiveCreate, At
  <2>2. inode' = Append(inode, f) BY <1>4, <2>1 DEF MakeTemp, ExclusiveCreate, At
  <2>3. f \in File BY DEF File, AnyText, Text
  <2>4. f.by = "honeypath" /\ f.text = IF MakeTemp(w) THEN Text(w) ELSE "partial" OBVIOUS
  <2> HIDE DEF f
  <2>5. /\ inode' \in Seq(File) /\ Len(inode') = Len(inode) + 1 /\ inode'[Len(inode) + 1] = f
        /\ \A i \in 1 .. Len(inode) : inode'[i] = inode[i]
    BY <1>0, <2>2, <2>3, NewFile
  <2> QED BY <1>0, <2>4, <2>5
<1>5. CASE \E w \in Writers : MakeTemp(w) \/ ExclusiveCreate(w)
  <2>1. PICK w \in Writers : MakeTemp(w) \/ ExclusiveCreate(w) BY <1>5
  <2>2. /\ inode' \in Seq(File) /\ Len(inode') = Len(inode) + 1
        /\ \A i \in 1 .. Len(inode) : inode'[i] = inode[i]
        /\ inode'[Len(inode) + 1].by = "honeypath"
        /\ inode'[Len(inode) + 1].text = IF MakeTemp(w) THEN Text(w) ELSE "partial"
    BY <1>4, <2>1
  <2> QED BY <1>0, <2>1, <2>2
<1>6. ASSUME NEW w \in Writers, Fill(w) PROVE
           /\ inode' \in Seq(File) /\ Len(inode') = Len(inode) /\ op[w].tmp \in 1 .. Len(inode)
           /\ inode'[op[w].tmp].by = inode[op[w].tmp].by /\ inode'[op[w].tmp].text = Text(w)
           /\ \A i \in 1 .. Len(inode) : i # op[w].tmp => inode'[i] = inode[i]
  <2>1. op[w].tmp \in 0 .. Len(inode) /\ op[w].tmp # 0
    BY <1>6 DEF Fill, At, Known, TypeOK, Ino, Knows, Before, Places
  <2>2. Text(w) \in AnyText BY DEF Text, AnyText
  <2>3. inode' = [inode EXCEPT ![op[w].tmp].text = Text(w)] BY <1>6 DEF Fill
  <2> QED BY <1>0, <2>1, <2>2, <2>3, NewText
<1>7. CASE \E w \in Writers : Fill(w)
  <2>1. PICK w \in Writers : Fill(w) BY <1>7
  <2>2. /\ inode' \in Seq(File) /\ Len(inode') = Len(inode) /\ op[w].tmp \in 1 .. Len(inode)
        /\ inode'[op[w].tmp].by = inode[op[w].tmp].by /\ inode'[op[w].tmp].text = Text(w)
        /\ \A i \in 1 .. Len(inode) : i # op[w].tmp => inode'[i] = inode[i]
    BY <1>6, <2>1
  <2> QED BY <1>0, <2>1, <2>2
<1> QED BY <1>1, <1>2, <1>3, <1>5, <1>7, FilesSame DEF Writes
-----------------------------------------------------------------------------
(* What a command knows *)

\* A command moves nothing of another command's but what is at the path.
LEMMA OthersStay ==
    ASSUME SafeWriteAssumption, Known, NEW w \in Writers, Step(w) \/ Kill(w),
           NEW v \in Writers, v # w
    PROVE  pc'[v] = pc[v] /\ op'[v] = op[v] /\ name'[v] = name[v]
<1>0. pc \in [Writers -> Places] /\ name \in [Names -> Ino] /\ v \in Names /\ v # "dest"
      /\ w \in Names /\ "dest" \in Names /\ op = [u \in Writers |-> op[u]]
  BY DEF Known, TypeOK, Names, SafeWriteAssumption
<1> USE <1>0 DEF At, Set, Stop, Over, CleanStage, fileVars, Rest, RowStays, Mistakes
<1>1. CASE Planning(w)
  BY <1>1 DEF Planning, PlanCreate, PlanRefresh, Plan, Skip, Recheck, RecheckDeclines, ReadExpected
<1>2. CASE Checking(w)
  BY <1>2 DEF Checking, Inspect, InspectRefuses, MakeTemp, NoTemp, OpenCheck, OpenFails, HashCheck,
     HashRefuses, IdentityCheck, IdentityRefuses
<1>3. CASE Creating(w)
  BY <1>3 DEF Creating, Link, LinkRefuses, ExclusiveCreate, ExclusiveRefuses, Fill, FillFails,
     VerifyLink, VerifyRefuses
<1>4. CASE Replacing(w)
  BY <1>4 DEF Replacing, Stage, Exchange, Swapped, ExchangeFails, Compare, CompareFails, Discard
<1>5. CASE Registering(w)
  BY <1>5 DEF Registering, HookRead, HookRejects, Reject, RecordCanary, RecordFails
<1>6. CASE Undoing(w)
  BY <1>6 DEF Undoing, UnlinkCheck, UnlinkRefuses, Unlink, UndoCheck, UndoRefuses, UndoExchange,
     Swapped, UndoExchangeFails, UndoVerify
<1>7. CASE Kill(w) BY <1>7 DEF Kill
<1> QED BY <1>1, <1>2, <1>3, <1>4, <1>5, <1>6, <1>7 DEF Step

\* The user moves nothing but what is at the path.
LEMMA UserStays ==
    ASSUME SafeWriteAssumption, Known, User
    PROVE  /\ UNCHANGED <<pc, op, row>>
           /\ \A v \in Writers : name'[v] = name[v]
           /\ name' \in [Names -> Ino'] /\ dropped' \subseteq Ino'
<1>0. name \in [Names -> Ino] /\ "dest" \in Names /\ (\A v \in Writers : v \in Names /\ v # "dest")
      /\ dropped \subseteq Ino /\ Dest \in Ino
  BY DEF Known, TypeOK, Names, SafeWriteAssumption, Dest
<1>1. Len(inode) \in Nat /\ Ino \subseteq Ino' /\ (Place => Len(inode') = Len(inode) + 1)
  <2>1. [Next]_vars BY DEF Next
  <2>2. Place => inode' = Append(inode, [text |-> "user", by |-> "user"]) BY DEF Place
  <2>3. inode \in Seq(File) /\ [text |-> "user", by |-> "user"] \in File
    BY DEF Known, TypeOK, File, AnyText
  <2>4. Place => Len(inode') = Len(inode) + 1 BY <2>2, <2>3, NewFile
  <2> QED BY <2>1, <2>4, FilesGrow DEF Ino
<1>2. (Place => Len(inode) + 1 \in Ino') /\ 0 \in Ino' BY <1>1 DEF Ino
<1> QED BY <1>0, <1>1, <1>2 DEF User, Edit, Place, Remove, Act

Local == [mode : {"none", "create", "refresh"}, expected : AnyText, tmp : Ino, chk : Ino,
          inst : Ino, exch : Ino, seen : Ino, why : {"none", "mismatch", "reject", "fill"},
          outcome : {"none", "skipped", "refused", "failed", "rejected", "rollback", "written"}]

\* The numbers of files there are stay numbers of files.
LEMMA InoGrows ==
    ASSUME SafeWriteAssumption, Known, [Next]_vars
    PROVE  /\ Ino \subseteq Ino' /\ Len(inode) \in Nat /\ 0 \in Ino' /\ Dest \in Ino
           /\ \A w \in Writers : MakeTemp(w) \/ ExclusiveCreate(w) => Len(inode) + 1 \in Ino'
<1>1. Len(inode) \in Nat /\ Len(inode') \in Nat /\ Len(inode) <= Len(inode') BY FilesGrow
<1>2. \A w \in Writers : MakeTemp(w) \/ ExclusiveCreate(w) => Len(inode') = Len(inode) + 1
  BY FilesGrow, NewFile DEF MakeTemp, ExclusiveCreate, Known, TypeOK, File, AnyText, Text
<1>3. Dest \in Ino BY DEF Known, TypeOK, Names, Dest
<1> QED BY <1>1, <1>2, <1>3 DEF Ino

Outcomes == {"none", "skipped", "refused", "failed", "rejected", "rollback", "written"}

\* What a step may do to the command's local variables.
LEMMA LocalMoves ==
    ASSUME Known, NEW w \in Writers, Step(w) \/ Kill(w)
    PROVE  \/ UNCHANGED op
           \/ pc[w] = "plan" /\ \E m \in {"create", "refresh"} : Set(w, "mode", m)
           \/ Set(w, "expected", row.text)
           \/ (MakeTemp(w) \/ ExclusiveCreate(w)) /\ Set(w, "tmp", Len(inode) + 1)
           \/ pc[w] = "open" /\ Set(w, "chk", Dest)
           \/ HookRead(w) /\ Set(w, "seen", Dest)
           \/ \E y \in {"reject", "fill"} : Set(w, "why", y)
           \/ \E o \in Outcomes : Set(w, "outcome", o)
           \/ Compare(w)
<1> USE DEF Stop, Over, Outcomes, At
<1>1. CASE Planning(w)
  BY <1>1 DEF Planning, PlanCreate, PlanRefresh, Plan, Skip, Recheck, RecheckDeclines, ReadExpected
<1>2. CASE Checking(w)
  BY <1>2 DEF Checking, Inspect, InspectRefuses, MakeTemp, NoTemp, OpenCheck, OpenFails, HashCheck,
     HashRefuses, IdentityCheck, IdentityRefuses
<1>3. CASE Creating(w)
  BY <1>3 DEF Creating, Link, LinkRefuses, ExclusiveCreate, ExclusiveRefuses, Fill, FillFails,
     VerifyLink, VerifyRefuses
<1>4. CASE Replacing(w)
  BY <1>4 DEF Replacing, Stage, Exchange, ExchangeFails, CompareFails, Discard
<1>5. CASE Registering(w)
  BY <1>5 DEF Registering, HookRead, HookRejects, Reject, RecordCanary, RecordFails
<1>6. CASE Undoing(w)
  BY <1>6 DEF Undoing, UnlinkCheck, UnlinkRefuses, Unlink, UndoCheck, UndoRefuses, UndoExchange,
     UndoExchangeFails, UndoVerify, NotUndone
<1>7. CASE Kill(w) BY <1>7 DEF Kill
<1> QED BY <1>1, <1>2, <1>3, <1>4, <1>5, <1>6, <1>7 DEF Step

\* A command's step keeps its place and its local variables in their types.
LEMMA StepLocal ==
    ASSUME SafeWriteAssumption, Known, NEW w \in Writers, Step(w) \/ Kill(w)
    PROVE  pc' \in [Writers -> Places] /\ op' \in [Writers -> Local']
<1> [Next]_vars BY DEF Next
<1>0. Ino \subseteq Ino' /\ Dest \in Ino' /\ name[w] \in Ino' /\ row.text \in AnyText
      /\ (MakeTemp(w) \/ ExclusiveCreate(w) => Len(inode) + 1 \in Ino')
  BY InoGrows DEF Known, TypeOK, Names
<1>1. op \in [Writers -> Local']
  <2>1. Local \subseteq Local' BY <1>0 DEF Local
  <2> QED BY <2>1 DEF Known, TypeOK, Local
<1>2. op' \in [Writers -> Local']
  <2>1. ASSUME NEW m \in {"create", "refresh"}, Set(w, "mode", m) PROVE op' \in [Writers -> Local']
    BY <1>1, <2>1 DEF Set, Local
  <2>2. ASSUME Set(w, "expected", row.text) PROVE op' \in [Writers -> Local']
    BY <1>0, <1>1, <2>2 DEF Set, Local
  <2>3. ASSUME Set(w, "tmp", Len(inode) + 1), Len(inode) + 1 \in Ino' PROVE op' \in [Writers -> Local']
    BY <1>1, <2>3 DEF Set, Local
  <2>4. ASSUME Set(w, "chk", Dest) \/ Set(w, "seen", Dest) PROVE op' \in [Writers -> Local']
    BY <1>0, <1>1, <2>4 DEF Set, Local
  <2>5. ASSUME NEW y \in {"reject", "fill"}, Set(w, "why", y) PROVE op' \in [Writers -> Local']
    BY <1>1, <2>5 DEF Set, Local
  <2>6. ASSUME NEW o \in Outcomes, Set(w, "outcome", o) PROVE op' \in [Writers -> Local']
    BY <1>1, <2>6 DEF Set, Local, Outcomes
  <2>7. CASE Compare(w)
    <3> DEFINE why == IF Dest = op[w].tmp /\ name[w] = op[w].chk THEN "none" ELSE "mismatch"
    <3>1. op' = [op EXCEPT ![w].inst = Dest, ![w].exch = name[w], ![w].why = why]
      BY <2>7 DEF Compare
    <3>2. why \in {"none", "mismatch", "reject", "fill"} OBVIOUS
    <3>3. op[w] \in Local' BY <1>1
    <3> HIDE DEF why
    <3>4. [op[w] EXCEPT !.inst = Dest, !.exch = name[w], !.why = why] \in Local'
      BY <1>0, <3>2, <3>3 DEF Local
    <3>5. op' = [op EXCEPT ![w] = [op[w] EXCEPT !.inst = Dest, !.exch = name[w], !.why = why]]
      BY <1>1, <3>1
    <3> QED BY <1>1, <3>4, <3>5
  <2> QED BY <1>0, <1>1, <2>1, <2>2, <2>3, <2>4, <2>5, <2>6, <2>7, LocalMoves
<1>3. pc' \in [Writers -> Places]
  <2> pc \in [Writers -> Places] BY DEF Known
  <2> USE DEF At, Stop, Over, Places
  <2>1. CASE Planning(w)
    BY <2>1 DEF Planning, PlanCreate, PlanRefresh, Plan, Skip, Recheck, RecheckDeclines, ReadExpected
  <2>2. CASE Checking(w)
    BY <2>2 DEF Checking, Inspect, InspectRefuses, MakeTemp, NoTemp, OpenCheck, OpenFails, HashCheck,
       HashRefuses, IdentityCheck, IdentityRefuses
  <2>3. CASE Creating(w)
    BY <2>3 DEF Creating, Link, LinkRefuses, ExclusiveCreate, ExclusiveRefuses, Fill, FillFails,
       VerifyLink, VerifyRefuses
  <2>4. CASE Replacing(w)
    BY <2>4 DEF Replacing, Stage, Exchange, ExchangeFails, Compare, CompareFails, Discard
  <2>5. CASE Registering(w)
    BY <2>5 DEF Registering, HookRead, HookRejects, Reject, RecordCanary, RecordFails
  <2>6. CASE Undoing(w)
    BY <2>6 DEF Undoing, UnlinkCheck, UnlinkRefuses, Unlink, UndoCheck, UndoRefuses, UndoExchange,
       UndoExchangeFails, UndoVerify
  <2>7. CASE Kill(w) BY <2>7 DEF Kill
  <2> QED BY <2>1, <2>2, <2>3, <2>4, <2>5, <2>6, <2>7 DEF Step
<1> QED BY <1>2, <1>3

\* Only the two comparisons of texts can be mistaken.
LEMMA MistakeMoves ==
    ASSUME [Next]_vars
    PROVE  \/ mistaken' = mistaken
           \/ \E w \in Writers : HashCheck(w) /\ Mistakes(op[w].chk \notin recorded)
           \/ \E w \in Writers : HookRead(w) /\ Mistakes(Dest # op[w].tmp)
<1>1. ASSUME NEW w \in Writers, Step(w) \/ Kill(w)
      PROVE  \/ mistaken' = mistaken
             \/ HashCheck(w) /\ Mistakes(op[w].chk \notin recorded)
             \/ HookRead(w) /\ Mistakes(Dest # op[w].tmp)
  <2>1. CASE HashCheck(w) BY <2>1 DEF HashCheck
  <2>2. CASE HookRead(w) BY <2>2 DEF HookRead
  <2>3. CASE ~HashCheck(w) /\ ~HookRead(w)
    BY <1>1, <2>3 DEF Step, Kill, Planning, Checking, Creating, Replacing, Registering, Undoing,
     PlanCreate, PlanRefresh, Plan, Skip, Recheck, RecheckDeclines, ReadExpected, Inspect,
     InspectRefuses, MakeTemp, NoTemp, OpenCheck, OpenFails, HashRefuses, IdentityCheck,
     IdentityRefuses, Link, LinkRefuses, ExclusiveCreate, ExclusiveRefuses, Fill, FillFails,
     VerifyLink, VerifyRefuses, Stage, Exchange, ExchangeFails, Compare, CompareFails, Discard,
     HookRejects, Reject, RecordCanary, RecordFails, UnlinkCheck, UnlinkRefuses, Unlink, UndoCheck,
     UndoRefuses, UndoExchange, UndoExchangeFails, UndoVerify, Stop, Rest
  <2> QED BY <2>1, <2>2, <2>3
<1>2. CASE User \/ UNCHANGED vars BY <1>2 DEF vars, User, Edit, Place, Remove, Act
<1> QED BY <1>1, <1>2 DEF Next

\* A command's step keeps the histories in their types.
LEMMA StepHistory ==
    ASSUME SafeWriteAssumption, Known, NEW w \in Writers, Step(w) \/ Kill(w)
    PROVE  recorded' \subseteq Ino' /\ mistaken' \in BOOLEAN
<1> [Next]_vars BY DEF Next
<1>0. /\ op \in [Writers -> Local] /\ recorded \subseteq Ino /\ mistaken \in BOOLEAN
      /\ Ino \subseteq Ino' /\ op[w].seen \in Ino
  <2>1. op \in [Writers -> Local] BY DEF Known, TypeOK, Local
  <2> QED BY <2>1, InoGrows DEF Known, TypeOK, Local
<1>1. recorded' = recorded \/ recorded' = recorded \cup {op[w].seen}
  BY DEF Step, Kill, Planning, Checking, Creating, Replacing, Registering, Undoing,
   PlanCreate, PlanRefresh, Plan, Skip, Recheck, RecheckDeclines, ReadExpected, Inspect,
   InspectRefuses, MakeTemp, NoTemp, OpenCheck, OpenFails, HashCheck, HashRefuses, IdentityCheck,
   IdentityRefuses, Link, LinkRefuses, ExclusiveCreate, ExclusiveRefuses, Fill, FillFails, VerifyLink,
   VerifyRefuses, Stage, Exchange, ExchangeFails, Compare, CompareFails, Discard, HookRead, HookRejects,
   Reject, RecordCanary, RecordFails, UnlinkCheck, UnlinkRefuses, Unlink, UndoCheck, UndoRefuses,
   UndoExchange, UndoExchangeFails, UndoVerify, Stop, Rest, RowStays, Mistakes
<1>2. mistaken' \in BOOLEAN
  <2>1. ASSUME NEW wrong, Mistakes(wrong) PROVE mistaken' \in BOOLEAN BY <2>1, Zenon DEF Mistakes
  <2> QED BY <1>0, <2>1, MistakeMoves
<1> QED BY <1>0, <1>1, <1>2

\* A command's step keeps the rest in its type.
LEMMA StepTyped ==
    ASSUME SafeWriteAssumption, Known, NEW w \in Writers, Step(w) \/ Kill(w)
    PROVE  /\ name' \in [Names -> Ino'] /\ row' \in [ino : Ino', text : AnyText]
           /\ UNCHANGED <<tmpfile, static, dropped, acts>>
           /\ faults' \in 0 .. MaxFaults /\ kills' \in 0 .. MaxKills
<1> [Next]_vars BY DEF Next
<1>0. /\ name \in [Names -> Ino] /\ w \in Names /\ "dest" \in Names /\ op \in [Writers -> Local]
      /\ row \in [ino : Ino, text : AnyText]
      /\ faults \in 0 .. MaxFaults /\ kills \in 0 .. MaxKills /\ Text(w) \in AnyText
  BY DEF Known, TypeOK, Names, Local, Text, AnyText
<1>1. Ino \subseteq Ino' /\ 0 \in Ino' /\ Dest \in Ino /\ name[w] \in Ino BY <1>0, InoGrows
<1>2. op[w].tmp \in Ino' /\ op[w].seen \in Ino' BY <1>0, <1>1 DEF Local
<1>3. row \in [ino : Ino', text : AnyText] /\ name \in [Names -> Ino'] BY <1>0, <1>1
<1>a. MaxFaults \in Nat /\ MaxKills \in Nat BY DEF SafeWriteAssumption
<1> USE <1>1, <1>2, <1>3 DEF At, Stop, Over, CleanStage, fileVars, hostVars, Rest, RowStays, Mistakes
<1>4. CASE Planning(w)
  BY <1>0, <1>4 DEF Planning, PlanCreate, PlanRefresh, Plan, Skip, Recheck, RecheckDeclines,
     ReadExpected
<1>5. CASE Checking(w)
  BY <1>0, <1>5 DEF Checking, Inspect, InspectRefuses, MakeTemp, NoTemp, OpenCheck, OpenFails,
     HashCheck, HashRefuses, IdentityCheck, IdentityRefuses
<1>6. CASE Creating(w)
  <2>1. ExclusiveCreate(w) => Len(inode) + 1 \in Ino' BY InoGrows
  <2> QED
    BY <1>0, <1>a, <1>6, <2>1 DEF Creating, Link, LinkRefuses, ExclusiveCreate, ExclusiveRefuses,
       Fill, FillFails, VerifyLink, VerifyRefuses
<1>7. CASE Replacing(w)
  BY <1>0, <1>7 DEF Replacing, Stage, Exchange, Swapped, ExchangeFails, Compare, CompareFails,
     Discard
<1>8. CASE Registering(w)
  BY <1>0, <1>a, <1>8 DEF Registering, HookRead, HookRejects, Reject, RecordCanary, RecordFails
<1>9. CASE Undoing(w)
  BY <1>0, <1>9 DEF Undoing, UnlinkCheck, UnlinkRefuses, Unlink, UndoCheck, UndoRefuses,
     UndoExchange, Swapped, UndoExchangeFails, UndoVerify
<1>10. CASE Kill(w) BY <1>0, <1>a, <1>10 DEF Kill
<1> QED BY <1>4, <1>5, <1>6, <1>7, <1>8, <1>9, <1>10 DEF Step

\* A command's step keeps what it knows.
LEMMA StepKnows ==
    ASSUME SafeWriteAssumption, Known, NEW w \in Writers, Step(w) \/ Kill(w)
    PROVE  Knows(w)'
<1> [Next]_vars BY DEF Next
<1>0. /\ pc \in [Writers -> Places] /\ name \in [Names -> Ino] /\ w \in Names /\ "dest" \in Names
      /\ op \in [Writers -> Local] /\ Knows(w) /\ w # "dest"
  BY DEF Known, TypeOK, Names, Local, SafeWriteAssumption
<1>2. Len(inode) \in Nat /\ Dest \in Ino BY InoGrows
<1> USE <1>0, <1>2 DEF At, Set, Stop, Over, CleanStage, fileVars, Rest, RowStays, Mistakes, Places, Local, Knows,
        Creates, Before, Unnamed, OnlyCreates, OnlyReplaces, Compared
<1>4. CASE Planning(w)
  BY <1>4 DEF Planning, PlanCreate, PlanRefresh, Plan, Skip, Recheck, RecheckDeclines, ReadExpected, NoOp
<1>5. CASE Checking(w)
  BY <1>5 DEF Checking, Inspect, InspectRefuses, MakeTemp, NoTemp, OpenCheck, OpenFails,
     HashCheck, HashRefuses, IdentityCheck, IdentityRefuses
<1>6. CASE Creating(w)
  BY <1>6 DEF Creating, Link, LinkRefuses, ExclusiveCreate, ExclusiveRefuses, Fill, FillFails,
     VerifyLink, VerifyRefuses
<1>7. CASE Replacing(w)
  BY <1>7 DEF Replacing, Stage, Exchange, Swapped, ExchangeFails, Compare, CompareFails, Discard
<1>8. CASE Registering(w)
  <2>1. CASE HookRead(w)
    <3>1. Dest # 0 BY <2>1 DEF HookRead, TextAt, Text, SafeWriteAssumption
    <3> QED BY <2>1, <3>1 DEF HookRead
  <2>2. CASE RecordCanary(w) BY <2>2 DEF RecordCanary
  <2>3. CASE HookRejects(w) \/ RecordFails(w) BY <2>3 DEF HookRejects, RecordFails, Reject
  <2> QED BY <1>8, <2>1, <2>2, <2>3 DEF Registering
<1>9. CASE Undoing(w)
  BY <1>9 DEF Undoing, UnlinkCheck, UnlinkRefuses, Unlink, UndoCheck, UndoRefuses, UndoExchange,
     Swapped, UndoExchangeFails, UndoVerify, UndoKnows, NotUndone
<1>10. CASE Kill(w) BY <1>10 DEF Kill
<1> QED BY <1>4, <1>5, <1>6, <1>7, <1>8, <1>9, <1>10 DEF Step

\* A command that undoes its exchange knows both of the files.
LEMMA UndoKnown ==
    ASSUME SafeWriteAssumption, Known, NEW w \in Writers, Step(w) \/ Kill(w),
           pc'[w] \in {"undo", "swap", "undone"}
    PROVE  op'[w].inst # 0 /\ op'[w].exch # 0
<1>0. /\ pc \in [Writers -> Places] /\ op \in [Writers -> Local] /\ Knows(w)
      /\ pc[w] \in {"undo", "swap", "undone"} => op[w].inst # 0 /\ op[w].exch # 0
  BY DEF Known, TypeOK, Local
<1> USE <1>0 DEF At, Set, Stop, Over, Rest, RowStays, Mistakes
<1>1. CASE Planning(w)
  BY <1>1 DEF Planning, PlanCreate, PlanRefresh, Plan, Skip, Recheck, RecheckDeclines, ReadExpected
<1>2. CASE Checking(w)
  BY <1>2 DEF Checking, Inspect, InspectRefuses, MakeTemp, NoTemp, OpenCheck, OpenFails, HashCheck,
     HashRefuses, IdentityCheck, IdentityRefuses
<1>3. CASE Creating(w)
  BY <1>3 DEF Creating, Link, LinkRefuses, ExclusiveCreate, ExclusiveRefuses, Fill, FillFails,
     VerifyLink, VerifyRefuses
<1>4. CASE Replacing(w)
  BY <1>4 DEF Replacing, Stage, Exchange, ExchangeFails, Compare, CompareFails, Discard, Knows, Local
<1>5. CASE Registering(w)
  <2>1. CASE HookRead(w) \/ RecordCanary(w) BY <2>1 DEF HookRead, RecordCanary
  <2>2. CASE HookRejects(w) \/ RecordFails(w)
    <3>1. pc[w] \in {"hook", "commit"} /\ op' = [op EXCEPT ![w]["why"] = "reject"]
          /\ (pc'[w] = IF Creates(w) THEN "unlinkcheck" ELSE "undo")
      BY <2>2 DEF HookRejects, RecordFails, Reject
    <3>2. ~Creates(w) /\ op[w].tmp # 0 /\ op[w].chk # 0 BY <3>1 DEF Knows, Places, Before, Compared
    <3>3. op[w].inst # 0 /\ op[w].exch # 0 BY <3>1, <3>2 DEF Knows
    <3>4. op'[w].inst = op[w].inst /\ op'[w].exch = op[w].exch BY <3>1 DEF Local
    <3> QED BY <3>3, <3>4
  <2> QED BY <1>5, <2>1, <2>2 DEF Registering
<1>6. CASE Undoing(w)
  BY <1>6 DEF Undoing, UnlinkCheck, UnlinkRefuses, Unlink, UndoCheck, UndoRefuses, UndoExchange,
     UndoExchangeFails, UndoVerify
<1>7. CASE Kill(w) BY <1>7 DEF Kill
<1> QED BY <1>1, <1>2, <1>3, <1>4, <1>5, <1>6, <1>7 DEF Step

\* Who steps: a command, the user or nobody.
LEMMA TypeStep ==
    ASSUME SafeWriteAssumption, Known, [Next]_vars
    PROVE  /\ TypeOK' /\ pc' \in [Writers -> Places]
           /\ \A w \in Writers : Knows(w)'
<1>0. /\ TypeOK /\ pc \in [Writers -> Places] /\ (\A w \in Writers : Knows(w))
      /\ inode' \in Seq(File) /\ op \in [Writers -> Local] /\ Ino \subseteq Ino'
      /\ MaxUser \in Nat
  BY FilesGrow, InoGrows DEF Known, TypeOK, Local, SafeWriteAssumption
<1>1. ASSUME NEW w \in Writers, Step(w) \/ Kill(w)
      PROVE  TypeOK' /\ pc' \in [Writers -> Places] /\ \A v \in Writers : Knows(v)'
  <2>1. /\ pc' \in [Writers -> Places] /\ op' \in [Writers -> Local']
        /\ name' \in [Names -> Ino'] /\ row' \in [ino : Ino', text : AnyText]
        /\ UNCHANGED <<tmpfile, static, dropped, acts>>
        /\ recorded' \subseteq Ino' /\ mistaken' \in BOOLEAN
        /\ faults' \in 0 .. MaxFaults /\ kills' \in 0 .. MaxKills
    BY <1>1, StepLocal, StepTyped, StepHistory
  <2>2. ASSUME NEW v \in Writers, v # w
        PROVE  pc'[v] = pc[v] /\ op'[v] = op[v] /\ name'[v] = name[v]
    BY <1>1, <2>2, OthersStay
  <2>3. Knows(w)' BY <1>1, StepKnows
  <2>4. ASSUME NEW v \in Writers, v # w PROVE Knows(v)'
    BY <1>0, <2>2, <2>4 DEF Knows, Creates
  <2>5. pc'[w] \in {"undo", "swap", "undone"} => op'[w].inst # 0 /\ op'[w].exch # 0
    BY <1>1, UndoKnown
  <2>6. \A v \in Writers : pc'[v] \in {"undo", "swap", "undone"} => op'[v].inst # 0 /\ op'[v].exch # 0
    BY <1>0, <2>2, <2>5 DEF TypeOK
  <2>7. dropped' \subseteq Ino' /\ tmpfile' \in Tmpfiles /\ static' \in StaticTexts /\ acts' \in 0 .. MaxUser
    BY <1>0, <2>1 DEF TypeOK
  <2>8. TypeOK' BY <1>0, <2>1, <2>6, <2>7 DEF TypeOK, File, Local
  <2> QED BY <2>1, <2>3, <2>4, <2>8
<1>2. CASE User
  <2>1. UNCHANGED <<pc, op, row>> /\ (\A v \in Writers : name'[v] = name[v])
        /\ name' \in [Names -> Ino'] /\ dropped' \subseteq Ino'
    BY <1>2, UserStays
  <2>2. UNCHANGED <<tmpfile, static, recorded, mistaken, faults, kills>> /\ acts' \in 0 .. MaxUser
    BY <1>0, <1>2 DEF User, Edit, Place, Remove, Act, TypeOK
  <2>3. op \in [Writers -> Local'] /\ row \in [ino : Ino', text : AnyText]
    <3>1. Local \subseteq Local' BY <1>0 DEF Local
    <3> QED BY <1>0, <3>1 DEF TypeOK
  <2>4. TypeOK' BY <1>0, <2>1, <2>2, <2>3 DEF TypeOK, File, Local
  <2> QED BY <1>0, <2>1, <2>4 DEF Knows, Creates
<1>3. CASE UNCHANGED vars
  BY <1>0, <1>3 DEF vars, fileVars, hostVars, TypeOK, Knows, Creates, Ino
<1> QED BY <1>1, <1>2, <1>3 DEF Next
-----------------------------------------------------------------------------
(* What is known of the files *)

\* What each of a command's local variables may become.
LEMMA FieldMoves ==
    ASSUME SafeWriteAssumption, Known, NEW w \in Writers, Step(w) \/ Kill(w)
    PROVE  /\ op'[w].mode = op[w].mode \/ pc[w] = "plan"
           /\ op'[w].expected \in {op[w].expected, row.text}
           /\ op'[w].chk = op[w].chk \/ pc[w] = "open"
           /\ \/ op'[w].tmp = op[w].tmp
              \/ op'[w].tmp = Len(inode) + 1 /\ (MakeTemp(w) \/ ExclusiveCreate(w))
           /\ op'[w].seen = op[w].seen \/ (HookRead(w) /\ op'[w].seen = Dest)
           /\ op'[w].why = op[w].why \/ op'[w].why \in {"reject", "fill"} \/ pc[w] = "compare"
<1>0. op \in [Writers -> Local] BY DEF Known, TypeOK, Local
<1> USE <1>0 DEF Set, Local
<1>1. CASE UNCHANGED op BY <1>1
<1>2. ASSUME NEW m, pc[w] = "plan", Set(w, "mode", m)
      PROVE  /\ op'[w].expected = op[w].expected /\ op'[w].chk = op[w].chk /\ op'[w].tmp = op[w].tmp
             /\ op'[w].seen = op[w].seen /\ op'[w].why = op[w].why
  BY <1>2
<1>3. CASE Set(w, "expected", row.text) BY <1>3
<1>4. CASE (MakeTemp(w) \/ ExclusiveCreate(w)) /\ Set(w, "tmp", Len(inode) + 1) BY <1>4
<1>5. CASE pc[w] = "open" /\ Set(w, "chk", Dest) BY <1>5
<1>6. CASE HookRead(w) /\ Set(w, "seen", Dest) BY <1>6
<1>7. CASE \E y \in {"reject", "fill"} : Set(w, "why", y) BY <1>7
<1>8. ASSUME NEW o, Set(w, "outcome", o)
      PROVE  /\ op'[w].expected = op[w].expected /\ op'[w].chk = op[w].chk /\ op'[w].tmp = op[w].tmp
             /\ op'[w].seen = op[w].seen /\ op'[w].why = op[w].why /\ op'[w].mode = op[w].mode
  BY <1>8
<1>9. CASE Compare(w) BY <1>9 DEF Compare, At
<1> QED BY <1>1, <1>2, <1>3, <1>4, <1>5, <1>6, <1>7, <1>8, <1>9, LocalMoves

\* The same, whoever steps.
LEMMA Moves ==
    ASSUME SafeWriteAssumption, Known, [Next]_vars, NEW w \in Writers
    PROVE  /\ op'[w].mode = op[w].mode \/ pc[w] = "plan"
           /\ op'[w].expected \in {op[w].expected, row.text}
           /\ op'[w].chk = op[w].chk \/ pc[w] = "open"
           /\ \/ op'[w].tmp = op[w].tmp
              \/ /\ op[w].tmp = 0 /\ op'[w].tmp = Len(inode) + 1
                 /\ MakeTemp(w) \/ ExclusiveCreate(w)
           /\ op'[w].seen = op[w].seen \/ (HookRead(w) /\ op'[w].seen = Dest)
           /\ op'[w].why = op[w].why \/ op'[w].why \in {"reject", "fill"} \/ pc[w] = "compare"
<1>1. ASSUME NEW v \in Writers, v # w, Step(v) \/ Kill(v) PROVE op'[w] = op[w]
  BY <1>1, OthersStay
<1>2. CASE Step(w) \/ Kill(w)
  <2>1. MakeTemp(w) \/ ExclusiveCreate(w) => op[w].tmp = 0
    BY DEF MakeTemp, ExclusiveCreate, At, Known, Knows, Before
  <2> QED BY <1>2, <2>1, FieldMoves
<1>3. CASE User \/ UNCHANGED vars BY <1>3, UserStays DEF vars
<1> QED BY <1>1, <1>2, <1>3 DEF Next

\* How commands move, whoever steps.
LEMMA PlaceMoves ==
    ASSUME SafeWriteAssumption, Known, [Next]_vars, NEW w \in Writers
    PROVE  /\ pc[w] \in After => pc'[w] \in After
           /\ pc'[w] \in Compared => pc[w] \in Compared \/ HashCheck(w) \/ VerifyLink(w)
           /\ pc'[w] = "commit" => pc[w] = "commit" \/ HookRead(w)
           /\ pc'[w] = "discard" => pc[w] = "discard" \/ RecordCanary(w)
           /\ RecordCanary(w) => pc'[w] \in After
<1>1. ASSUME NEW v \in Writers, v # w, Step(v) \/ Kill(v) PROVE pc'[w] = pc[w]
  BY <1>1, OthersStay
<1>2. CASE Step(w) \/ Kill(w)
  <2>0. pc \in [Writers -> Places] /\ pc' \in [Writers -> Places] BY <1>2, StepLocal DEF Known
  <2> USE <2>0 DEF At, Stop, Over, After, Compared, Places
  <2>1. CASE Planning(w)
    BY <2>1 DEF Planning, PlanCreate, PlanRefresh, Plan, Skip, Recheck, RecheckDeclines, ReadExpected,
       RecordCanary
  <2>8. CASE HashCheck(w) \/ VerifyLink(w)
    <3>1. pc[w] \in {"hash", "verify"} /\ pc'[w] \in {"identity", "hook"} /\ ~RecordCanary(w)
      BY <2>8 DEF HashCheck, VerifyLink, RecordCanary
    <3> QED BY <2>8, <3>1
  <2>2. CASE Checking(w) /\ ~HashCheck(w)
    BY <2>2 DEF Checking, Inspect, InspectRefuses, MakeTemp, NoTemp, OpenCheck, OpenFails, HashRefuses,
       IdentityCheck, IdentityRefuses, RecordCanary
  <2>3. CASE Creating(w) /\ ~VerifyLink(w)
    BY <2>3 DEF Creating, Link, LinkRefuses, ExclusiveCreate, ExclusiveRefuses, Fill, FillFails,
       VerifyRefuses, RecordCanary
  <2>4. CASE Replacing(w)
    BY <2>4 DEF Replacing, Stage, Exchange, ExchangeFails, Compare, CompareFails, Discard, RecordCanary
  <2>5. CASE Registering(w)
    BY <2>5 DEF Registering, HookRead, HookRejects, Reject, RecordCanary, RecordFails
  <2>6. CASE Undoing(w)
    BY <2>6 DEF Undoing, UnlinkCheck, UnlinkRefuses, Unlink, UndoCheck, UndoRefuses, UndoExchange,
       UndoExchangeFails, UndoVerify, RecordCanary
  <2>7. CASE Kill(w) BY <2>7 DEF Kill, RecordCanary
  <2> QED BY <1>2, <2>1, <2>2, <2>3, <2>4, <2>5, <2>6, <2>7, <2>8 DEF Step
<1>4. RecordCanary(w) => Step(w) BY DEF Step, Registering
<1>3. CASE (User \/ UNCHANGED vars) /\ ~Step(w) BY <1>3, <1>4, UserStays DEF vars
<1> QED BY <1>1, <1>2, <1>3, <1>4 DEF Next

\* Only a command that commits changes the row.
LEMMA RowMoves ==
    ASSUME SafeWriteAssumption, Known, [Next]_vars
    PROVE  (row' = row /\ recorded' = recorded) \/ \E w \in Writers : RecordCanary(w)
<1>1. ASSUME NEW w \in Writers, Step(w) \/ Kill(w)
      PROVE  (row' = row /\ recorded' = recorded) \/ RecordCanary(w)
  BY <1>1 DEF Step, Kill, Planning, Checking, Creating, Replacing, Registering, Undoing,
   PlanCreate, PlanRefresh, Plan, Skip, Recheck, RecheckDeclines, ReadExpected, Inspect,
   InspectRefuses, MakeTemp, NoTemp, OpenCheck, OpenFails, HashCheck, HashRefuses, IdentityCheck,
   IdentityRefuses, Link, LinkRefuses, ExclusiveCreate, ExclusiveRefuses, Fill, FillFails, VerifyLink,
   VerifyRefuses, Stage, Exchange, ExchangeFails, Compare, CompareFails, Discard, HookRead, HookRejects,
   Reject, RecordFails, UnlinkCheck, UnlinkRefuses, Unlink, UndoCheck, UndoRefuses,
   UndoExchange, UndoExchangeFails, UndoVerify, Stop, Rest, RowStays, Mistakes
<1>2. CASE User \/ UNCHANGED vars BY <1>2 DEF vars, User, Edit, Place, Remove, Act
<1> QED BY <1>1, <1>2 DEF Next

\* How texts are told apart never changes, and a mistake is not forgotten.
LEMMA MistakesStay ==
    ASSUME SafeWriteAssumption, Known, [Next]_vars
    PROVE  static' = static /\ (mistaken => mistaken')
<1>1. static' = static
  <2>1. ASSUME NEW w \in Writers, Step(w) \/ Kill(w) PROVE static' = static BY <2>1, StepTyped
  <2> QED BY <2>1 DEF Next, vars, hostVars, User, Edit, Place, Remove, Act
<1>2. mistaken => mistaken' BY MistakeMoves DEF Mistakes
<1> QED BY <1>1, <1>2

\* What is known of the files stays so.
LEMMA FilesStep ==
    ASSUME SafeWriteAssumption, Known, [Next]_vars
    PROVE  Files'
<1>0. /\ Len(inode) \in Nat /\ Len(inode') \in Nat /\ Len(inode) <= Len(inode')
      /\ \A i \in 1 .. Len(inode) : inode'[i].by = inode[i].by
      /\ inode \in Seq(File) /\ inode' \in Seq(File) /\ Files
      /\ op \in [Writers -> Local]
  BY FilesGrow DEF Known, TypeOK, File, Local
<1>1. DOMAIN inode = 1 .. Len(inode) /\ DOMAIN inode' = 1 .. Len(inode') BY <1>0
<1>2. \A w \in Writers : Text(w) \notin {"user", "none", "partial"}
  BY DEF Text, SafeWriteAssumption
<1>3. row'.text # "user" /\ \A w \in Writers : op'[w].expected # "user"
  <2>1. row'.text # "user" BY <1>0, <1>2, RowMoves DEF RecordCanary, Files
  <2>2. ASSUME NEW w \in Writers PROVE op'[w].expected # "user"
    BY <1>0, Moves DEF Files
  <2> QED BY <2>1, <2>2
<1>4. ASSUME NEW w \in Writers, op'[w].tmp # 0 PROVE inode'[op'[w].tmp].by = "honeypath"
  <2>1. CASE op'[w].tmp = op[w].tmp
    <3>1. op[w].tmp \in 1 .. Len(inode) BY <1>0, <1>4, <2>1 DEF Local, Ino
    <3> QED BY <1>0, <1>4, <2>1, <3>1 DEF Files
  <2>2. CASE op'[w].tmp = Len(inode) + 1 /\ (MakeTemp(w) \/ ExclusiveCreate(w))
    <3> DEFINE f == [text |-> IF MakeTemp(w) THEN Text(w) ELSE "partial", by |-> "honeypath"]
    <3>1. pc[w] = "temp" <=> MakeTemp(w) BY <2>2 DEF MakeTemp, ExclusiveCreate, At
    <3>2. inode' = Append(inode, f) BY <2>2, <3>1 DEF MakeTemp, ExclusiveCreate, At
    <3>3. f \in File BY DEF File, AnyText, Text
    <3>4. f.by = "honeypath" OBVIOUS
    <3> HIDE DEF f
    <3> QED BY <1>0, <2>2, <3>2, <3>3, <3>4, NewFile
  <2> QED BY <2>1, <2>2, Moves
<1>5. ASSUME NEW v \in Writers, NEW w \in Writers, op'[v].tmp = op'[w].tmp, op'[v].tmp # 0
      PROVE  v = w
  <2>1. op[v].tmp \in 0 .. Len(inode) /\ op[w].tmp \in 0 .. Len(inode) BY <1>0 DEF Local, Ino
  <2>2. CASE op'[v].tmp = op[v].tmp /\ op'[w].tmp = op[w].tmp BY <1>0, <1>5, <2>2 DEF Files
  <2>3. CASE op'[v].tmp # op[v].tmp /\ op'[w].tmp # op[w].tmp
    <3>1. (MakeTemp(v) \/ ExclusiveCreate(v)) /\ (MakeTemp(w) \/ ExclusiveCreate(w)) BY <2>3, Moves
    <3>2. Step(v) BY <3>1 DEF Step, Checking, Creating
    <3>3. v # w => op'[w] = op[w] BY <3>2, OthersStay
    <3> QED BY <2>3, <3>3
  <2> QED BY <1>0, <1>5, <2>1, <2>2, <2>3, Moves
<1>6. ASSUME NEW i \in DOMAIN inode'
      PROVE  inode'[i].text # "none" /\ (inode'[i].by = "user" => inode'[i].text = "user")
  <2>1. CASE i \in 1 .. Len(inode)
    <3>1. ASSUME NEW w \in Writers, Fill(w), i = op[w].tmp PROVE inode[i].by = "honeypath"
      BY <1>0, <2>1, <3>1 DEF Files
    <3>2. inode[i].text # "none" /\ (inode[i].by = "user" => inode[i].text = "user")
          /\ inode'[i].by = inode[i].by
      BY <1>0, <1>1, <2>1 DEF Files
    <3>3. \/ inode'[i].text = inode[i].text \/ inode'[i].text = "user"
          \/ \E w \in Writers : Fill(w) /\ i = op[w].tmp /\ inode'[i].text = Text(w)
      BY <2>1, FilesGrow
    <3> QED BY <1>2, <3>1, <3>2, <3>3
  <2>2. CASE i \in Len(inode) + 1 .. Len(inode')
    <3>1. \/ inode'[i] = [text |-> "user", by |-> "user"]
          \/ \E w \in Writers :
                /\ inode'[i].by = "honeypath"
                /\ inode'[i].text = IF MakeTemp(w) THEN Text(w) ELSE "partial"
      BY <2>2, FilesGrow
    <3> QED BY <1>2, <3>1
  <2> QED BY <1>0, <1>1, <2>1, <2>2
<1>7. ASSUME NEW w \in Writers, pc'[w] \in Compared, op'[w].mode # "create"
      PROVE  inode'[op'[w].chk].by = "honeypath"
  <2>1. CASE HashCheck(w)
    <3>1. Step(w) /\ op' = op /\ inode' = inode /\ pc[w] = "hash"
      BY <2>1 DEF HashCheck, Step, Checking, fileVars, At
    <3>2. ~Creates(w) /\ op[w].chk # 0 BY <3>1 DEF Known, Knows, OnlyReplaces, Compared
    <3>3. op[w].chk \in 1 .. Len(inode) BY <1>0, <3>2 DEF Local, Ino
    <3>4. inode[op[w].chk].text # "user" BY <1>0, <2>1 DEF HashCheck, AsExpected, Files
    <3>5. inode[op[w].chk] \in File BY <1>0, <3>3
    <3> QED BY <1>0, <1>1, <3>1, <3>3, <3>4, <3>5 DEF Files, File
  <2>2. CASE VerifyLink(w)
    <3>1. op' = op /\ pc[w] = "verify" BY <2>2 DEF VerifyLink, At
    <3> QED BY <1>7, <3>1 DEF Known, Knows, OnlyCreates, Creates
  <2>3. CASE pc[w] \in Compared
    <3>1. pc[w] # "plan" /\ pc[w] # "open" BY <2>3 DEF Compared
    <3>2. op'[w].mode = op[w].mode /\ op'[w].chk = op[w].chk BY <3>1, Moves
    <3>3. op[w].chk \in 1 .. Len(inode)
      BY <1>0, <1>7, <2>3, <3>2 DEF Known, Knows, Creates, Local, Ino
    <3> QED BY <1>0, <1>7, <2>3, <3>2, <3>3 DEF Files, Creates
  <2> QED BY <1>7, <2>1, <2>2, <2>3, PlaceMoves
<1> QED BY <1>3, <1>4, <1>5, <1>6, <1>7 DEF Files, Creates

\* The invariant that everything rests on holds.
LEMMA AlwaysKnown == ASSUME SafeWriteAssumption PROVE Spec => []Known
<1>1. Init => Known
  <2> SUFFICES ASSUME Init PROVE Known OBVIOUS
  <2>1. PICK there \in BOOLEAN :
            /\ tmpfile \in Tmpfiles /\ static \in StaticTexts
            /\ recorded = (IF there THEN {1} ELSE {}) /\ mistaken = FALSE
            /\ name = [n \in Names |-> IF there /\ n = "dest" THEN 1 ELSE 0]
            /\ inode = IF there THEN <<[text |-> "catalog", by |-> "honeypath"]>> ELSE <<>>
            /\ row = IF there THEN [ino |-> 1, text |-> "catalog"] ELSE [ino |-> 0, text |-> "none"]
            /\ pc = [w \in Writers |-> "plan"] /\ op = [w \in Writers |-> NoOp]
            /\ dropped = {} /\ faults = 0 /\ kills = 0 /\ acts = 0
    BY DEF Init
  <2>2. inode \in Seq(File) /\ Len(inode) = (IF there THEN 1 ELSE 0)
        /\ \A i \in DOMAIN inode : inode[i] = [text |-> "catalog", by |-> "honeypath"]
    <3>1. [text |-> "catalog", by |-> "honeypath"] \in File BY DEF File, AnyText
    <3>2. CASE there BY <2>1, <3>1, <3>2
    <3>3. CASE ~there BY <2>1, <3>3
    <3> QED BY <3>2, <3>3
  <2>3. TypeOK
    <3>1. 0 \in Ino /\ (there => 1 \in Ino) BY <2>2 DEF Ino
    <3>2. NoOp \in Local BY <3>1 DEF NoOp, Local, AnyText
    <3>3. name \in [Names -> Ino] /\ row \in [ino : Ino, text : AnyText]
      BY <2>1, <3>1 DEF AnyText
    <3>4. recorded \subseteq Ino /\ mistaken \in BOOLEAN /\ dropped \subseteq Ino BY <2>1, <3>1
    <3> QED BY <2>1, <2>2, <3>2, <3>3, <3>4 DEF TypeOK, File, Local, SafeWriteAssumption
  <2>4. \A w \in Writers : Knows(w)
    BY <2>1 DEF Knows, NoOp, Creates, Before, Unnamed, OnlyCreates, OnlyReplaces, Compared, Places,
       Names, SafeWriteAssumption
  <2>5. Files BY <2>1, <2>2 DEF Files, NoOp, Compared
  <2> QED BY <2>1, <2>3, <2>4, <2>5 DEF Known, Places
<1>2. Known /\ [Next]_vars => Known' BY SafeWriteAssumption, TypeStep, FilesStep DEF Known
<1> QED BY <1>1, <1>2, PTL DEF Spec

\* Every variable stays in its type: in particular nothing names, and no command
\* holds, a file that was never made, and an undo knows both files.
THEOREM TypeCorrect == ASSUME SafeWriteAssumption PROVE Spec => []TypeOK
<1>1. Known => TypeOK BY DEF Known
<1> QED BY <1>1, AlwaysKnown, PTL
-----------------------------------------------------------------------------
(* Names *)

\* What a command's step may do to the names.
LEMMA NameMoves ==
    ASSUME SafeWriteAssumption, Known, NEW w \in Writers, Step(w) \/ Kill(w)
    PROVE  \/ UNCHANGED name
           \/ name' = CleanStage(w) /\ pc[w] \notin After \cup {"commit"}
           \/ /\ Dest = 0
              /\ \E i \in {op[w].tmp, Len(inode) + 1} : name' = [name EXCEPT !["dest"] = i]
           \/ name[w] = 0 /\ \E i : name' = [name EXCEPT ![w] = i]
           \/ name' = Swapped(w)
           \/ /\ name' = [name EXCEPT ![w] = 0]
              /\ name[w] = op[w].chk /\ pc[w] = "discard"
           \/ Unlink(w)
<1> Knows(w) /\ pc[w] \in Places BY DEF Known
<1> USE DEF Stop, Over, Rest, RowStays, Mistakes, At, fileVars, After
<1>1. CASE Planning(w)
  BY <1>1 DEF Planning, PlanCreate, PlanRefresh, Plan, Skip, Recheck, RecheckDeclines, ReadExpected
<1>2. CASE Checking(w)
  BY <1>2 DEF Checking, Inspect, InspectRefuses, MakeTemp, NoTemp, OpenCheck, OpenFails, HashCheck,
     HashRefuses, IdentityCheck, IdentityRefuses
<1>3. CASE Creating(w)
  BY <1>3 DEF Creating, Link, LinkRefuses, ExclusiveCreate, ExclusiveRefuses, Fill, FillFails,
     VerifyLink, VerifyRefuses
<1>4. CASE Replacing(w)
  BY <1>4 DEF Replacing, Stage, Exchange, ExchangeFails, Compare, CompareFails, Discard, Knows,
     Unnamed, OnlyReplaces
<1>5. CASE Registering(w)
  BY <1>5 DEF Registering, HookRead, HookRejects, Reject, RecordCanary, RecordFails
<1>6. CASE Undoing(w)
  BY <1>6 DEF Undoing, UnlinkCheck, UnlinkRefuses, UndoCheck, UndoRefuses, UndoExchange,
     UndoExchangeFails, UndoVerify
<1>7. CASE Kill(w) BY <1>7 DEF Kill
<1> QED BY <1>1, <1>2, <1>3, <1>4, <1>5, <1>6, <1>7 DEF Step

\* The command that made file i may remove it again, and the one that has replaced
\* it is about to.
Losable(i) ==
    \E w \in Writers :
        \/ i = op[w].tmp /\ pc[w] \notin After \cup {"commit"}
        \/ i = op[w].chk /\ pc[w] = "discard"

\* Whatever else happens, a file keeps a name until the user takes it away.
LEMMA KeptStep ==
    ASSUME SafeWriteAssumption, Known, [Next]_vars, NEW i \in 1 .. Len(inode), Kept(i), ~Losable(i)
    PROVE  Kept(i)'
<1>0. name \in [Names -> Ino] /\ Len(inode) \in Nat /\ (\A w \in Writers : w \in Names /\ w # "dest")
      /\ "dest" \in Names /\ i # 0
  BY InoGrows DEF Known, TypeOK, Names, SafeWriteAssumption
<1>1. dropped \subseteq dropped'
  <2>1. ASSUME NEW w \in Writers, Step(w) \/ Kill(w) PROVE dropped' = dropped
    BY <2>1, StepTyped
  <2> QED BY <2>1 DEF Next, User, Edit, Place, Remove, vars, hostVars
<1>2. Unlinked => Unlinked'
  <2> SUFFICES ASSUME NEW w \in Writers, Creates(w), op[w].why \in {"reject", "fill"} PROVE Unlinked'
    BY DEF Unlinked
  <2>1. pc[w] # "plan" /\ pc[w] # "compare" BY DEF Known, Knows, NoOp, Creates, OnlyReplaces
  <2>2. op'[w].mode = "create" /\ op'[w].why \in {"reject", "fill"} BY <2>1, Moves DEF Creates
  <2> QED BY <2>2 DEF Unlinked, Creates
<1>3. ASSUME Linked(i), User PROVE Linked(i)' \/ i \in dropped'
  BY <1>0, <1>3 DEF Linked, User, Edit, Place, Remove, Act, Dest
<1>4. ASSUME NEW w \in Writers, Step(w) \/ Kill(w), Linked(i) PROVE Kept(i)'
  <2>1. CASE UNCHANGED name BY <1>4, <2>1 DEF Kept, Linked
  <2>2. CASE name' = CleanStage(w) /\ pc[w] \notin After \cup {"commit"}
    BY <1>0, <1>4, <2>2 DEF Kept, Linked, CleanStage, Losable
  <2>3. CASE /\ Dest = 0
             /\ \E j \in {op[w].tmp, Len(inode) + 1} : name' = [name EXCEPT !["dest"] = j]
    BY <1>0, <1>4, <2>3 DEF Kept, Linked, Dest
  <2>5. CASE name[w] = 0 /\ \E j : name' = [name EXCEPT ![w] = j]
    BY <1>0, <1>4, <2>5 DEF Kept, Linked
  <2>6. CASE name' = Swapped(w) BY <1>0, <1>4, <2>6 DEF Kept, Linked, Swapped, Dest
  <2>7. CASE /\ name' = [name EXCEPT ![w] = 0]
             /\ name[w] = op[w].chk /\ pc[w] = "discard"
    BY <1>0, <1>4, <2>7 DEF Kept, Linked, Losable
  <2>8. CASE Unlink(w)
    <3>1. Creates(w) /\ op[w].why \in {"reject", "fill"}
      BY <2>8 DEF Unlink, At, Known, Knows, OnlyCreates
    <3>2. Unlinked BY <3>1 DEF Unlinked
    <3> QED BY <1>2, <3>2 DEF Kept
  <2> QED BY <1>4, <2>1, <2>2, <2>3, <2>5, <2>6, <2>7, <2>8, NameMoves
<1>5. CASE UNCHANGED vars
  BY <1>5 DEF vars, fileVars, hostVars, Kept, Linked, Unlinked, Creates
<1> QED BY <1>1, <1>2, <1>3, <1>4, <1>5 DEF Next, Kept

\* A file the user put at the path keeps a name, the path's or a staging one, until
\* the user takes it away or the removal of a rejected or partial creation unlinks it.
THEOREM UsersFilesKept == ASSUME SafeWriteAssumption PROVE Spec => []UserFileKept
<1>1. Init => UserFileKept
  <2>1. Init => \A i \in DOMAIN inode : inode[i].by = "honeypath" BY DEF Init
  <2> QED BY <2>1 DEF UserFileKept
<1>2. Known /\ UserFileKept /\ [Next]_vars => UserFileKept'
  <2> SUFFICES ASSUME Known, UserFileKept, [Next]_vars, NEW i \in DOMAIN inode', inode'[i].by = "user"
               PROVE  Kept(i)'
    BY DEF UserFileKept, Kept
  <2>0. /\ inode \in Seq(File) /\ inode' \in Seq(File) /\ Len(inode) \in Nat /\ Len(inode') \in Nat
        /\ DOMAIN inode = 1 .. Len(inode) /\ DOMAIN inode' = 1 .. Len(inode')
    BY SafeWriteAssumption, FilesGrow DEF Known, TypeOK, File
  <2>1. CASE i \in 1 .. Len(inode)
    <3>1. inode[i].by = "user" BY <2>1, SafeWriteAssumption, FilesGrow
    <3>2. Kept(i) BY <2>0, <2>1, <3>1 DEF UserFileKept, Kept
    <3>3. ASSUME NEW w \in Writers, i = op[w].tmp PROVE FALSE
      BY <2>1, <3>1, <3>3 DEF Known, Files
    <3>4. ASSUME NEW w \in Writers, i = op[w].chk, pc[w] = "discard" PROVE FALSE
      BY <3>1, <3>4 DEF Known, Files, Knows, OnlyReplaces, Compared
    <3> QED BY <2>1, <3>2, <3>3, <3>4, SafeWriteAssumption, KeptStep DEF Losable
  <2>2. CASE i \in Len(inode) + 1 .. Len(inode')
    <3>1. Place /\ i = Len(inode) + 1 BY <2>2, SafeWriteAssumption, FilesGrow
    <3>2. name \in [Names -> Ino] /\ "dest" \in Names BY DEF Known, TypeOK, Names
    <3>3. name'["dest"] = i BY <3>1, <3>2 DEF Place
    <3> QED BY <3>2, <3>3 DEF Kept, Linked
  <2> QED BY <2>0, <2>1, <2>2
<1> QED BY <1>1, <1>2, AlwaysKnown, PTL DEF Spec
-----------------------------------------------------------------------------
(* The recorded file *)

\* Nothing that the row describes, or is about to describe, can be discarded.
LEMMA SafeStep ==
    ASSUME SafeWriteAssumption, Known, Safe, [Next]_vars, ~mistaken'
    PROVE  Safe'
<1>0. /\ Len(inode) \in Nat /\ inode \in Seq(File) /\ op \in [Writers -> Local]
      /\ DOMAIN inode = 1 .. Len(inode) /\ row.ino \in 0 .. Len(inode) /\ recorded \subseteq Ino
  BY FilesGrow DEF Known, TypeOK, File, Local, Ino
<1>2. \A w \in Writers : op[w].tmp \in 0 .. Len(inode) /\ op[w].chk \in 0 .. Len(inode)
  BY <1>0 DEF Local, Ino
<1>3. ASSUME NEW w \in Writers, op'[w].tmp \in recorded' PROVE pc'[w] \in After
  <2>1. CASE recorded' = recorded
    <3>1. op[w].tmp = op'[w].tmp BY <1>0, <1>3, <2>1, Moves DEF Ino
    <3> QED BY <1>3, <2>1, <3>1, PlaceMoves DEF Safe
  <2>2. ASSUME NEW u \in Writers, RecordCanary(u) PROVE pc'[w] \in After
    <3>1. pc[u] = "commit" /\ recorded' = recorded \cup {op[u].seen} BY <2>2 DEF RecordCanary, At
    <3>2. op[u].seen = op[u].tmp /\ op[u].tmp # 0 BY <3>1 DEF Safe, Known, Knows
    <3>3. op'[w].tmp \in {op[w].tmp, Len(inode) + 1} /\ op[u].tmp \in 0 .. Len(inode) BY <1>2, Moves
    <3>4. op'[w].tmp = op[w].tmp BY <1>0, <1>3, <3>1, <3>2, <3>3 DEF Ino
    <3>5. CASE op[w].tmp \in recorded BY <3>5, PlaceMoves DEF Safe
    <3>6. CASE op[w].tmp = op[u].tmp
      <4>1. w = u BY <3>2, <3>6 DEF Known, Files
      <4> QED BY <2>2, <4>1, PlaceMoves
    <3> QED BY <1>3, <3>1, <3>2, <3>4, <3>5, <3>6
  <2> QED BY <2>1, <2>2, RowMoves
<1>a. 0 \notin recorded' /\ (row'.ino # 0 => row'.ino \in recorded')
  <2>1. CASE row' = row /\ recorded' = recorded BY <2>1 DEF Safe
  <2>2. ASSUME NEW u \in Writers, RecordCanary(u) PROVE 0 \notin recorded' /\ row'.ino \in recorded'
    <3>1. /\ pc[u] = "commit" /\ recorded' = recorded \cup {op[u].seen} /\ row'.ino = op[u].seen
      BY <2>2 DEF RecordCanary, At
    <3> QED BY <3>1 DEF Safe, Known, Knows
  <2> QED BY <2>1, <2>2, RowMoves
<1>4. ASSUME NEW w \in Writers, pc'[w] = "commit" PROVE op'[w].seen = op'[w].tmp
  <2>1. CASE pc[w] = "commit"
    <3>1. ~HookRead(w) /\ ~MakeTemp(w) /\ ~ExclusiveCreate(w)
      BY <2>1 DEF HookRead, MakeTemp, ExclusiveCreate, At
    <3> QED BY <2>1, <3>1, Moves DEF Safe
  <2>2. CASE HookRead(w)
    <3>1. op' = [op EXCEPT ![w]["seen"] = Dest] /\ Dest = op[w].tmp
      BY <2>2 DEF HookRead, Set, Mistakes
    <3> QED BY <1>0, <3>1 DEF Local
  <2> QED BY <1>4, <2>1, <2>2, PlaceMoves
<1>5. ASSUME NEW v \in Writers, NEW w \in Writers, pc'[v] \in Compared, op'[v].mode # "create",
             op'[v].chk = op'[w].tmp
      PROVE  pc'[w] \in After
  <2>1. CASE HashCheck(v)
    <3>1. op' = op /\ op[v].chk \in recorded BY <2>1 DEF HashCheck, Mistakes
    <3> QED BY <1>5, <3>1, PlaceMoves DEF Safe
  <2>2. CASE VerifyLink(v)
    <3>1. op' = op /\ pc[v] = "verify" BY <2>2 DEF VerifyLink, At
    <3> QED BY <1>5, <3>1 DEF Known, Knows, OnlyCreates, Creates
  <2>3. CASE pc[v] \in Compared
    <3>1. pc[v] # "plan" /\ pc[v] # "open" BY <2>3 DEF Compared
    <3>2. op'[v].mode = op[v].mode /\ op'[v].chk = op[v].chk BY <3>1, Moves
    <3>3. op[v].chk # 0 BY <1>5, <2>3, <3>2 DEF Known, Knows, Creates
    <3>a. op'[w].tmp \in {op[w].tmp, Len(inode) + 1} /\ op[v].chk \in 0 .. Len(inode) BY <1>2, Moves
    <3>4. op'[w].tmp = op[w].tmp BY <1>0, <1>5, <3>a, <3>2, <3>3
    <3> QED BY <1>5, <2>3, <3>2, <3>4, PlaceMoves DEF Safe, Creates
  <2> QED BY <1>5, <2>1, <2>2, <2>3, PlaceMoves
<1>6. ASSUME NEW w \in Writers, pc'[w] = "discard" PROVE row'.ino # op'[w].chk
  <2>1. ASSUME NEW u \in Writers, RecordCanary(u) PROVE row'.ino # op'[w].chk
    <3>1. pc[u] = "commit" /\ row'.ino = op[u].seen /\ u \in Writers BY <2>1 DEF RecordCanary, At
    <3>2. op[u].seen = op[u].tmp /\ pc[u] \notin After BY <3>1 DEF Safe, After
    <3>3. pc[w] \in {"commit", "discard"} /\ ~Creates(w)
      <4>1. CASE pc[w] = "discard" BY <4>1 DEF Known, Knows, OnlyReplaces
      <4>2. CASE RecordCanary(w)
        <5>1. pc' = [pc EXCEPT ![w] = IF Creates(w) THEN "done" ELSE "discard"] /\ pc[w] = "commit"
          BY <4>2 DEF RecordCanary, At
        <5> QED BY <1>6, <5>1 DEF Known
      <4> QED BY <1>6, <4>1, <4>2, PlaceMoves
    <3>4. op'[w].chk = op[w].chk BY <3>3, Moves
    <3>5. op[w].chk # op[u].tmp BY <3>1, <3>2, <3>3 DEF Safe, Compared
    <3> QED BY <3>1, <3>2, <3>4, <3>5
  <2>2. CASE pc[w] = "discard" /\ row' = row BY <2>2, Moves DEF Safe
  <2> QED BY <1>6, <2>1, <2>2, RowMoves, PlaceMoves
<1> QED BY <1>3, <1>a, <1>4, <1>5, <1>6 DEF Safe, Creates

\* The file that the row describes, and the one a commit is about to name, are kept.
LEMMA RowKeptStep ==
    ASSUME SafeWriteAssumption, Known, Safe, RowKept, [Next]_vars
    PROVE  RowKept'
<1>0. /\ Len(inode) \in Nat /\ op \in [Writers -> Local] /\ row.ino \in 0 .. Len(inode)
  BY FilesGrow DEF Known, TypeOK, Local, Ino
<1>1. \A w \in Writers : op[w].seen \in 0 .. Len(inode) BY <1>0 DEF Local, Ino
<1>2. ASSUME NEW w \in Writers, pc[w] = "commit"
      PROVE  op[w].seen \in 1 .. Len(inode) /\ Kept(op[w].seen) /\ ~Losable(op[w].seen)
  <2>1. op[w].seen = op[w].tmp /\ op[w].seen # 0 /\ pc[w] \notin After
    BY <1>2 DEF Safe, Known, Knows, After
  <2>2. ASSUME NEW v \in Writers, op[w].seen = op[v].tmp, pc[v] \notin After \cup {"commit"}
        PROVE  FALSE
    BY <1>2, <2>1, <2>2 DEF Known, Files
  <2>3. ASSUME NEW v \in Writers, op[w].seen = op[v].chk, pc[v] = "discard" PROVE FALSE
    BY <2>1, <2>3 DEF Safe, Known, Knows, OnlyReplaces, Compared
  <2>4. Kept(op[w].seen) BY <1>2 DEF RowKept
  <2> QED BY <1>0, <1>1, <2>1, <2>2, <2>3, <2>4 DEF Losable
<1>3. ASSUME NEW j, j # 0, row'.ino = j PROVE Kept(j)'
  <2>1. CASE row' = row
    <3>1. ~Losable(j) BY <1>3, <2>1 DEF Losable, Safe
    <3>2. j \in 1 .. Len(inode) /\ Kept(j) BY <1>0, <1>3, <2>1 DEF RowKept
    <3> QED BY <3>1, <3>2, KeptStep
  <2>2. ASSUME NEW u \in Writers, RecordCanary(u) PROVE Kept(j)'
    <3>1. pc[u] = "commit" /\ j = op[u].seen BY <1>3, <2>2 DEF RecordCanary, At
    <3> QED BY <1>2, <3>1, KeptStep
  <2> QED BY <2>1, <2>2, RowMoves
<1>4. ASSUME NEW w \in Writers, NEW j, pc'[w] = "commit", op'[w].seen = j PROVE Kept(j)'
  <2>1. CASE pc[w] = "commit"
    <3>1. ~HookRead(w) BY <2>1 DEF HookRead, At
    <3>2. j = op[w].seen BY <1>4, <3>1, Moves
    <3> QED BY <1>2, <2>1, <3>2, KeptStep
  <2>2. CASE HookRead(w)
    <3>1. op' = [op EXCEPT ![w]["seen"] = Dest] /\ name' = name
      BY <2>2 DEF HookRead, Set, fileVars
    <3>2. j = name'["dest"] BY <1>0, <1>4, <3>1 DEF Local, Dest
    <3> QED BY <3>2 DEF Kept, Linked, Names
  <2> QED BY <1>4, <2>1, <2>2, PlaceMoves
<1> QED BY <1>3, <1>4 DEF RowKept

\* The file the row describes exists, whatever was killed or failed, unless the user
\* removed it, the removal of a rejected or partial creation unlinked it, or equal texts
\* made a command take a file for another one.
THEOREM RecordedFilesKept ==
    ASSUME SafeWriteAssumption PROVE Spec => []RecordedFileKept
<1>1. Init => Safe /\ RowKept
  <2> SUFFICES ASSUME Init PROVE Safe /\ RowKept OBVIOUS
  <2>1. PICK there \in BOOLEAN :
            /\ name = [n \in Names |-> IF there /\ n = "dest" THEN 1 ELSE 0]
            /\ row = IF there THEN [ino |-> 1, text |-> "catalog"] ELSE [ino |-> 0, text |-> "none"]
            /\ recorded = (IF there THEN {1} ELSE {})
            /\ pc = [w \in Writers |-> "plan"] /\ op = [w \in Writers |-> NoOp]
    BY DEF Init
  <2>2. Safe BY <2>1 DEF Safe, NoOp, Compared, Creates
  <2>3. row.ino # 0 => name["dest"] = row.ino BY <2>1 DEF Names
  <2>4. RowKept BY <2>1, <2>3 DEF RowKept, Kept, Linked, Names
  <2> QED BY <2>2, <2>4
<1>2. Known /\ (~mistaken => Safe /\ RowKept) /\ [Next]_vars => (~mistaken => Safe /\ RowKept)'
  BY SafeWriteAssumption, MistakesStay, SafeStep, RowKeptStep
<1>3. (~mistaken => Safe /\ RowKept) => RecordedFileKept BY DEF RowKept, RecordedFileKept, Kept
<1> QED BY <1>1, <1>2, <1>3, AlwaysKnown, PTL DEF Spec

\* Where texts differ, the text of a file says which command made it.
LEMMA MarksStep ==
    ASSUME SafeWriteAssumption, ~static, Known, Marks, [Next]_vars
    PROVE  Marks' /\ (mistaken' => mistaken)
<1>0. /\ Len(inode) \in Nat /\ Len(inode') \in Nat /\ Len(inode) <= Len(inode')
      /\ inode \in Seq(File) /\ inode' \in Seq(File) /\ op \in [Writers -> Local]
      /\ DOMAIN inode = 1 .. Len(inode) /\ DOMAIN inode' = 1 .. Len(inode')
  BY FilesGrow DEF Known, TypeOK, File, Local
<1>1. \A w \in Writers : Text(w) = w /\ w \notin {"user", "none", "partial", "catalog"}
  BY DEF Text, SafeWriteAssumption
<1>a. recorded \subseteq recorded' /\ 0 \notin recorded /\ 0 \notin recorded'
  BY RowMoves DEF RecordCanary, At, Marks, Known, Knows
<1>b. ASSUME NEW w \in Writers, op[w].tmp \in recorded PROVE op'[w].tmp \in recorded'
  <2>1. op'[w].tmp = op[w].tmp BY <1>a, <1>b, Moves
  <2> QED BY <1>a, <1>b, <2>1
<1>2. ASSUME NEW w \in Writers, row'.text = w PROVE op'[w].tmp \in recorded'
  <2>1. CASE row' = row BY <1>2, <1>b, <2>1 DEF Marks
  <2>2. ASSUME NEW u \in Writers, RecordCanary(u) PROVE op'[w].tmp \in recorded'
    <3>1. u = w BY <1>1, <1>2, <2>2 DEF RecordCanary
    <3>2. pc[w] = "commit" /\ recorded' = recorded \cup {op[w].seen} BY <2>2, <3>1 DEF RecordCanary, At
    <3>3. op[w].tmp # 0 /\ op[w].seen = op[w].tmp BY <3>2 DEF Marks, Known, Knows
    <3>4. op'[w].tmp = op[w].tmp BY <3>3, Moves
    <3> QED BY <3>2, <3>3, <3>4
  <2> QED BY <2>1, <2>2, RowMoves
<1>3. ASSUME NEW v \in Writers, NEW w \in Writers, op'[v].expected = w PROVE op'[w].tmp \in recorded'
  BY <1>3, <1>b, Moves DEF Marks
<1>4. ASSUME NEW w \in Writers, MakeTemp(w) \/ ExclusiveCreate(w)
      PROVE  op[w].tmp = 0 /\ op'[w].tmp = Len(inode) + 1
  <2>1. pc[w] \in {"temp", "excl"} /\ op' = [op EXCEPT ![w]["tmp"] = Len(inode) + 1]
    BY <1>4 DEF MakeTemp, ExclusiveCreate, Set, At
  <2>2. op[w].tmp = 0 BY <2>1 DEF Known, Knows, Before
  <2> QED BY <1>0, <2>1, <2>2 DEF Local
<1>5. ASSUME NEW i \in DOMAIN inode', NEW w \in Writers, inode'[i].text = w PROVE op'[w].tmp = i
  <2>1. CASE i \in 1 .. Len(inode)
    <3>1. \/ inode'[i].text = inode[i].text \/ inode'[i].text = "user"
          \/ \E u \in Writers : i = op[u].tmp /\ inode'[i].text = Text(u)
      BY <2>1, FilesGrow
    <3>2. op[w].tmp = i BY <1>0, <1>1, <1>5, <2>1, <3>1 DEF Marks
    <3>3. i # 0 BY <1>0, <2>1
    <3> QED BY <3>2, <3>3, Moves
  <2>2. CASE i \in Len(inode) + 1 .. Len(inode')
    <3>1. /\ i = Len(inode) + 1
          /\ \/ inode'[i] = [text |-> "user", by |-> "user"]
             \/ \E u \in Writers :
                   /\ MakeTemp(u) \/ ExclusiveCreate(u)
                   /\ inode'[i].text = IF MakeTemp(u) THEN Text(u) ELSE "partial"
      BY <2>2, FilesGrow
    <3>2. MakeTemp(w) BY <1>1, <1>5, <3>1
    <3> QED BY <1>4, <3>1, <3>2
  <2> QED BY <1>0, <2>1, <2>2
<1>6. ASSUME NEW i \in DOMAIN inode', inode'[i].text = "catalog" PROVE i \in recorded'
  <2>1. i \in 1 .. Len(inode) /\ inode[i].text = "catalog" BY <1>0, <1>1, <1>6, FilesGrow
  <2> QED BY <1>0, <1>a, <2>1 DEF Marks
<1>7. row'.text \in Writers \cup {"catalog", "none"} BY <1>1, RowMoves DEF RecordCanary, Marks
<1>8. ASSUME NEW w \in Writers PROVE op'[w].expected \in Writers \cup {"catalog", "none"}
  BY Moves DEF Marks
<1>9. ASSUME NEW w \in Writers, HookRead(w) PROVE Dest = op[w].tmp
  <2>1. TextAt = w BY <1>1, <1>9 DEF HookRead
  <2>2. Dest # 0 /\ inode[Dest].text = w BY <1>1, <2>1 DEF TextAt
  <2>3. Dest \in DOMAIN inode BY <1>0, <2>2 DEF Known, TypeOK, Dest, Names, Ino
  <2> QED BY <2>2, <2>3 DEF Marks
<1>10. ASSUME NEW w \in Writers, HashCheck(w) PROVE op[w].chk \in recorded
  <2>1. pc[w] = "hash" /\ inode[op[w].chk].text = op[w].expected
    BY <1>10 DEF HashCheck, AsExpected, At
  <2>2. op[w].chk # 0 /\ op[w].chk \in 0 .. Len(inode)
    BY <1>0, <2>1 DEF Known, Knows, OnlyReplaces, Local, Ino
  <2>3. op[w].chk \in DOMAIN inode BY <1>0, <2>2
  <2>4. op[w].expected \in Writers \cup {"catalog"} BY <2>1, <2>3 DEF Known, Files, Marks
  <2>5. CASE op[w].expected \in Writers BY <2>1, <2>3, <2>5 DEF Marks
  <2>6. CASE op[w].expected = "catalog" BY <2>1, <2>3, <2>6 DEF Marks
  <2> QED BY <2>4, <2>5, <2>6
<1>11. ASSUME NEW w \in Writers, pc'[w] = "commit" PROVE op'[w].seen = op'[w].tmp
  <2>1. CASE pc[w] = "commit"
    <3>1. ~HookRead(w) /\ ~MakeTemp(w) /\ ~ExclusiveCreate(w)
      BY <2>1 DEF HookRead, MakeTemp, ExclusiveCreate, At
    <3> QED BY <2>1, <3>1, Moves DEF Marks
  <2>2. CASE HookRead(w)
    <3>1. op' = [op EXCEPT ![w]["seen"] = Dest] BY <2>2 DEF HookRead, Set
    <3> QED BY <1>0, <1>9, <2>2, <3>1 DEF Local
  <2> QED BY <1>11, <2>1, <2>2, PlaceMoves
<1>12. mistaken' => mistaken
  <2>1. \/ mistaken' = mistaken
        \/ \E w \in Writers : HashCheck(w) /\ Mistakes(op[w].chk \notin recorded)
        \/ \E w \in Writers : HookRead(w) /\ Mistakes(Dest # op[w].tmp)
    BY MistakeMoves
  <2> QED BY <1>9, <1>10, <2>1 DEF Mistakes
<1> QED BY <1>a, <1>2, <1>3, <1>5, <1>6, <1>7, <1>8, <1>11, <1>12 DEF Marks

\* No command takes a file for another one where the catalog gives each its own text: the
\* exception that the other theorems make is about static entries only.
THEOREM TextsTellApart == ASSUME SafeWriteAssumption PROVE Spec => [](~static => ~mistaken)
<1>1. Init => Marks /\ ~mistaken
  <2> SUFFICES ASSUME Init PROVE Marks /\ ~mistaken OBVIOUS
  <2>1. PICK there \in BOOLEAN :
            /\ inode = IF there THEN <<[text |-> "catalog", by |-> "honeypath"]>> ELSE <<>>
            /\ row = IF there THEN [ino |-> 1, text |-> "catalog"] ELSE [ino |-> 0, text |-> "none"]
            /\ recorded = (IF there THEN {1} ELSE {}) /\ mistaken = FALSE
            /\ pc = [w \in Writers |-> "plan"] /\ op = [w \in Writers |-> NoOp]
    BY DEF Init
  <2>2. \A i \in DOMAIN inode : inode[i].text = "catalog" /\ i \in recorded BY <2>1
  <2>3. "none" \notin Writers /\ "catalog" \notin Writers BY DEF SafeWriteAssumption
  <2> QED BY <2>1, <2>2, <2>3 DEF Marks, NoOp
<1>2. Known /\ (~static => Marks /\ ~mistaken) /\ [Next]_vars => (~static => Marks /\ ~mistaken)'
  BY SafeWriteAssumption, MistakesStay, MarksStep
<1> QED BY <1>1, <1>2, AlwaysKnown, PTL DEF Spec

-----------------------------------------------------------------------------
(* The files of commands that were refused *)

\* A command that replaces files keeps being one.
LEMMA ReplacedStays ==
    ASSUME SafeWriteAssumption, Known, [Next]_vars, NEW w \in Writers, Replaced(w)
    PROVE  Replaced(w)'
<1>1. PICK v \in Writers \ {w} : ~Creates(v) /\ op[v].tmp # 0 BY DEF Replaced
<1>2. pc[v] # "plan" BY <1>1 DEF Known, Knows, NoOp
<1>3. op'[v].mode = op[v].mode /\ op'[v].tmp = op[v].tmp BY <1>1, <1>2, Moves
<1> QED BY <1>1, <1>3 DEF Replaced, Creates

\* Somebody else's step gives a command's file no name, unless it replaces files.
LEMMA OthersGiveNoName ==
    ASSUME SafeWriteAssumption, Known, NEW w \in Writers,
           \/ User \/ UNCHANGED vars
           \/ \E v \in Writers : v # w /\ (Step(v) \/ Kill(v)),
           ~Replaced(w)', op[w].tmp # 0, Dest' = op[w].tmp
    PROVE  Dest = op[w].tmp
<1>0. /\ name \in [Names -> Ino] /\ "dest" \in Names /\ Len(inode) \in Nat /\ op[w].tmp \in Ino
      /\ op[w].tmp # Len(inode) + 1 /\ [Next]_vars
      /\ \A v \in Writers : v \in Names /\ v # "dest"
  <2>1. [Next]_vars BY DEF Next
  <2>2. Len(inode) \in Nat /\ op[w].tmp \in Ino BY <2>1, InoGrows DEF Known, TypeOK
  <2> QED BY <2>1, <2>2 DEF Known, TypeOK, Names, SafeWriteAssumption, Ino
<1>1. CASE User BY <1>0, <1>1 DEF User, Edit, Place, Remove, Dest
<1>2. ASSUME NEW v \in Writers, v # w, Step(v) \/ Kill(v) PROVE Dest = op[w].tmp
  <2>1. name[v] = 0
    <3>1. name[v] # 0 => ~Creates(v) /\ op[v].tmp # 0 BY DEF Known, Knows
    <3> QED BY <1>0, <1>2, <3>1, ReplacedStays DEF Replaced
  <2>2. op[v].tmp # op[w].tmp BY <1>2 DEF Known, Files
  <2>3. CASE UNCHANGED name BY <2>3 DEF Dest
  <2>4. CASE name' = CleanStage(v) BY <2>1, <2>4 DEF CleanStage, Dest
  <2>5. CASE \E i \in {op[v].tmp, Len(inode) + 1} : name' = [name EXCEPT !["dest"] = i]
    BY <1>0, <2>2, <2>5 DEF Dest
  <2>7. CASE \E i : name' = [name EXCEPT ![v] = i] BY <1>0, <2>7 DEF Dest
  <2>8. CASE name' = Swapped(v) BY <1>0, <2>1, <2>8 DEF Swapped, Dest
  <2>9. CASE Unlink(v) BY <1>0, <2>9 DEF Unlink, Dest
  <2> QED BY <1>2, <2>3, <2>4, <2>5, <2>7, <2>8, <2>9, NameMoves
<1>3. CASE UNCHANGED vars BY <1>3 DEF vars, fileVars, Dest
<1> QED BY <1>1, <1>2, <1>3

\* A command's own step keeps its file in its place.
LEMMA OwnName ==
    ASSUME SafeWriteAssumption, Known, NEW w \in Writers, Step(w) \/ Kill(w),
           op[w].tmp # 0, OneNameOf(w)
    PROVE  OneNameOf(w)'
<1>0. /\ name \in [Names -> Ino] /\ w \in Names /\ "dest" \in Names /\ w # "dest"
      /\ pc \in [Writers -> Places] /\ op \in [Writers -> Local] /\ Knows(w)
  BY DEF Known, TypeOK, Names, Local, SafeWriteAssumption
<1>1. op'[w].tmp = op[w].tmp
  <2>1. [Next]_vars BY DEF Next
  <2> QED BY <2>1, Moves
<1>2. pc[w] \notin Before BY DEF Known, Knows
<1> USE <1>0, <1>1 DEF At, Set, Stop, Over, CleanStage, fileVars, Rest, RowStays, Mistakes, Places, Local, OneNameOf,
        Nameless, Unnamed, Before, Ended, Dest
<1>3. CASE Planning(w)
  BY <1>2, <1>3 DEF Planning, PlanCreate, PlanRefresh, Plan, Skip, Recheck, RecheckDeclines, ReadExpected
<1>4. CASE Checking(w)
  BY <1>2, <1>4 DEF Checking, Inspect, InspectRefuses, MakeTemp, NoTemp, OpenCheck, OpenFails,
     HashCheck, HashRefuses, IdentityCheck, IdentityRefuses
<1>5. CASE Creating(w)
  BY <1>2, <1>5 DEF Creating, Link, LinkRefuses, ExclusiveCreate, ExclusiveRefuses, Fill, FillFails,
     VerifyLink, VerifyRefuses
<1>6. CASE Replacing(w)
  BY <1>2, <1>6 DEF Replacing, Stage, Exchange, Swapped, ExchangeFails, Compare, CompareFails, Discard
<1>7. CASE Registering(w)
  BY <1>7 DEF Registering, HookRead, HookRejects, Reject, RecordCanary, RecordFails
<1>8. CASE Undoing(w)
  BY <1>8 DEF Undoing, UnlinkCheck, UnlinkRefuses, Unlink, UndoCheck, UndoRefuses, UndoExchange,
     Swapped, UndoExchangeFails, UndoVerify, UndoKnows, NotUndone
<1>9. CASE Kill(w) BY <1>9 DEF Kill
<1> QED BY <1>3, <1>4, <1>5, <1>6, <1>7, <1>8, <1>9 DEF Step

\* Making the file establishes it.
LEMMA NewName ==
    ASSUME SafeWriteAssumption, Known, NEW w \in Writers, MakeTemp(w) \/ ExclusiveCreate(w)
    PROVE  OneNameOf(w)'
<1>0. /\ name \in [Names -> Ino] /\ w \in Names /\ "dest" \in Names /\ w # "dest"
      /\ pc \in [Writers -> Places] /\ op \in [Writers -> Local] /\ Len(inode) \in Nat
  <2>1. [Next]_vars BY DEF Next, Step, Checking, Creating
  <2> QED BY <2>1, InoGrows DEF Known, TypeOK, Names, Local, SafeWriteAssumption
<1>1. /\ op' = [op EXCEPT ![w]["tmp"] = Len(inode) + 1]
      /\ pc[w] \in {"temp", "excl"}
      /\ \/ name' = name /\ pc'[w] \in {"link", "open"}
         \/ name' = [name EXCEPT !["dest"] = Len(inode) + 1] /\ pc'[w] = "fill"
  <2>1. CASE MakeTemp(w) BY <1>0, <2>1 DEF MakeTemp, At, Set
  <2>2. CASE ExclusiveCreate(w) BY <1>0, <2>2 DEF ExclusiveCreate, At, Set
  <2> QED BY <2>1, <2>2
<1>2. op'[w].tmp = Len(inode) + 1 BY <1>0, <1>1 DEF Local
<1>3. name[w] # Len(inode) + 1 /\ name["dest"] # Len(inode) + 1 BY <1>0 DEF Ino
<1>4. name'[w] # op'[w].tmp BY <1>0, <1>1, <1>2, <1>3
<1>5. pc'[w] \in Unnamed => name'["dest"] # op'[w].tmp
  BY <1>0, <1>1, <1>2, <1>3 DEF Unnamed, Before
<1> QED BY <1>1, <1>4, <1>5 DEF OneNameOf, Nameless, Ended, Dest

\* A command that reports anything but success or a failed rollback leaves no name
\* for its own file, unless another command, busy replacing what is at the path, may
\* have exchanged its own file with that one.
THEOREM RefusedLeaveNoTrace == ASSUME SafeWriteAssumption PROVE Spec => []NoTraceOfRefused
<1>1. Init => OneName BY DEF Init, OneName, Alone, NoOp
<1>2. Known /\ OneName /\ [Next]_vars => OneName'
  <2> SUFFICES ASSUME Known, OneName, [Next]_vars, NEW w \in Writers, Alone(w)'
               PROVE  OneNameOf(w)'
    BY DEF OneName
  <2>1. ~Replaced(w)' /\ op'[w].tmp # 0 BY DEF Alone
  <2>2. ~Replaced(w) BY <2>1, SafeWriteAssumption, ReplacedStays
  <2>3. CASE op[w].tmp = 0 BY <2>1, <2>3, SafeWriteAssumption, Moves, NewName
  <2>4. CASE op[w].tmp # 0
    <3>1. OneNameOf(w) BY <2>2, <2>4 DEF OneName, Alone
    <3>2. CASE Step(w) \/ Kill(w) BY <2>4, <3>1, <3>2, SafeWriteAssumption, OwnName
    <3>3. CASE \/ User \/ UNCHANGED vars
               \/ \E v \in Writers : v # w /\ (Step(v) \/ Kill(v))
      <4>1. pc'[w] = pc[w] /\ op'[w] = op[w] /\ name'[w] = name[w]
        BY <3>3, SafeWriteAssumption, UserStays, OthersStay DEF vars, fileVars
      <4>2. Dest' = op[w].tmp => Dest = op[w].tmp
        BY <2>1, <2>4, <3>3, SafeWriteAssumption, OthersGiveNoName
      <4> QED BY <3>1, <4>1, <4>2 DEF OneNameOf, Nameless, Ended
    <3> QED BY <3>2, <3>3 DEF Next
  <2> QED BY <2>3, <2>4
<1>3. Known /\ OneName => NoTraceOfRefused
  <2> SUFFICES ASSUME Known, OneName, NEW w \in Writers, Ended(w), op[w].tmp # 0,
                      op[w].outcome # "written", ~Replaced(w)
               PROVE  ~Linked(op[w].tmp)
    BY DEF NoTraceOfRefused
  <2>1. Nameless(w) BY DEF OneName, Alone, OneNameOf
  <2>2. ASSUME NEW v \in Writers \ {w} PROVE name[v] = 0 BY DEF Known, Knows, Replaced
  <2> QED BY <2>1, <2>2 DEF Linked, Names, Nameless, Dest
<1> QED BY <1>1, <1>2, <1>3, AlwaysKnown, PTL DEF Spec

-----------------------------------------------------------------------------
(* The row and the path, when commands overlap *)

\* A creation that has the path, and one or a replacement that has begun to end.
Mine == {"fill", "verify", "hook", "commit", "unlinkcheck", "unlink"}
Late == {"undo", "swap", "undone", "unlinkcheck", "unlink", "done", "killed"}

\* A replacement between its exchange and its end.  It is bad when it took out another
\* file than it had checked, and has to undo that.
Busy(w) == ~Creates(w) /\ pc[w] \in {"compare", "hook", "commit", "undo", "swap"}
Bad(w) == op[w].why = "mismatch" \/ (pc[w] = "compare" /\ name[w] # op[w].chk)
Good(w) == Busy(w) /\ ~Bad(w)

\* A command that was killed, or will report or has reported that it could not undo.
Stray(w) ==
    \/ pc[w] = "killed" \/ (pc[w] = "undone" /\ name[w] # op[w].inst)
    \/ (pc[w] = "done" /\ op[w].outcome = "rollback")

\* What a command knows of its own file, beyond Knows.
Recalls(w) ==
    /\ pc[w] \notin Late => op[w].why = "none"
    /\ pc[w] \notin {"plan", "done"} => op[w].mode # "none"
    /\ pc[w] = "exchange" => name[w] = op[w].tmp
    /\ Busy(w) => name[w] # 0
    /\ Busy(w) /\ pc[w] # "compare" => op[w].exch = name[w]
    /\ pc[w] \in {"undo", "swap"} =>
          ~Creates(w) /\ (op[w].why # "mismatch" => op[w].inst = op[w].tmp)
Hooked(w) == acts = 0 /\ pc[w] = "commit" => inode[op[w].seen].text = Text(w)

\* As long as nothing is recorded there are only creations, one of which has the path;
\* from then on the path has a file, and no creation can take it away.
Founding == acts = 0 =>
    /\ row.ino = 0 => row.text = "none" /\ \A w \in Writers : op[w].mode # "refresh"
    /\ row.ino # 0 => Dest # 0 /\ inode[row.ino].text = row.text
    /\ \A w \in Writers : Creates(w) /\ pc[w] \in Mine => Dest = op[w].tmp /\ row.ino = 0
    /\ row.ino = 0 /\ Dest # 0 =>
          \E w \in Writers : Creates(w) /\ pc[w] \in Mine \cup {"killed"} /\ Dest = op[w].tmp

\* At the path, from the top: the file of a bad replacement, of a good one, and the
\* recorded file; each of the three is where the one above it was.
Calm ==
    /\ acts = 0 /\ \A w \in Writers : ~Stray(w)
    /\ \A v, w \in Writers : Bad(v) /\ Bad(w) => v = w
Under(i) ==
    /\ \A v \in Writers : Good(v) => i = op[v].tmp
    /\ (\A v \in Writers : ~Good(v)) => i = row.ino
Stacked == Calm /\ row.ino # 0 =>
    /\ \A v, w \in Writers : Good(v) /\ Good(w) => v = w
    /\ \A w \in Writers : Good(w) => name[w] = row.ino
    /\ \A w \in Writers : Busy(w) /\ Bad(w) => Dest = op[w].tmp /\ Under(name[w])
    /\ (\A w \in Writers : ~(Busy(w) /\ Bad(w))) => Under(Dest)

Together == (\A w \in Writers : Recalls(w) /\ Hooked(w)) /\ Founding /\ Stacked

\* Only the user's acts count.
LEMMA ActsStay ==
    ASSUME Known, [Next]_vars, acts' = 0
    PROVE  acts = 0 /\ ((\E w \in Writers : Step(w) \/ Kill(w)) \/ UNCHANGED vars)
<1>1. acts \in Nat BY DEF Known, TypeOK
<1>2. ~User BY <1>1 DEF User, Edit, Place, Remove, Act
<1>3. ASSUME NEW w \in Writers, Step(w) \/ Kill(w) PROVE acts' = acts
  <2> USE DEF Stop, Over, Rest, RowStays, Mistakes, hostVars
  <2>1. CASE Planning(w)
    BY <2>1 DEF Planning, PlanCreate, PlanRefresh, Plan, Skip, Recheck, RecheckDeclines, ReadExpected
  <2>2. CASE Checking(w)
    BY <2>2 DEF Checking, Inspect, InspectRefuses, MakeTemp, NoTemp, OpenCheck, OpenFails, HashCheck,
       HashRefuses, IdentityCheck, IdentityRefuses
  <2>3. CASE Creating(w)
    BY <2>3 DEF Creating, Link, LinkRefuses, ExclusiveCreate, ExclusiveRefuses, Fill, FillFails,
       VerifyLink, VerifyRefuses
  <2>4. CASE Replacing(w)
    BY <2>4 DEF Replacing, Stage, Exchange, ExchangeFails, Compare, CompareFails, Discard
  <2>5. CASE Registering(w)
    BY <2>5 DEF Registering, HookRead, HookRejects, Reject, RecordCanary, RecordFails
  <2>6. CASE Undoing(w)
    BY <2>6 DEF Undoing, UnlinkCheck, UnlinkRefuses, Unlink, UndoCheck, UndoRefuses, UndoExchange,
       UndoExchangeFails, UndoVerify
  <2>7. CASE Kill(w) BY <2>7 DEF Kill
  <2> QED BY <1>3, <2>1, <2>2, <2>3, <2>4, <2>5, <2>6, <2>7 DEF Step
<1> QED BY <1>2, <1>3 DEF Next, vars, hostVars

\* Then a file keeps its text, unless its command is filling it.
LEMMA TextsStay ==
    ASSUME SafeWriteAssumption, Known, [Next]_vars, acts' = 0, NEW i \in 1 .. Len(inode)
    PROVE  inode'[i] = inode[i] \/ \E w \in Writers : Fill(w) /\ i = op[w].tmp
<1>0. inode \in Seq(File) /\ Len(inode) \in Nat BY DEF Known, TypeOK, File
<1>1. CASE UNCHANGED inode BY <1>1
<1>2. ~Edit /\ ~Place
  <2>1. acts \in Nat BY DEF Known, TypeOK
  <2> QED BY <2>1 DEF Edit, Place, Act
<1>3. ASSUME NEW w \in Writers, MakeTemp(w) \/ ExclusiveCreate(w) PROVE inode'[i] = inode[i]
  <2> DEFINE f == [text |-> IF MakeTemp(w) THEN Text(w) ELSE "partial", by |-> "honeypath"]
  <2>1. pc[w] = "temp" <=> MakeTemp(w) BY <1>3 DEF MakeTemp, ExclusiveCreate, At
  <2>2. inode' = Append(inode, f) BY <1>3, <2>1 DEF MakeTemp, ExclusiveCreate, At
  <2>3. f \in File BY DEF File, AnyText, Text
  <2> HIDE DEF f
  <2> QED BY <1>0, <2>2, <2>3, NewFile
<1>4. ASSUME NEW w \in Writers, Fill(w), i # op[w].tmp PROVE inode'[i] = inode[i]
  <2>0. op[w].tmp \in 0 .. Len(inode) /\ op[w].tmp # 0
    BY <1>4 DEF Fill, At, Known, TypeOK, Ino, Knows, Before, Places
  <2>1. op[w].tmp \in 1 .. Len(inode) BY <1>0, <2>0
  <2>2. Text(w) \in AnyText BY DEF Text, AnyText
  <2>3. inode' = [inode EXCEPT ![op[w].tmp].text = Text(w)] BY <1>4 DEF Fill
  <2> QED BY <1>0, <1>4, <2>1, <2>2, <2>3, NewText
<1> QED BY <1>1, <1>2, <1>3, <1>4, FilesSame DEF Writes

\* The hook checked the very file the row is about to describe.
LEMMA HookedStep ==
    ASSUME SafeWriteAssumption, Known, Safe, [Next]_vars, NEW w \in Writers, Hooked(w)
    PROVE  Hooked(w)'
<1> SUFFICES ASSUME acts' = 0, pc'[w] = "commit" PROVE inode'[op'[w].seen].text = Text(w)
  BY MistakesStay DEF Hooked, Text
<1>1. acts = 0 BY ActsStay
<1>2. CASE HookRead(w)
  <2>1. op'[w].seen = Dest /\ Dest # 0 /\ UNCHANGED inode /\ TextAt = Text(w)
    BY <1>2, SafeWriteAssumption
       DEF HookRead, Set, fileVars, Known, TypeOK, TextAt, Text
  <2> QED BY <2>1 DEF TextAt
<1>3. CASE ~HookRead(w)
  <2>1. pc[w] = "commit" /\ op'[w].seen = op[w].seen BY <1>3, PlaceMoves, Moves
  <2>2. op[w].seen = op[w].tmp /\ op[w].seen # 0 BY <2>1 DEF Safe, Known, Knows
  <2>3. op[w].seen \in 1 .. Len(inode)
    <3>1. op[w].seen \in Ino BY DEF Known, TypeOK
    <3> QED BY <2>2, <3>1 DEF Ino
  <2>4. ASSUME NEW u \in Writers, Fill(u), op[u].tmp = op[w].seen PROVE FALSE
    <3>1. u = w BY <2>2, <2>4 DEF Known, Files
    <3> QED BY <2>1, <2>4, <3>1 DEF Fill, At
  <2>5. inode'[op[w].seen] = inode[op[w].seen] BY <2>3, <2>4, TextsStay
  <2> QED BY <1>1, <2>1, <2>5 DEF Hooked
<1> QED BY <1>2, <1>3

\* A command goes on knowing its own file.
LEMMA RecallsStep ==
    ASSUME SafeWriteAssumption, Known, [Next]_vars, NEW w \in Writers, Recalls(w)
    PROVE  Recalls(w)'
<1>0. /\ pc \in [Writers -> Places] /\ op \in [Writers -> Local] /\ name \in [Names -> Ino]
      /\ w \in Names /\ "dest" \in Names /\ w # "dest" /\ Knows(w)
  BY DEF Known, TypeOK, Local, Names, SafeWriteAssumption
<1>1. CASE \/ User \/ UNCHANGED vars
           \/ \E v \in Writers : v # w /\ (Step(v) \/ Kill(v))
  <2>1. pc'[w] = pc[w] /\ op'[w] = op[w] /\ name'[w] = name[w]
    BY <1>1, UserStays, OthersStay DEF vars, fileVars
  <2> QED BY <2>1 DEF Recalls, Busy, Creates
<1> USE <1>0 DEF Stop, Over, Rest, RowStays, Mistakes, At, Set, CleanStage, fileVars, Recalls, Late, Busy, Creates, Local
<1>2. CASE Planning(w)
  BY <1>2 DEF Planning, PlanCreate, PlanRefresh, Plan, Skip, Recheck, RecheckDeclines, ReadExpected
<1>3. CASE Checking(w)
  BY <1>3 DEF Checking, Inspect, InspectRefuses, MakeTemp, NoTemp, OpenCheck, OpenFails, HashCheck,
     HashRefuses, IdentityCheck, IdentityRefuses
<1>4. CASE Creating(w)
  BY <1>4 DEF Creating, Link, LinkRefuses, ExclusiveCreate, ExclusiveRefuses, Fill, FillFails,
     VerifyLink, VerifyRefuses, Knows, OnlyCreates
<1>5. CASE Replacing(w)
  BY <1>5 DEF Replacing, Stage, Exchange, Swapped, ExchangeFails, Compare, CompareFails, Discard,
     Knows, OnlyReplaces, Dest
<1>6. CASE Registering(w)
  <2>1. CASE HookRead(w) BY <2>1 DEF HookRead, Knows
  <2>2. CASE RecordCanary(w) BY <2>2 DEF RecordCanary, Knows
  <2>3. ASSUME NEW here \in {"hook", "commit"}, Reject(w, here) PROVE Recalls(w)'
    <3>1. name' = name /\ op'[w] = [op[w] EXCEPT !.why = "reject"] BY <2>3 DEF Reject
    <3>2. CASE Creates(w) BY <2>3, <3>1, <3>2 DEF Reject
    <3>3. CASE ~Creates(w) BY <2>3, <3>1, <3>3 DEF Reject, Knows
    <3> QED BY <3>2, <3>3
  <2> QED BY <1>6, <2>1, <2>2, <2>3 DEF Registering, HookRejects, RecordFails
<1>7. CASE Undoing(w)
  BY <1>7 DEF Undoing, UnlinkCheck, UnlinkRefuses, Unlink, UndoCheck, UndoRefuses, UndoExchange,
     UndoExchangeFails, UndoVerify
<1>8. CASE Kill(w) BY <1>8 DEF Kill
<1> QED BY <1>1, <1>2, <1>3, <1>4, <1>5, <1>6, <1>7, <1>8 DEF Next, Step

\* What a step of a command does to the path, the row and its own claim to the path.
PathMoves(w) ==
    \/ /\ Dest' = Dest /\ row' = row
       /\ Creates(w)' /\ pc'[w] \in Mine => Creates(w) /\ pc[w] \in Mine
       /\ Creates(w) /\ pc[w] \in Mine \cup {"killed"} /\ Dest = op[w].tmp
             => Creates(w)' /\ pc'[w] \in Mine \cup {"killed"}
    \/ Dest = 0 /\ Creates(w)' /\ pc'[w] \in Mine /\ Dest' = op'[w].tmp /\ row' = row
    \/ Dest' = 0 /\ Creates(w) /\ pc[w] \in Mine /\ pc'[w] = "done" /\ row' = row
    \/ Exchange(w) \/ UndoExchange(w)
    \/ RecordCanary(w)

\* Those are all the ways a command touches the path and the row.
LEMMA PathStep ==
    ASSUME SafeWriteAssumption, Known, NEW w \in Writers, Step(w) \/ Kill(w)
    PROVE  PathMoves(w)
<1>0. /\ pc \in [Writers -> Places] /\ op \in [Writers -> Local] /\ name \in [Names -> Ino]
      /\ w \in Names /\ "dest" \in Names /\ w # "dest" /\ Knows(w)
  BY DEF Known, TypeOK, Local, Names, SafeWriteAssumption
<1> USE <1>0 DEF Stop, Over, Rest, RowStays, Mistakes, At, Set, CleanStage, fileVars, Mine, Creates, Local, Dest
<1>1. CASE Planning(w)
  BY <1>1 DEF PathMoves, Planning, PlanCreate, PlanRefresh, Plan, Skip, Recheck, RecheckDeclines, ReadExpected
<1>2. CASE Checking(w)
  BY <1>2 DEF PathMoves, Checking, Inspect, InspectRefuses, MakeTemp, NoTemp, OpenCheck, OpenFails, HashCheck,
     HashRefuses, IdentityCheck, IdentityRefuses
<1>3. CASE Creating(w)
  BY <1>3 DEF PathMoves, Creating, Link, LinkRefuses, ExclusiveCreate, ExclusiveRefuses, Fill, FillFails,
     VerifyLink, VerifyRefuses, Knows, OnlyCreates
<1>4. CASE Replacing(w)
  BY <1>4 DEF PathMoves, Replacing, Stage, ExchangeFails, Compare, CompareFails, Discard,
     Knows, OnlyReplaces
<1>5. CASE Registering(w)
  BY <1>5 DEF PathMoves, Registering, HookRead, HookRejects, Reject, RecordFails, Knows
<1>6. CASE Undoing(w)
  BY <1>6 DEF PathMoves, Undoing, UnlinkCheck, UnlinkRefuses, Unlink, UndoCheck, UndoRefuses,
     UndoExchangeFails, UndoVerify, Knows, OnlyReplaces, OnlyCreates
<1>7. CASE Kill(w) BY <1>7 DEF PathMoves, Kill
<1> QED BY <1>1, <1>2, <1>3, <1>4, <1>5, <1>6, <1>7 DEF Step

\* A command decides to refresh a recorded file only.
LEMMA RefreshNeedsRow ==
    ASSUME Known, NEW w \in Writers, Step(w) \/ Kill(w), op'[w].mode = "refresh"
    PROVE  op[w].mode = "refresh" \/ row.ino # 0
<1>0. op \in [Writers -> Local] BY DEF Known, TypeOK, Local
<1> USE <1>0 DEF Stop, Over, Rest, RowStays, Mistakes, At, Set, fileVars, Local
<1>1. CASE Planning(w)
  BY <1>1 DEF Planning, PlanCreate, PlanRefresh, Plan, Skip, Recheck, RecheckDeclines, ReadExpected,
     RefreshPermitted
<1>2. CASE Checking(w)
  BY <1>2 DEF Checking, Inspect, InspectRefuses, MakeTemp, NoTemp, OpenCheck, OpenFails, HashCheck,
     HashRefuses, IdentityCheck, IdentityRefuses
<1>3. CASE Creating(w)
  BY <1>3 DEF Creating, Link, LinkRefuses, ExclusiveCreate, ExclusiveRefuses, Fill, FillFails,
     VerifyLink, VerifyRefuses
<1>4. CASE Replacing(w)
  BY <1>4 DEF Replacing, Stage, Exchange, ExchangeFails, Compare, CompareFails, Discard
<1>5. CASE Registering(w)
  BY <1>5 DEF Registering, HookRead, HookRejects, Reject, RecordCanary, RecordFails
<1>6. CASE Undoing(w)
  BY <1>6 DEF Undoing, UnlinkCheck, UnlinkRefuses, Unlink, UndoCheck, UndoRefuses, UndoExchange,
     UndoExchangeFails, UndoVerify
<1>7. CASE Kill(w) BY <1>7 DEF Kill
<1> QED BY <1>1, <1>2, <1>3, <1>4, <1>5, <1>6, <1>7 DEF Step

\* No second creation gets the path, and nobody empties it once a file is recorded.
LEMMA FoundingStep ==
    ASSUME SafeWriteAssumption, Known, Safe, Founding, [Next]_vars,
           \A w \in Writers : Recalls(w) /\ Hooked(w)
    PROVE  Founding'
<1> SUFFICES ASSUME acts' = 0 PROVE Founding' BY DEF Founding
<1>1. acts = 0 /\ ((\E w \in Writers : Step(w) \/ Kill(w)) \/ UNCHANGED vars) BY ActsStay
<1>2. CASE UNCHANGED vars
  <2>1. UNCHANGED <<name, inode, row, pc, op>> BY <1>2 DEF vars, fileVars
  <2> QED BY <1>1, <2>1 DEF Founding, Creates, Dest
<1>3. ASSUME NEW w \in Writers, Step(w) \/ Kill(w) PROVE Founding'
  <2>0. /\ row \in [ino : Ino, text : AnyText] /\ Len(inode) \in Nat /\ op \in [Writers -> Local]
        /\ Knows(w) /\ Recalls(w) /\ Hooked(w) /\ name \in [Names -> Ino] /\ "dest" \in Names
        /\ w \in Names /\ w # "dest"
    <3>1. inode \in Seq(File) BY DEF Known, TypeOK, File
    <3> QED BY <3>1 DEF Known, TypeOK, Local, Names, SafeWriteAssumption
  <2>1. \A v \in Writers : v # w => pc'[v] = pc[v] /\ op'[v] = op[v] BY <1>3, OthersStay
  <2>2. \A v \in Writers : Creates(v) /\ pc[v] \in Mine => Dest = op[v].tmp /\ row.ino = 0 /\ op[v].tmp # 0
    BY <1>1 DEF Founding, Known, Knows, Mine, Before, Places
  <2>3. \A u, v \in Writers : Creates(u) /\ pc[u] \in Mine /\ Creates(v) /\ pc[v] \in Mine => u = v
    BY <2>2 DEF Known, Files
  <2>4. row.ino = 0 => row.text = "none" /\ \A v \in Writers : op[v].mode # "refresh"
    BY <1>1 DEF Founding
  <2>5. row.ino # 0 => Dest # 0 /\ inode[row.ino].text = row.text BY <1>1 DEF Founding
  <2>6. row.ino # 0 => inode'[row.ino] = inode[row.ino]
    <3> SUFFICES ASSUME row.ino # 0 PROVE inode'[row.ino] = inode[row.ino] OBVIOUS
    <3>1. row.ino \in 1 .. Len(inode) BY <2>0 DEF Ino
    <3>2. ASSUME NEW u \in Writers, Fill(u), row.ino = op[u].tmp PROVE FALSE
      BY <3>2 DEF Safe, After, Fill, At
    <3> QED BY <3>1, <3>2, TextsStay
  <2>7. pc[w] \in Mine => op'[w].tmp = op[w].tmp
    <3>1. pc[w] \in Mine => op[w].tmp # 0 BY <2>0, <1>3 DEF Known, Knows, Mine, Before, Places
    <3> QED BY <3>1, Moves
  <2>8. row'.ino = 0 => row' = row /\ \A v \in Writers : op'[v].mode # "refresh"
    <3>1. CASE row' = row BY <1>3, <2>1, <2>4, <3>1, RefreshNeedsRow
    <3>2. ASSUME NEW u \in Writers, RecordCanary(u) PROVE row'.ino # 0
      BY <3>2 DEF RecordCanary, At, Known, Knows
    <3> QED BY <3>1, <3>2, RowMoves
  <2>9. CASE /\ Dest' = Dest /\ row' = row
             /\ Creates(w)' /\ pc'[w] \in Mine => Creates(w) /\ pc[w] \in Mine
             /\ Creates(w) /\ pc[w] \in Mine \cup {"killed"} /\ Dest = op[w].tmp
                   => Creates(w)' /\ pc'[w] \in Mine \cup {"killed"}
    <3>1. \A v \in Writers : Creates(v)' /\ pc'[v] \in Mine => Dest' = op'[v].tmp /\ row'.ino = 0
      BY <2>1, <2>2, <2>7, <2>9 DEF Creates
    <3>2. pc[w] \in {"killed"} => UNCHANGED op
      <4>1. pc[w] = "killed" => ~Step(w) /\ ~Kill(w)
        BY DEF Step, Kill, Planning, Checking, Creating, Replacing, Registering, Undoing,
           PlanCreate, PlanRefresh, Plan, Skip, Recheck, RecheckDeclines, ReadExpected, Inspect,
           InspectRefuses, MakeTemp, NoTemp, OpenCheck, OpenFails, HashCheck, HashRefuses, IdentityCheck,
           IdentityRefuses, Link, LinkRefuses, ExclusiveCreate, ExclusiveRefuses, Fill, FillFails,
           VerifyLink, VerifyRefuses, Stage, Exchange, ExchangeFails, Compare, CompareFails, Discard,
           HookRead, HookRejects, Reject, RecordCanary, RecordFails, UnlinkCheck, UnlinkRefuses, Unlink,
           UndoCheck, UndoRefuses, UndoExchange, UndoExchangeFails, UndoVerify, Stop, At
      <4> QED BY <1>3, <4>1
    <3>3. row'.ino = 0 /\ Dest' # 0 =>
            \E v \in Writers : Creates(v)' /\ pc'[v] \in Mine \cup {"killed"} /\ Dest' = op'[v].tmp
      <4> SUFFICES ASSUME row.ino = 0, Dest # 0
                   PROVE \E v \in Writers : Creates(v)' /\ pc'[v] \in Mine \cup {"killed"} /\ Dest' = op'[v].tmp
        BY <2>9
      <4>1. PICK v \in Writers : Creates(v) /\ pc[v] \in Mine \cup {"killed"} /\ Dest = op[v].tmp
        BY <1>1 DEF Founding
      <4>2. Creates(v)' /\ pc'[v] \in Mine \cup {"killed"} /\ op'[v].tmp = op[v].tmp
        BY <2>1, <2>7, <2>9, <3>2, <4>1 DEF Creates
      <4> QED BY <2>9, <4>1, <4>2
    <3> QED BY <2>4, <2>5, <2>6, <2>8, <2>9, <3>1, <3>3 DEF Founding
  <2>10. CASE Dest = 0 /\ Creates(w)' /\ pc'[w] \in Mine /\ Dest' = op'[w].tmp /\ row' = row
    <3>1. row.ino = 0 BY <2>5, <2>10
    <3>2. \A v \in Writers : v # w => ~(Creates(v)' /\ pc'[v] \in Mine)
      BY <2>1, <2>2, <2>10 DEF Creates
    <3> QED BY <2>4, <2>8, <2>10, <3>1, <3>2 DEF Founding
  <2>11. CASE Dest' = 0 /\ Creates(w) /\ pc[w] \in Mine /\ pc'[w] = "done" /\ row' = row
    <3>1. row.ino = 0 BY <2>2, <2>11
    <3>2. \A v \in Writers : ~(Creates(v)' /\ pc'[v] \in Mine)
      BY <2>1, <2>3, <2>11 DEF Creates, Mine
    <3> QED BY <2>4, <2>8, <2>11, <3>1, <3>2 DEF Founding
  <2>12. CASE Exchange(w) \/ UndoExchange(w)
    <3>1. pc[w] \in {"exchange", "swap"} /\ name' = Swapped(w) /\ op' = op /\ row' = row
      BY <2>12 DEF Exchange, UndoExchange, At, Rest, RowStays, Mistakes
    <3>2. ~Creates(w) /\ op[w].mode = "refresh" /\ name[w] # 0
      <4>1. ~Creates(w) /\ op[w].mode # "none" BY <2>0, <3>1 DEF Knows, OnlyReplaces, Recalls
      <4>2. op[w].mode \in {"none", "create", "refresh"} BY <2>0 DEF Local
      <4>3. op[w].tmp # 0 BY <2>0, <3>1 DEF Knows, Before, Places
      <4> QED BY <2>0, <3>1, <4>1, <4>2, <4>3 DEF Recalls, Busy, Creates
    <3>3. row.ino # 0 BY <2>4, <3>2
    <3>4. Dest' = name[w] BY <2>0, <3>1 DEF Swapped, Dest
    <3>5. \A v \in Writers : ~(Creates(v)' /\ pc'[v] \in Mine)
      BY <2>1, <2>2, <3>1, <3>2, <3>3 DEF Creates
    <3> QED BY <2>5, <2>6, <3>1, <3>2, <3>3, <3>4, <3>5 DEF Founding
  <2>13. CASE RecordCanary(w)
    <3>1. /\ pc[w] = "commit" /\ row'.ino = op[w].seen /\ row'.text = Text(w) /\ UNCHANGED fileVars
          /\ pc'[w] \in {"done", "discard"}
      BY <2>0, <2>13 DEF RecordCanary, At, Known
    <3>2. op[w].seen = op[w].tmp /\ op[w].seen # 0 BY <2>0, <3>1 DEF Safe, Knows
    <3>3. inode'[row'.ino].text = row'.text BY <1>1, <2>0, <3>1 DEF Hooked, fileVars
    <3>4. Dest' # 0 /\ \A v \in Writers : ~(Creates(v)' /\ pc'[v] \in Mine)
      <4>1. CASE Creates(w) BY <2>1, <2>2, <2>3, <3>1, <4>1 DEF Mine, Creates, Dest, fileVars
      <4>2. CASE ~Creates(w)
        <5>1. op[w].mode = "refresh"
          <6>1. op[w].mode \in {"none", "create", "refresh"} BY <2>0 DEF Local
          <6> QED BY <2>0, <3>1, <4>2, <6>1 DEF Recalls, Creates
        <5>2. row.ino # 0 BY <2>4, <5>1
        <5> QED BY <2>1, <2>2, <2>5, <3>1, <5>2 DEF Mine, Creates, Dest, fileVars
      <4> QED BY <4>1, <4>2
    <3> QED BY <3>1, <3>2, <3>3, <3>4 DEF Founding
  <2> QED BY <1>3, <2>9, <2>10, <2>11, <2>12, <2>13, PathStep DEF PathMoves
<1> QED BY <1>1, <1>2, <1>3

\* What a step does to the files at the path and below it, once something is recorded.
StackMoves(w) ==
    \/ Stray(w)'
    \/ ~Busy(w) /\ ~Busy(w)' /\ Dest' = Dest /\ row' = row /\ (Bad(w)' <=> Bad(w))
    \/ /\ ~Busy(w) /\ ~Bad(w) /\ Busy(w)' /\ Dest' = op[w].tmp /\ name'[w] = Dest
       /\ op' = op /\ pc[w] = "exchange" /\ pc'[w] = "compare" /\ row' = row
    \/ /\ Busy(w) /\ Busy(w)' /\ UNCHANGED <<name, row>> /\ op'[w].tmp = op[w].tmp
       /\ Bad(w)' <=> Bad(w) \/ (pc[w] = "compare" /\ Dest # op[w].tmp)
    \/ /\ Good(w) /\ ~Busy(w)' /\ ~Bad(w)' /\ UNCHANGED name /\ row'.ino = op[w].tmp
    \/ /\ Busy(w) /\ ~Busy(w)' /\ pc[w] = "swap" /\ pc'[w] = "undone"
       /\ name' = Swapped(w) /\ UNCHANGED <<row, op>>

\* Those are all the ways a command touches them.
LEMMA StackMove ==
    ASSUME SafeWriteAssumption, Known, Safe, NEW w \in Writers, Step(w) \/ Kill(w),
           Recalls(w), Dest # 0, ~Creates(w) \/ (Dest' = Dest /\ row' = row)
    PROVE  StackMoves(w)
<1>0. /\ pc \in [Writers -> Places] /\ op \in [Writers -> Local] /\ name \in [Names -> Ino]
      /\ w \in Names /\ "dest" \in Names /\ w # "dest" /\ Knows(w)
  BY DEF Known, TypeOK, Local, Names, SafeWriteAssumption
<1> USE <1>0 DEF Stop, Over, Rest, RowStays, Mistakes, At, Set, fileVars, Creates, Local
<1>1. ASSUME ~Busy(w), ~Busy(w)', Dest' = Dest, row' = row,
             op'[w].why = "mismatch" <=> op[w].why = "mismatch",
             pc[w] # "compare", pc'[w] # "compare"
      PROVE  StackMoves(w)
  BY <1>1 DEF StackMoves, Bad
<1>a. name' = CleanStage(w) => Dest' = Dest BY DEF CleanStage, Dest
<1>2. CASE Planning(w)
  <2>1. /\ pc[w] \in {"plan", "recheck", "expect"} /\ pc'[w] \in {"recheck", "expect", "inspect", "done"}
        /\ op'[w].why = op[w].why /\ Dest' = Dest /\ row' = row
    BY <1>2, <1>a DEF Planning, PlanCreate, PlanRefresh, Plan, Skip, Recheck, RecheckDeclines, ReadExpected, Dest
  <2> QED BY <1>1, <2>1 DEF Busy
<1>3. CASE Checking(w)
  <2>1. /\ pc[w] \in {"inspect", "temp", "open", "hash", "identity"}
        /\ pc'[w] \in {"temp", "excl", "link", "open", "hash", "identity", "stage", "done"}
        /\ op'[w].why = op[w].why /\ Dest' = Dest /\ row' = row
    BY <1>3, <1>a DEF Checking, Inspect, InspectRefuses, MakeTemp, NoTemp, OpenCheck, OpenFails, HashCheck,
       HashRefuses, IdentityCheck, IdentityRefuses, Dest
  <2> QED BY <1>1, <2>1 DEF Busy
<1>4. CASE Creating(w)
  <2>a. pc[w] = "fill" => op[w].why # "mismatch" BY DEF Recalls, Late
  <2>1. /\ pc[w] \in {"link", "excl", "fill", "verify"}
        /\ pc'[w] \in {"fill", "verify", "hook", "unlinkcheck", "done"}
        /\ op'[w].why = "mismatch" <=> op[w].why = "mismatch"
        /\ op'[w].mode = op[w].mode
    BY <1>4, <2>a DEF Creating, Link, LinkRefuses, ExclusiveCreate, ExclusiveRefuses, Fill, FillFails,
       VerifyLink, VerifyRefuses
  <2>2. Creates(w) BY <2>1 DEF Knows, OnlyCreates
  <2> QED BY <1>1, <2>1, <2>2 DEF Busy
<1>5. CASE Stage(w) \/ ExchangeFails(w) \/ Discard(w)
  <2>1. /\ pc[w] \in {"stage", "exchange", "discard"} /\ pc'[w] \in {"exchange", "done"}
        /\ op'[w].why = op[w].why /\ Dest' = Dest /\ row' = row
    BY <1>5, <1>a DEF Stage, ExchangeFails, Discard, Dest
  <2> QED BY <1>1, <2>1 DEF Busy
<1>6. CASE Exchange(w)
  <2>1. /\ pc[w] = "exchange" /\ pc'[w] = "compare" /\ name' = Swapped(w) /\ UNCHANGED <<op, row>>
        /\ ~Creates(w) /\ name[w] = op[w].tmp /\ op[w].why = "none"
    BY <1>6 DEF Exchange, Knows, OnlyReplaces, Recalls, Late
  <2>2. Dest' = name[w] /\ name'[w] = Dest BY <2>1 DEF Swapped, Dest
  <2> QED BY <2>1, <2>2 DEF StackMoves, Busy, Bad
<1>7. CASE Compare(w)
  <2>1. /\ pc[w] = "compare" /\ UNCHANGED <<name, row>> /\ ~Creates(w) /\ op[w].why = "none"
        /\ op'[w].tmp = op[w].tmp /\ op'[w].mode = op[w].mode
    BY <1>7 DEF Compare, Knows, OnlyReplaces, Recalls, Late
  <2>2. CASE Dest = op[w].tmp /\ name[w] = op[w].chk
    <3>1. pc'[w] = "hook" /\ op'[w].why = "none" BY <1>7, <2>2 DEF Compare
    <3> QED BY <2>1, <2>2, <3>1 DEF StackMoves, Busy, Bad
  <2>3. CASE ~(Dest = op[w].tmp /\ name[w] = op[w].chk)
    <3>1. pc'[w] = "undo" /\ op'[w].why = "mismatch" BY <1>7, <2>3 DEF Compare
    <3> QED BY <2>1, <2>3, <3>1 DEF StackMoves, Busy, Bad
  <2> QED BY <2>2, <2>3
<1>8. ASSUME NEW here \in {"hook", "commit"}, Reject(w, here) PROVE StackMoves(w)
  <2>1. /\ pc[w] = here /\ UNCHANGED <<name, row>> /\ op'[w] = [op[w] EXCEPT !.why = "reject"]
        /\ pc'[w] = IF Creates(w) THEN "unlinkcheck" ELSE "undo"
    BY <1>8 DEF Reject
  <2>2. op[w].why = "none" BY <1>8, <2>1 DEF Recalls, Late
  <2>3. op'[w].tmp = op[w].tmp /\ op'[w].mode = op[w].mode /\ op'[w].why = "reject" BY <2>1
  <2> QED BY <1>8, <2>1, <2>2, <2>3 DEF StackMoves, Busy, Bad, Dest
<1>9. CASE HookRead(w)
  <2>1. /\ pc[w] = "hook" /\ pc'[w] = "commit" /\ UNCHANGED <<name, row>>
        /\ op'[w].why = op[w].why /\ op'[w].tmp = op[w].tmp /\ op'[w].mode = op[w].mode
    BY <1>9 DEF HookRead
  <2> QED BY <2>1 DEF StackMoves, Busy, Bad, Dest
<1>10. CASE RecordCanary(w)
  <2>1. /\ pc[w] = "commit" /\ pc'[w] \in {"done", "discard"} /\ UNCHANGED name
        /\ row'.ino = op[w].seen /\ op'[w].why = op[w].why
    BY <1>10 DEF RecordCanary
  <2>2. op[w].why = "none" /\ op[w].seen = op[w].tmp BY <2>1 DEF Recalls, Late, Safe
  <2>3. CASE Creates(w) BY <1>1, <2>1, <2>3 DEF Busy
  <2>4. CASE ~Creates(w) BY <2>1, <2>2, <2>4 DEF StackMoves, Good, Busy, Bad
  <2> QED BY <2>3, <2>4
<1>11. CASE UnlinkCheck(w) \/ UnlinkRefuses(w) \/ Unlink(w)
  <2>1. /\ pc[w] \in {"unlinkcheck", "unlink"} /\ pc'[w] \in {"unlink", "done"}
        /\ op'[w].why = op[w].why
    BY <1>11 DEF UnlinkCheck, UnlinkRefuses, Unlink
  <2>2. Creates(w) BY <2>1 DEF Knows, OnlyCreates
  <2> QED BY <1>1, <2>1, <2>2 DEF Busy
<1>12. CASE UndoCheck(w)
  <2>1. pc[w] = "undo" /\ pc'[w] = "swap" /\ UNCHANGED <<name, row, op>> BY <1>12 DEF UndoCheck
  <2>2. ~Creates(w) BY <2>1 DEF Recalls
  <2> QED BY <2>1, <2>2 DEF StackMoves, Busy, Bad
<1>13. CASE UndoRefuses(w)
  <2>1. pc'[w] = "done" /\ op'[w].outcome = "rollback" BY <1>13 DEF UndoRefuses, NotUndone
  <2> QED BY <2>1 DEF StackMoves, Stray
<1>14. CASE UndoExchange(w)
  <2>1. pc[w] = "swap" /\ pc'[w] = "undone" /\ name' = Swapped(w) /\ UNCHANGED <<row, op>>
    BY <1>14 DEF UndoExchange
  <2>2. ~Creates(w) BY <2>1 DEF Recalls
  <2> QED BY <2>1, <2>2 DEF StackMoves, Busy
<1>15. CASE UndoVerify(w)
  <2>1. pc[w] = "undone" /\ pc'[w] = "done" /\ op'[w].why = op[w].why /\ Dest' = Dest /\ row' = row
    BY <1>15, <1>a DEF UndoVerify
  <2> QED BY <1>1, <2>1 DEF Busy
<1>16. CASE Kill(w) BY <1>16 DEF Kill, StackMoves, Stray
<1>17. ~CompareFails(w) /\ ~UndoExchangeFails(w) BY DEF CompareFails, UndoExchangeFails
<1> QED
  BY <1>2, <1>3, <1>4, <1>5, <1>6, <1>7, <1>8, <1>9, <1>10, <1>11, <1>12, <1>13, <1>14, <1>15, <1>16, <1>17
  DEF Step, Replacing, Registering, Undoing, HookRejects, RecordFails

\* Who is astray stays so.
LEMMA StrayStays ==
    ASSUME SafeWriteAssumption, Known, [Next]_vars, acts' = 0, Dest # 0, NEW w \in Writers, Stray(w)
    PROVE  Stray(w)'
<1>0. /\ pc \in [Writers -> Places] /\ op \in [Writers -> Local] /\ name \in [Names -> Ino]
      /\ w \in Names /\ "dest" \in Names /\ w # "dest"
  BY DEF Known, TypeOK, Local, Names, SafeWriteAssumption
<1>1. (\E v \in Writers : Step(v) \/ Kill(v)) \/ UNCHANGED vars BY ActsStay
<1>2. CASE UNCHANGED vars BY <1>2 DEF Stray, vars, fileVars
<1>3. ASSUME NEW v \in Writers, v # w, Step(v) \/ Kill(v) PROVE Stray(w)'
  <2>1. pc'[w] = pc[w] /\ op'[w] = op[w] /\ name'[w] = name[w] BY <1>3, OthersStay
  <2> QED BY <2>1 DEF Stray
<1>4. CASE Step(w) \/ Kill(w)
  <2>1. pc[w] \in {"killed", "undone", "done"} BY DEF Stray
  <2>2. UndoVerify(w) \/ Kill(w)
    BY <1>4, <2>1
    DEF Step, Planning, Checking, Creating, Replacing, Registering, Undoing,
        PlanCreate, PlanRefresh, Plan, Skip, Recheck, RecheckDeclines, ReadExpected, Inspect,
        InspectRefuses, MakeTemp, NoTemp, OpenCheck, OpenFails, HashCheck, HashRefuses, IdentityCheck,
        IdentityRefuses, Link, LinkRefuses, ExclusiveCreate, ExclusiveRefuses, Fill, FillFails,
        VerifyLink, VerifyRefuses, Stage, Exchange, ExchangeFails, Compare, CompareFails, Discard,
        HookRead, HookRejects, Reject, RecordCanary, RecordFails, UnlinkCheck, UnlinkRefuses, Unlink,
        UndoCheck, UndoRefuses, UndoExchange, UndoExchangeFails, Stop, At
  <2>3. CASE Kill(w) BY <1>0, <2>3 DEF Kill, Stray
  <2>4. CASE UndoVerify(w)
    <3>1. pc[w] = "undone" /\ name[w] # op[w].inst BY <2>4 DEF UndoVerify, Stop, Stray
    <3>2. NotUndone(w) = "rollback" BY DEF NotUndone
    <3>3. pc'[w] = "done" /\ op'[w].outcome = "rollback"
      BY <1>0, <2>4, <3>1, <3>2 DEF UndoVerify, Stop, Over, Set, Local
    <3> QED BY <3>3 DEF Stray
  <2> QED BY <2>2, <2>3, <2>4
<1> QED BY <1>1, <1>2, <1>3, <1>4

\* Exchanges, undone exchanges and commits leave the files at the path in that order.
LEMMA StackedStep ==
    ASSUME SafeWriteAssumption, Known, Safe, [Next]_vars, Founding, Stacked,
           \A w \in Writers : Recalls(w)
    PROVE  Stacked'
<1> SUFFICES ASSUME Calm', row'.ino # 0 PROVE Stacked' BY DEF Stacked
<1> USE DEF Good
<1>1. acts' = 0 BY DEF Calm
<1>2. acts = 0 /\ ((\E w \in Writers : Step(w) \/ Kill(w)) \/ UNCHANGED vars) BY <1>1, ActsStay
<1>3. CASE UNCHANGED vars
  <2>1. UNCHANGED <<name, row, pc, op, acts>> BY <1>3 DEF vars, fileVars, hostVars
  <2>2. \A v \in Writers : (Busy(v)' <=> Busy(v)) /\ (Bad(v)' <=> Bad(v)) /\ (Stray(v)' <=> Stray(v))
    BY <2>1 DEF Busy, Bad, Stray, Creates
  <2>3. Calm BY <2>1, <2>2 DEF Calm
  <2>4. \A i : Under(i) <=> Under(i)' BY <2>1, <2>2 DEF Under
  <2> QED BY <2>1, <2>2, <2>3, <2>4 DEF Stacked, Dest
<1>4. ASSUME NEW w \in Writers, Step(w) \/ Kill(w) PROVE Stacked'
  <2>1. \A v \in Writers : v # w =>
          pc'[v] = pc[v] /\ op'[v] = op[v] /\ name'[v] = name[v]
          /\ (Busy(v)' <=> Busy(v)) /\ (Bad(v)' <=> Bad(v))
    BY <1>4, OthersStay DEF Busy, Bad, Creates
  <2>2. /\ op \in [Writers -> Local] /\ name \in [Names -> Ino] /\ "dest" \in Names
        /\ w \in Names /\ w # "dest" /\ Recalls(w) /\ Knows(w)
    BY DEF Known, TypeOK, Local, Names, SafeWriteAssumption
  <2>3. \A v \in Writers : Busy(v) => op[v].tmp # 0 /\ pc[v] \notin After
    BY DEF Busy, Known, Knows, Before, Places, After
  <2>4. \A u, v \in Writers : op[u].tmp = op[v].tmp /\ op[u].tmp # 0 => u = v BY DEF Known, Files
  <2>5. CASE row.ino = 0
    <3>1. RecordCanary(w)
      <4>1. row' # row BY <2>5
      <4>2. ~Exchange(w) /\ ~UndoExchange(w) BY <4>1 DEF Exchange, UndoExchange, Rest, RowStays, Mistakes
      <4> QED BY <1>4, <4>1, <4>2, PathStep DEF PathMoves
    <3>2. \A v \in Writers : ~Busy(v)
      <4> SUFFICES ASSUME NEW v \in Writers, Busy(v) PROVE FALSE OBVIOUS
      <4>1. op[v].mode \notin {"create", "none"} BY DEF Busy, Creates, Recalls
      <4>2. op[v].mode \in {"none", "create", "refresh"} BY <2>2 DEF Local
      <4> QED BY <1>2, <2>5, <4>1, <4>2 DEF Founding
    <3>3. pc[w] = "commit" /\ pc'[w] \in {"done", "discard"} /\ name' = name /\ row'.ino = op[w].seen
      BY <3>1 DEF RecordCanary, At, fileVars, Known
    <3>4. Creates(w) BY <3>2, <3>3 DEF Busy
    <3>5. Dest = op[w].tmp /\ op[w].seen = op[w].tmp BY <1>2, <3>3, <3>4 DEF Founding, Mine, Safe
    <3>6. \A v \in Writers : ~Busy(v)' BY <2>1, <3>2, <3>3 DEF Busy
    <3> QED BY <3>3, <3>5, <3>6 DEF Stacked, Under, Dest
  <2>6. CASE row.ino # 0
    <3>1. Dest # 0 /\ \A v \in Writers : ~(Creates(v) /\ pc[v] \in Mine) BY <1>2, <2>6 DEF Founding
    <3>2. ~Creates(w) \/ (Dest' = Dest /\ row' = row)
      <4>1. Exchange(w) \/ UndoExchange(w) => ~Creates(w)
        BY <2>2 DEF Exchange, UndoExchange, At, Knows, OnlyReplaces
      <4>2. RecordCanary(w) => ~Creates(w) BY <3>1 DEF RecordCanary, At, Mine
      <4> QED BY <1>4, <3>1, <4>1, <4>2, PathStep DEF PathMoves
    <3>3. StackMoves(w) /\ ~Stray(w)' BY <1>4, <2>2, <3>1, <3>2, StackMove DEF Calm
    <3>4. Bad(w) => Bad(w)'
      <4>1. UNCHANGED op /\ pc[w] = "swap" /\ Bad(w) => Bad(w)' BY DEF Bad
      <4> QED BY <3>3, <4>1 DEF StackMoves
    <3>5. Calm
      <4>1. \A v \in Writers : ~Stray(v) BY <1>1, <3>1, StrayStays DEF Calm
      <4>2. \A v \in Writers : Bad(v) => Bad(v)' BY <2>1, <3>4
      <4> QED BY <1>2, <4>1, <4>2 DEF Calm
    <3>6. \A u, v \in Writers : Good(u) /\ Good(v) => u = v BY <2>6, <3>5 DEF Stacked
    <3>7. \A v \in Writers : Good(v) => name[v] = row.ino BY <2>6, <3>5 DEF Stacked
    <3>8. \A v \in Writers : Busy(v) /\ Bad(v) => Dest = op[v].tmp /\ Under(name[v])
      BY <2>6, <3>5 DEF Stacked
    <3>9. (\A v \in Writers : ~(Busy(v) /\ Bad(v))) => Under(Dest) BY <2>6, <3>5 DEF Stacked
    <3>10. \A u, v \in Writers : Bad(u)' /\ Bad(v)' => u = v BY DEF Calm
    <3>11. CASE ~Busy(w) /\ ~Busy(w)' /\ Dest' = Dest /\ row' = row /\ (Bad(w)' <=> Bad(w))
      <4>1. \A i : Under(i) => Under(i)' BY <2>1, <3>11 DEF Under
      <4> QED BY <2>1, <3>6, <3>7, <3>8, <3>9, <3>11, <4>1 DEF Stacked
    <3>12. CASE /\ ~Busy(w) /\ ~Bad(w) /\ Busy(w)' /\ Dest' = op[w].tmp /\ name'[w] = Dest
                /\ op' = op /\ pc[w] = "exchange" /\ pc'[w] = "compare" /\ row' = row
      <4>1. Bad(w)' <=> Dest # op[w].chk BY <3>12 DEF Bad
      <4>2. ~Creates(w) BY <2>2, <3>12 DEF Knows, OnlyReplaces
      <4>3. \A v \in Writers : Busy(v) => op[w].chk # op[v].tmp
        BY <2>3, <3>12, <4>2 DEF Safe, Compared
      <4>4. \A m \in Writers : ~(Busy(m) /\ Bad(m))
        <5> SUFFICES ASSUME NEW m \in Writers, Busy(m), Bad(m) PROVE FALSE OBVIOUS
        <5>1. Bad(w)' BY <3>8, <4>1, <4>3
        <5>2. m # w /\ Bad(m)' BY <2>1, <3>12
        <5> QED BY <3>10, <5>1, <5>2
      <4>5. Under(Dest) BY <3>9, <4>4
      <4>6. CASE \E v \in Writers : Good(v)
        <5>1. PICK v \in Writers : Good(v) BY <4>6
        <5>2. Dest = op[v].tmp BY <4>5, <5>1 DEF Under
        <5>3. Bad(w)' BY <4>1, <4>3, <5>1, <5>2
        <5>4. \A u \in Writers : Good(u)' <=> u = v BY <2>1, <3>6, <3>12, <5>1, <5>3
        <5>6. (\A u \in Writers : Good(u)' => name'[w] = op'[u].tmp) /\ ~(\A u \in Writers : ~Good(u)')
          BY <3>12, <5>2, <5>4
        <5>7. \A u \in Writers : Busy(u)' /\ Bad(u)' => u = w BY <3>10, <5>3
        <5>8. \A u \in Writers : Good(u)' => name'[u] = row'.ino BY <2>1, <3>7, <3>12, <5>1, <5>4
        <5> QED BY <3>12, <5>3, <5>4, <5>6, <5>7, <5>8 DEF Stacked, Under
      <4>7. CASE \A v \in Writers : ~Good(v)
        <5>1. Dest = row.ino BY <4>5, <4>7 DEF Under
        <5>2. \A v \in Writers : v # w => ~Busy(v)' BY <2>1, <4>4, <4>7
        <5>3. CASE Bad(w)' BY <3>12, <5>1, <5>2, <5>3 DEF Stacked, Under
        <5>4. CASE ~Bad(w)' BY <3>12, <5>1, <5>2, <5>4 DEF Stacked, Under
        <5> QED BY <5>3, <5>4
      <4> QED BY <4>6, <4>7
    <3>13. CASE /\ Busy(w) /\ Busy(w)' /\ UNCHANGED <<name, row>> /\ op'[w].tmp = op[w].tmp
                /\ Bad(w)' <=> Bad(w) \/ (pc[w] = "compare" /\ Dest # op[w].tmp)
      <4>1. Bad(w)' => Bad(w)
        <5> SUFFICES ASSUME Bad(w)', ~Bad(w) PROVE FALSE OBVIOUS
        <5>1. Dest # op[w].tmp /\ Good(w) BY <3>13
        <5>2. PICK m \in Writers : Busy(m) /\ Bad(m) BY <3>9, <5>1 DEF Under
        <5>3. m # w /\ Bad(m)' BY <2>1, <5>2
        <5> QED BY <3>10, <5>3
      <4>2. \A v \in Writers : (Busy(v)' <=> Busy(v)) /\ (Bad(v)' <=> Bad(v)) /\ op'[v].tmp = op[v].tmp
        BY <2>1, <3>4, <3>13, <4>1
      <4>3. \A i : Under(i) => Under(i)' BY <3>13, <4>2 DEF Under
      <4> QED BY <3>6, <3>7, <3>8, <3>9, <3>13, <4>2, <4>3 DEF Stacked, Dest
    <3>14. CASE Good(w) /\ ~Busy(w)' /\ ~Bad(w)' /\ UNCHANGED name /\ row'.ino = op[w].tmp
      <4>1. \A v \in Writers : ~Good(v)' BY <2>1, <3>6, <3>14
      <4>2. \A i : Under(i) => Under(i)' BY <3>14, <4>1 DEF Under
      <4> QED BY <2>1, <3>8, <3>9, <3>14, <4>1, <4>2 DEF Stacked, Dest
    <3>15. CASE /\ Busy(w) /\ ~Busy(w)' /\ pc[w] = "swap" /\ pc'[w] = "undone"
                /\ name' = Swapped(w) /\ UNCHANGED <<row, op>>
      <4>1. Dest' = name[w] /\ name'[w] = Dest BY <2>2, <3>15 DEF Swapped, Dest
      <4>2. CASE Bad(w)
        <5>1. \A v \in Writers : Good(v)' <=> Good(v) BY <2>1, <3>15, <4>2
        <5>2. \A v \in Writers : ~(Busy(v)' /\ Bad(v)') BY <2>1, <3>4, <3>10, <3>15, <4>2
        <5>3. Under(name[w]) => Under(Dest)' BY <3>15, <4>1, <5>1 DEF Under
        <5> QED BY <2>1, <3>6, <3>7, <3>8, <3>15, <4>2, <5>1, <5>2, <5>3 DEF Stacked
      <4>3. CASE ~Bad(w)
        <5>1. \A v \in Writers : ~Good(v)' BY <2>1, <3>6, <3>15, <4>3
        <5>2. \A m \in Writers : ~(Busy(m) /\ Bad(m))
          <6> SUFFICES ASSUME NEW m \in Writers, Busy(m), Bad(m) PROVE FALSE OBVIOUS
          <6>1. Dest = op[m].tmp /\ op[m].tmp # op[w].tmp BY <2>3, <2>4, <3>8, <4>3
          <6>2. op[w].inst = op[w].tmp BY <2>2, <3>15, <4>3 DEF Recalls, Bad
          <6> QED BY <3>3, <3>15, <4>1, <6>1, <6>2 DEF Stray
        <5>3. \A v \in Writers : ~(Busy(v)' /\ Bad(v)') BY <2>1, <3>15, <5>2
        <5>4. Dest' = row'.ino BY <3>7, <3>15, <4>1, <4>3
        <5> QED BY <5>1, <5>3, <5>4 DEF Stacked, Under
      <4> QED BY <4>2, <4>3
    <3> QED BY <3>3, <3>11, <3>12, <3>13, <3>14, <3>15 DEF StackMoves
  <2> QED BY <2>5, <2>6
<1> QED BY <1>2, <1>3, <1>4

\* Together holds at all times.
LEMMA AlwaysTogether ==
    ASSUME SafeWriteAssumption PROVE Spec => [](Known /\ (~mistaken => Safe /\ Together))
<1>1. Init => Safe /\ Together
  <2> SUFFICES ASSUME Init PROVE Safe /\ Together OBVIOUS
  <2>1. PICK there \in BOOLEAN :
            /\ name = [n \in Names |-> IF there /\ n = "dest" THEN 1 ELSE 0]
            /\ inode = IF there THEN <<[text |-> "catalog", by |-> "honeypath"]>> ELSE <<>>
            /\ row = IF there THEN [ino |-> 1, text |-> "catalog"] ELSE [ino |-> 0, text |-> "none"]
            /\ recorded = (IF there THEN {1} ELSE {})
            /\ pc = [w \in Writers |-> "plan"] /\ op = [w \in Writers |-> NoOp]
    BY DEF Init
  <2>5. Safe BY <2>1 DEF Safe, NoOp, Compared, Creates
  <2>6. Dest = row.ino BY <2>1 DEF Dest, Names
  <2>7. \A w \in Writers : /\ pc[w] = "plan" /\ ~Busy(w) /\ ~Creates(w) /\ Recalls(w) /\ Hooked(w)
                           /\ op[w].mode = "none"
    BY <2>1 DEF Busy, Creates, Recalls, Hooked, Late, NoOp
  <2>8. Founding BY <2>1, <2>6, <2>7 DEF Founding
  <2>9. Stacked BY <2>6, <2>7 DEF Stacked, Good, Under
  <2> QED BY <2>5, <2>7, <2>8, <2>9 DEF Together
<1>2. Known /\ (~mistaken => Safe /\ Together) /\ [Next]_vars => (~mistaken => Safe /\ Together)'
  BY SafeWriteAssumption, MistakesStay, SafeStep, RecallsStep, HookedStep, FoundingStep, StackedStep
  DEF Together
<1> QED BY <1>1, <1>2, AlwaysKnown, PTL DEF Spec

\* Once every command has ended, none of them with a failed rollback, and nobody else
\* touched the file, the row describes what is at the path, unless two commands undid
\* each other's exchange, or equal texts made one take a file for another: for any number
\* of commands.
THEOREM RowInStep == ASSUME SafeWriteAssumption PROVE Spec => []InStep
<1>1. (~mistaken => Together) => InStep
  <2> SUFFICES ASSUME Together, ~CrossUndo, acts = 0, \A w \in Writers : Ended(w)
               PROVE  row.ino = Dest /\ row.text = TextAt
    BY DEF InStep, CommitTogether
  <2>1. \A w \in Writers : ~Stray(w) /\ ~Busy(w) /\ pc[w] = "done" BY DEF Ended, Stray, Busy
  <2>2. Calm BY <2>1 DEF Calm, Bad, CrossUndo
  <2>3. CASE row.ino = 0 BY <2>1, <2>3 DEF Together, Founding, Mine, TextAt
  <2>4. CASE row.ino # 0 BY <2>1, <2>2, <2>4 DEF Together, Founding, Stacked, Good, Under, TextAt
  <2> QED BY <2>3, <2>4
<1> QED BY <1>1, AlwaysTogether, PTL
-----------------------------------------------------------------------------
(* What a replacement checked is what it is recorded over *)

\* A command that has made its file and given it no name.
Pending == {"open", "hash", "identity", "link", "stage"}

\* No file has two names, and one that is to get its first has none.
Distinct ==
    /\ \A m, n \in Names : name[m] = name[n] /\ name[m] # 0 => m = n
    /\ \A w \in Writers : pc[w] \in Pending =>
          \A n \in Names : name[n] # op[w].tmp

\* A file that is not at the path and that nobody will bring back there.
Off(i) ==
    /\ Dest # i
    /\ \A v \in Writers : name[v] = i \/ op[v].tmp = i => pc[v] \in After

\* A file once recorded is the recorded one or is off; so is the one that a command has
\* checked, and what it has taken out is the recorded one.
Settled(i) == i = row.ino \/ Off(i)
Found(w) == ~Creates(w) /\ pc[w] \in {"identity", "stage", "exchange"} => Settled(op[w].chk)
TakenOut(w) ==
    ~Creates(w) /\ (pc[w] \in {"hook", "commit"} \/ (pc[w] = "compare" /\ name[w] = op[w].chk))
       => name[w] = op[w].chk /\ row.ino = op[w].chk
Checked == acts = 0 =>
    /\ \A i \in recorded : Settled(i)
    /\ \A w \in Writers : Found(w) /\ TakenOut(w)

\* How a command's step deals with names: it takes some away, exchanges two, or gives its
\* own file its first one.
NamesMove(w) ==
    \/ \A n \in Names : name'[n] \in {0, name[n]}
    \/ name' = Swapped(w) /\ pc[w] \in {"exchange", "swap"} /\ op' = op
    \/ \E n \in {"dest", w} :
          /\ name' = [name EXCEPT ![n] = op'[w].tmp]
          /\ (pc[w] \in Pending /\ op'[w].tmp = op[w].tmp) \/ op'[w].tmp = Len(inode) + 1

\* Those are all the ways a command deals with them.
LEMMA NamesStep ==
    ASSUME SafeWriteAssumption, Known, NEW w \in Writers, Step(w) \/ Kill(w)
    PROVE  /\ NamesMove(w)
           /\ pc'[w] \in Pending =>
                 /\ UNCHANGED name
                 /\ (pc[w] \in Pending /\ op'[w].tmp = op[w].tmp) \/ op'[w].tmp = Len(inode) + 1
<1>0. /\ pc \in [Writers -> Places] /\ op \in [Writers -> Local] /\ name \in [Names -> Ino]
      /\ w \in Names /\ "dest" \in Names /\ w # "dest" /\ Knows(w)
  BY DEF Known, TypeOK, Local, Names, SafeWriteAssumption
<1> USE <1>0 DEF Stop, Over, Rest, RowStays, Mistakes, At, Set, CleanStage, fileVars, Pending, Local, Dest
<1>1. CASE Planning(w)
  BY <1>1 DEF NamesMove, Planning, PlanCreate, PlanRefresh, Plan, Skip, Recheck, RecheckDeclines,
     ReadExpected
<1>2. CASE Checking(w)
  BY <1>2 DEF NamesMove, Checking, Inspect, InspectRefuses, MakeTemp, NoTemp, OpenCheck, OpenFails,
     HashCheck, HashRefuses, IdentityCheck, IdentityRefuses
<1>3. CASE Creating(w)
  BY <1>3 DEF NamesMove, Creating, Link, LinkRefuses, ExclusiveCreate, ExclusiveRefuses, Fill, FillFails,
     VerifyLink, VerifyRefuses
<1>4. CASE Replacing(w)
  BY <1>4 DEF NamesMove, Replacing, Stage, Exchange, ExchangeFails, Compare, CompareFails, Discard
<1>5. CASE Registering(w)
  BY <1>5 DEF NamesMove, Registering, HookRead, HookRejects, Reject, RecordCanary, RecordFails
<1>6. CASE Undoing(w)
  BY <1>6 DEF NamesMove, Undoing, UnlinkCheck, UnlinkRefuses, Unlink, UndoCheck, UndoRefuses,
     UndoExchange, UndoExchangeFails, UndoVerify
<1>7. CASE Kill(w) BY <1>7 DEF NamesMove, Kill
<1> QED BY <1>1, <1>2, <1>3, <1>4, <1>5, <1>6, <1>7 DEF Step

\* Names stay distinct.
LEMMA DistinctStep ==
    ASSUME SafeWriteAssumption, Known, Distinct, [Next]_vars
    PROVE  Distinct'
<1>0. /\ name \in [Names -> Ino] /\ Len(inode) \in Nat /\ "dest" \in Names
      /\ \A w \in Writers : w \in Names /\ w # "dest" /\ op[w].tmp \in 0 .. Len(inode)
      /\ \A w \in Writers : pc[w] \in Pending => op[w].tmp # 0
  <2>1. name \in [Names -> Ino] /\ Len(inode) \in Nat /\ op \in [Writers -> Local]
    BY DEF Known, TypeOK, Local
  <2>2. \A w \in Writers : pc[w] \in Pending => op[w].tmp # 0
    BY DEF Known, Knows, Pending, Places, Before
  <2> QED BY <2>1, <2>2 DEF Names, SafeWriteAssumption, Local, Ino
<1>1. CASE UNCHANGED vars BY <1>1 DEF vars, fileVars, Distinct
<1>2. CASE User
  <2>1. UNCHANGED <<pc, op>> BY <1>2, UserStays
  <2>2. \/ \A n \in Names : name'[n] \in {0, name[n]}
        \/ name' = [name EXCEPT !["dest"] = Len(inode) + 1]
    BY <1>0, <1>2 DEF User, Edit, Place, Remove
  <2>3. \A n \in Names : name[n] # Len(inode) + 1 BY <1>0 DEF Ino
  <2> QED BY <1>0, <2>1, <2>2, <2>3 DEF Distinct
<1>3. ASSUME NEW w \in Writers, Step(w) \/ Kill(w) PROVE Distinct'
  <2>1. NamesMove(w) /\ \A v \in Writers \ {w} : pc'[v] = pc[v] /\ op'[v] = op[v]
    BY <1>3, NamesStep, OthersStay
  <2>2. pc'[w] \in Pending =>
           /\ UNCHANGED name
           /\ (pc[w] \in Pending /\ op'[w].tmp = op[w].tmp) \/ op'[w].tmp = Len(inode) + 1
    BY <1>3, NamesStep
  <2>3. \A n \in Names : name[n] # Len(inode) + 1 BY <1>0 DEF Ino
  <2>4. pc'[w] \in Pending => \A n \in Names : name'[n] # op'[w].tmp BY <2>2, <2>3 DEF Distinct
  <2>5. CASE \A n \in Names : name'[n] \in {0, name[n]}
    BY <1>0, <2>1, <2>4, <2>5 DEF Distinct
  <2>6. CASE name' = Swapped(w)
    <3>1. name' = [name EXCEPT !["dest"] = name[w], ![w] = name["dest"]]
      BY <2>6 DEF Swapped, Dest
    <3>2. \A n \in Names : name'[n] = IF n = "dest" THEN name[w] ELSE
                                      IF n = w THEN name["dest"] ELSE name[n]
      BY <1>0, <3>1
    <3>3. \A m, n \in Names : name'[m] = name'[n] /\ name'[m] # 0 => m = n
      BY <1>0, <3>2 DEF Distinct
    <3>4. ASSUME NEW v \in Writers \ {w}, pc'[v] \in Pending, NEW n \in Names
          PROVE  name'[n] # op'[v].tmp
      BY <1>0, <2>1, <3>2, <3>4 DEF Distinct
    <3> QED BY <2>4, <3>3, <3>4 DEF Distinct
  <2>7. ASSUME NEW n \in {"dest", w}, name' = [name EXCEPT ![n] = op'[w].tmp],
               (pc[w] \in Pending /\ op'[w].tmp = op[w].tmp) \/ op'[w].tmp = Len(inode) + 1
        PROVE  Distinct'
    <3>1. \A m \in Names : name[m] # op'[w].tmp BY <2>3, <2>7 DEF Distinct
    <3>2. \A v \in Writers \ {w} : pc[v] \in Pending => op[v].tmp # op'[w].tmp
      BY <1>0, <2>7 DEF Known, Files
    <3>3. \A m \in Names : name'[m] = IF m = n THEN op'[w].tmp ELSE name[m] BY <1>0, <2>7
    <3> QED BY <1>0, <2>1, <2>4, <3>1, <3>2, <3>3 DEF Distinct
  <2> QED BY <2>1, <2>5, <2>6, <2>7 DEF NamesMove
<1> QED BY <1>1, <1>2, <1>3 DEF Next

\* A file that is off stays off.
LEMMA OffStays ==
    ASSUME SafeWriteAssumption, Known, [Next]_vars, acts' = 0, NEW i \in 1 .. Len(inode), Off(i)
    PROVE  Off(i)'
<1>0. /\ name \in [Names -> Ino] /\ Len(inode) \in Nat /\ "dest" \in Names
      /\ \A w \in Writers : w \in Names /\ w # "dest"
  BY DEF Known, TypeOK, Names, SafeWriteAssumption
<1>1. CASE UNCHANGED vars BY <1>1 DEF vars, fileVars, Off, Dest
<1>2. ASSUME NEW w \in Writers, Step(w) \/ Kill(w) PROVE Off(i)'
  <2>1. \A n \in Names : name'[n] = i => name[n] = i
    <3>1. NamesMove(w) BY <1>2, NamesStep
    <3>2. CASE \A n \in Names : name'[n] \in {0, name[n]} BY <1>0, <3>2
    <3>3. CASE name' = Swapped(w) /\ pc[w] \in {"exchange", "swap"}
      <4>1. name[w] # i /\ name["dest"] # i BY <3>3 DEF Off, After, Dest
      <4> QED BY <1>0, <3>3, <4>1 DEF Swapped, Dest
    <3>4. ASSUME NEW n \in {"dest", w}, name' = [name EXCEPT ![n] = op'[w].tmp],
                 (pc[w] \in Pending /\ op'[w].tmp = op[w].tmp) \/ op'[w].tmp = Len(inode) + 1
          PROVE  \A m \in Names : name'[m] = i => name[m] = i
      <4>1. op'[w].tmp # i BY <1>0, <3>4 DEF Off, After, Pending
      <4> QED BY <1>0, <3>4, <4>1
    <3> QED BY <3>1, <3>2, <3>3, <3>4 DEF NamesMove
  <2>2. \A v \in Writers : op'[v].tmp = i => op[v].tmp = i BY <1>0, Moves
  <2>3. \A v \in Writers : pc[v] \in After => pc'[v] \in After BY PlaceMoves
  <2> QED BY <1>0, <2>1, <2>2, <2>3 DEF Off, Dest
<1> QED BY <1>1, <1>2, ActsStay

\* What a command has found, and what it has taken out, after its step.
SearchMove(w) ==
    ~Creates(w)' =>
        /\ pc'[w] \in {"identity", "stage", "exchange"} =>
              /\ ~Creates(w) /\ op'[w].chk = op[w].chk
              /\ \/ pc[w] \in {"identity", "stage", "exchange"}
                 \/ pc[w] = "hash" /\ (op[w].chk \in recorded \/ mistaken')
        /\ pc'[w] \in {"compare", "hook", "commit"} =>
              /\ ~Creates(w) /\ op'[w].chk = op[w].chk
              /\ \/ pc[w] = "exchange" /\ pc'[w] = "compare" /\ name'[w] = Dest
                 \/ /\ pc[w] = "compare" /\ pc'[w] = "hook" /\ name'[w] = name[w]
                    /\ name[w] = op[w].chk
                 \/ pc[w] = "hook" /\ pc'[w] = "commit" /\ name'[w] = name[w]

\* Those are all the ways it gets there.
LEMMA SearchStep ==
    ASSUME SafeWriteAssumption, Known, NEW w \in Writers, Step(w) \/ Kill(w)
    PROVE  SearchMove(w)
<1>0. /\ pc \in [Writers -> Places] /\ op \in [Writers -> Local] /\ name \in [Names -> Ino]
      /\ w \in Names /\ "dest" \in Names /\ w # "dest" /\ Knows(w)
  BY DEF Known, TypeOK, Local, Names, SafeWriteAssumption
<1> USE <1>0 DEF SearchMove, Stop, Over, Rest, RowStays, Mistakes, At, Set, CleanStage, fileVars, Creates, Local, Dest
<1>1. CASE Planning(w)
  BY <1>1 DEF Planning, PlanCreate, PlanRefresh, Plan, Skip, Recheck, RecheckDeclines, ReadExpected
<1>2. CASE Checking(w)
  BY <1>2 DEF Checking, Inspect, InspectRefuses, MakeTemp, NoTemp, OpenCheck, OpenFails,
     HashCheck, AsExpected, HashRefuses, IdentityCheck, IdentityRefuses
<1>3. CASE Creating(w)
  BY <1>3 DEF Creating, Link, LinkRefuses, ExclusiveCreate, ExclusiveRefuses, Fill, FillFails,
     VerifyLink, VerifyRefuses, Knows, OnlyCreates
<1>4. CASE Replacing(w)
  BY <1>4 DEF Replacing, Stage, Exchange, Swapped, ExchangeFails, Compare, CompareFails, Discard
<1>5. CASE Registering(w)
  BY <1>5 DEF Registering, HookRead, HookRejects, Reject, RecordCanary, RecordFails
<1>6. CASE Undoing(w)
  BY <1>6 DEF Undoing, UnlinkCheck, UnlinkRefuses, Unlink, UndoCheck, UndoRefuses,
     UndoExchange, UndoExchangeFails, UndoVerify
<1>7. CASE Kill(w) BY <1>7 DEF Kill
<1> QED BY <1>1, <1>2, <1>3, <1>4, <1>5, <1>6, <1>7 DEF Step

\* A commit over a recorded file is that of a replacement that holds this file.
LEMMA CommitTakesOut ==
    ASSUME SafeWriteAssumption, Known, Founding, Checked, acts = 0, row.ino # 0,
           NEW v \in Writers, RecordCanary(v)
    PROVE  ~Creates(v) /\ name[v] = row.ino
<1>1. pc[v] = "commit" BY DEF RecordCanary, At
<1>2. ~Creates(v) BY <1>1 DEF Founding, Mine
<1> QED BY <1>1, <1>2 DEF Checked, TakenOut

\* A file once recorded is the recorded one or off.
LEMMA SettledStays ==
    ASSUME SafeWriteAssumption, Known, Safe, Founding, Distinct, Checked, [Next]_vars, acts' = 0,
           NEW i \in 1 .. Len(inode), Settled(i)
    PROVE  Settled(i)'
<1>0. acts = 0 /\ Len(inode) \in Nat /\ i # 0 /\ \A w \in Writers : w \in Names /\ w # "dest"
  BY ActsStay DEF Known, TypeOK, Names, SafeWriteAssumption
<1>1. CASE Off(i) BY <1>1, OffStays DEF Settled
<1>2. CASE i = row.ino /\ row' = row BY <1>2 DEF Settled
<1>3. ASSUME i = row.ino, NEW v \in Writers, RecordCanary(v) PROVE Off(i)'
  <2>1. name[v] = i /\ UNCHANGED name /\ pc'[v] \in After
    BY <1>0, <1>3, CommitTakesOut, PlaceMoves DEF RecordCanary, fileVars
  <2>2. \A n \in Names : name[n] = i => n = v BY <1>0, <2>1 DEF Distinct
  <2>3. Dest' # i BY <1>0, <2>1, <2>2 DEF Dest, Names
  <2>4. ASSUME NEW u \in Writers, op'[u].tmp = i PROVE pc'[u] \in After
    <3>1. op[u].tmp = i BY <1>0, <2>4, Moves
    <3> QED BY <1>0, <1>3, <3>1, PlaceMoves DEF Safe
  <2> QED BY <1>0, <2>1, <2>2, <2>3, <2>4 DEF Off
<1> QED BY <1>1, <1>2, <1>3, RowMoves DEF Settled

\* What a replacement has found and has taken out stays what is recorded.
LEMMA CheckedStep ==
    ASSUME SafeWriteAssumption, Known, Safe, Founding, Distinct, Checked, [Next]_vars, ~mistaken'
    PROVE  Checked'
<1> SUFFICES ASSUME acts' = 0 PROVE Checked' BY DEF Checked
<1>0. /\ acts = 0 /\ Len(inode) \in Nat /\ DOMAIN inode = 1 .. Len(inode)
      /\ op \in [Writers -> Local] /\ pc \in [Writers -> Places]
      /\ \A w \in Writers : w \in Names /\ w # "dest" /\ Knows(w)
  BY ActsStay DEF Known, TypeOK, Names, SafeWriteAssumption, Local
<1>a. recorded \subseteq 1 .. Len(inode)
  <2>1. recorded \subseteq 0 .. Len(inode) BY DEF Known, TypeOK, Ino
  <2> QED BY <1>0, <2>1 DEF Safe
<1>1. ASSUME NEW i \in recorded' PROVE Settled(i)'
  <2>1. CASE i \in recorded
    <3>1. Settled(i) BY <1>0, <2>1 DEF Checked
    <3> QED BY <1>a, <2>1, <3>1, SettledStays
  <2>2. ASSUME NEW v \in Writers, RecordCanary(v), i \notin recorded PROVE Settled(i)'
    BY <2>2 DEF RecordCanary, Settled
  <2> QED BY <2>1, <2>2, RowMoves
<1>2. ASSUME NEW w \in Writers PROVE Found(w)' /\ TakenOut(w)'
  <2>1. SearchMove(w) \/ (pc'[w] = pc[w] /\ op'[w] = op[w] /\ name'[w] = name[w])
    BY SearchStep, OthersStay, UserStays DEF Next, vars, fileVars
  <2>3. Found(w)'
    <3> SUFFICES ASSUME ~Creates(w)', pc'[w] \in {"identity", "stage", "exchange"}
                 PROVE  Settled(op[w].chk)' /\ op'[w].chk = op[w].chk
      BY DEF Found, Settled, Off
    <3>1. /\ ~Creates(w) /\ op'[w].chk = op[w].chk
          /\ \/ pc[w] \in {"identity", "stage", "exchange"}
             \/ pc[w] = "hash" /\ op[w].chk \in recorded
      BY <2>1 DEF SearchMove, Creates
    <3>2. op[w].chk \in 1 .. Len(inode)
      <4>1. op[w].chk \in 0 .. Len(inode) BY <1>0 DEF Local, Ino
      <4>2. op[w].chk # 0 BY <1>0, <3>1 DEF Knows, Compared
      <4> QED BY <1>0, <4>1, <4>2
    <3>3. Settled(op[w].chk) BY <1>0, <3>1, <3>2 DEF Checked, Found
    <3> QED BY <3>1, <3>2, <3>3, SettledStays
  <2>4. TakenOut(w)'
    <3> SUFFICES ASSUME ~Creates(w)',
                        pc'[w] \in {"hook", "commit"} \/ (pc'[w] = "compare" /\ name'[w] = op'[w].chk)
                 PROVE  name'[w] = op'[w].chk /\ row'.ino = op'[w].chk
      BY DEF TakenOut
    <3>1. ~Creates(w) /\ op'[w].chk = op[w].chk /\ op[w].chk # 0 /\ pc'[w] # "discard"
      BY <1>0, <2>1 DEF SearchMove, Creates, Knows, Compared
    <3>2. name'[w] = op[w].chk /\ row.ino = op[w].chk
      <4>1. CASE pc[w] = "exchange" /\ pc'[w] = "compare" /\ name'[w] = Dest
        <5>1. Dest = op[w].chk BY <3>1, <4>1
        <5> QED BY <1>0, <3>1, <4>1, <5>1 DEF Checked, Found, Settled, Off
      <4>2. CASE /\ pc[w] = "compare" /\ pc'[w] = "hook" /\ name'[w] = name[w]
                 /\ name[w] = op[w].chk
        BY <1>0, <3>1, <4>2 DEF Checked, TakenOut
      <4>3. CASE pc[w] = "hook" /\ pc'[w] = "commit" /\ name'[w] = name[w]
        BY <1>0, <3>1, <4>3 DEF Checked, TakenOut
      <4>4. CASE pc'[w] = pc[w] /\ op'[w] = op[w] /\ name'[w] = name[w]
        BY <1>0, <3>1, <4>4 DEF Checked, TakenOut
      <4> QED BY <2>1, <3>1, <4>1, <4>2, <4>3, <4>4 DEF SearchMove
    <3>3. ASSUME NEW v \in Writers, RecordCanary(v) PROVE FALSE
      <4>1. name[v] = row.ino /\ pc[v] = "commit" /\ pc'[v] = "discard" /\ name' = name
        BY <1>0, <1>2, <3>1, <3>2, <3>3, CommitTakesOut DEF RecordCanary, At, fileVars
      <4>2. v = w BY <1>0, <3>1, <3>2, <4>1 DEF Distinct
      <4> QED BY <3>1, <4>1, <4>2
    <3> QED BY <3>1, <3>2, <3>3, RowMoves
  <2> QED BY <2>3, <2>4
<1> QED BY <1>1, <1>2 DEF Checked

\* A replacement is recorded over the very file that it checked and took out, until
\* somebody other than the commands touches the path or equal texts made a command take a
\* file for another one: for any number of commands, whichever of them fail, undo or are
\* killed.
THEOREM RecordedOverChecked ==
    ASSUME SafeWriteAssumption
    PROVE  Spec => [][\A w \in Writers :
                        RecordCanary(w) /\ ~Creates(w) =>
                           row.ino = op[w].chk \/ acts # 0 \/ mistaken]_vars
<1>1. Init => Distinct /\ Checked
  <2> SUFFICES ASSUME Init PROVE Distinct /\ Checked OBVIOUS
  <2>1. PICK there \in BOOLEAN :
            /\ name = [n \in Names |-> IF there /\ n = "dest" THEN 1 ELSE 0]
            /\ row = IF there THEN [ino |-> 1, text |-> "catalog"] ELSE [ino |-> 0, text |-> "none"]
            /\ recorded = (IF there THEN {1} ELSE {})
            /\ pc = [w \in Writers |-> "plan"]
    BY DEF Init
  <2>2. \A w \in Writers : pc[w] = "plan" BY <2>1
  <2>3. \A m, n \in Names : name[m] = name[n] /\ name[m] # 0 => m = n BY <2>1
  <2>4. \A i \in recorded : i = row.ino BY <2>1
  <2>5. Distinct BY <2>2, <2>3 DEF Distinct, Pending
  <2>6. Checked BY <2>2, <2>4 DEF Checked, Settled, Found, TakenOut
  <2> QED BY <2>5, <2>6
<1>2. Known /\ (~mistaken => Safe /\ Together) /\ Distinct /\ (~mistaken => Checked) /\ [Next]_vars
        => Distinct' /\ (~mistaken => Checked)'
  BY SafeWriteAssumption, MistakesStay, DistinctStep, CheckedStep DEF Together
<1>3. (~mistaken => Checked) /\ [Next]_vars
        => [\A w \in Writers :
              RecordCanary(w) /\ ~Creates(w) =>
                 row.ino = op[w].chk \/ acts # 0 \/ mistaken]_vars
  BY DEF Checked, TakenOut, RecordCanary, At
<1> QED BY <1>1, <1>2, <1>3, AlwaysTogether, PTL DEF Spec

\* So no command loses what another one recorded: where nobody but the commands touches the
\* path, `ReplacesChecked` has no exception but that of equal texts.
THEOREM CommandsReplaceChecked ==
    ASSUME SafeWriteAssumption, MaxUser = 0 PROVE Spec => ReplacesChecked
<1>1. Known => acts = 0 BY DEF Known, TypeOK
<1>2. Known /\ [\A w \in Writers :
                   RecordCanary(w) /\ ~Creates(w) =>
                      row.ino = op[w].chk \/ acts # 0 \/ mistaken]_vars
        => [\A w \in Writers :
              RecordCanary(w) /\ ~Creates(w) =>
                 row.ino = op[w].chk \/ op[w].tmp \in dropped \/ mistaken]_vars
  BY <1>1
<1> QED BY <1>2, AlwaysKnown, RecordedOverChecked, PTL DEF ReplacesChecked
=============================================================================
