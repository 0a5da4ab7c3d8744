-------------------------- MODULE SkillInstaller --------------------------
(***************************************************************************)
(* `tpo skills install | uninstall | recover` for one skill at one target  *)
(* (src/hermes_pipeline/skill_installer.py).  A command journals what it   *)
(* is about to do, moves directories by rename and removes the journal     *)
(* when it is done; a journal that is left blocks new commands until       *)
(* `recover` finishes the transaction or rolls it back, and recovering may *)
(* itself die.  Before every move the code compares directories and the    *)
(* receipt with the identities it journaled, and refuses on any drift.     *)
(*                                                                         *)
(* Meanwhile people edit, remove and create the skill's directory and      *)
(* change its receipt (which stays JSON), and tpo itself is upgraded       *)
(* between two commands.                                                   *)
(* The flock of the target admits one command at a time and a death frees  *)
(* it; an error of the operating system ends a command where a death       *)
(* would.  Temporary files that a death leaves behind are not modelled.    *)
(***************************************************************************)
EXTENDS Integers, FiniteSets, FiniteSetsExt

CONSTANTS
  MaxFiles,     \* entries of a skill's directory
  MaxCommands,  \* installs and uninstalls (bound)
  MaxDeaths,    \* deaths of one transaction's commands (bound)
  MaxActs       \* what people do, upgrades included (bound)

ASSUME SkillInstallerAssumption ==
  /\ MaxFiles \in Nat \ {0}
  /\ MaxCommands \in Nat /\ MaxDeaths \in Nat /\ MaxActs \in Nat

VARIABLES
  source,       \* the skill's directory that is bundled with tpo: its inode and version
  dest,         \* the skill's directory
  stage,        \* the transaction's .stage-<token> directory
  backup,       \* its .backup-<token> directory
  receipt,      \* the receipt of the installed skill
  replacement,  \* the file that a rollback prepared to replace the receipt with
  journal,      \* the recovery journal
  pc,           \* where the running command is
  commands, deaths, acts,
  touched,      \* who changed something since the transaction began
  kept          \* what people wrote and have not asked a command to remove

disk == <<dest, stage, backup, receipt, replacement>>
bounds == <<commands, deaths, acts>>
vars == <<source, disk, journal, pc, bounds, touched, kept>>

(* A directory's identity is its inode and its content; a digest is the    *)
(* content alone.  A directory that is being copied or removed has some of *)
(* its entries.                                                            *)
Bundled(v) == [by |-> "tpo", n |-> v]
Mine(k) == [by |-> "people", n |-> k]
NoText == [by |-> "nobody", n |-> 0]
Texts == {NoText} \cup {Bundled(v) : v \in 1..2} \cup {Mine(k) : k \in 0..MaxActs}

Trees == [id : 0..3, text : Texts, files : 0..MaxFiles]
NoTree == [id |-> 0, text |-> NoText, files |-> 0]
Files == [id : 0..3, text : Texts]
NoFile == [id |-> 0, text |-> NoText]

NewTreeId == Min((1..3) \ {dest.id, stage.id, backup.id})
NewFileId == Min((1..3) \ {receipt.id, replacement.id})

\* A manifest names the entries of a directory but not its inode; nothing fits an empty one.
Fits(tree, manifest) ==
  \/ tree = NoTree
  \/ /\ manifest # NoTree
     /\ tree.files <= manifest.files
     /\ tree.files > 0 => tree.text = manifest.text

Journals ==
  [op : {"install", "uninstall"}, source : Files, old : Trees, new : Trees, prev : Files,
   written : Files, replaced : Files, manifested : BOOLEAN, manifest : Trees,
   cleaned : [{"backup", "stage"} -> {"pending", "removing", "done"}], committed : BOOLEAN]
NoJournal == [op |-> "none"]

\* What every transaction starts from; new, written and replaced are NoTree and NoFile
\* until the step that makes them is journaled.
Begun(op) ==
  [op |-> op, source |-> IF op = "install" THEN source ELSE NoFile, old |-> dest, new |-> NoTree,
   prev |-> receipt, written |-> NoFile, replaced |-> NoFile, manifested |-> FALSE,
   manifest |-> NoTree, cleaned |-> [key \in {"backup", "stage"} |-> "pending"],
   committed |-> FALSE]

TypeOK ==
  /\ {dest, stage, backup} \subseteq Trees
  /\ {source, receipt, replacement} \subseteq Files
  /\ journal \in Journals \cup {NoJournal}
  /\ pc \in {"idle", "stage", "copy", "finish", "backing", "backed", "activate", "activating",
             "activated", "receipt", "written", "commit", "removeReceipt", "cleanBackup",
             "cleanStage", "undo", "unactivating", "restore", "manifest", "unstage",
             "prepare", "replace", "replaced", "done"}
  /\ commands \in 0..MaxCommands /\ deaths \in 0..MaxDeaths /\ acts \in 0..MaxActs
  /\ touched \subseteq {"people", "package"} /\ kept \subseteq Texts

Whole(text) == [id |-> 1, text |-> text, files |-> MaxFiles]

\* Nothing, a directory somebody made, or an earlier install and its receipt.
Init ==
  /\ source = [id |-> 1, text |-> Bundled(1)]
  /\ \/ dest = NoTree /\ receipt = NoFile /\ kept = {}
     \/ dest = Whole(Mine(0)) /\ receipt = NoFile /\ kept = {Mine(0)}
     \/ /\ \E v \in 1..2 : dest = Whole(Bundled(v)) /\ receipt = [id |-> 1, text |-> Bundled(v)]
        /\ kept = {}
  /\ stage = NoTree /\ backup = NoTree /\ replacement = NoFile
  /\ journal = NoJournal /\ pc = "idle"
  /\ commands = 0 /\ deaths = 0 /\ acts = 0 /\ touched = {}

-----------------------------------------------------------------------------
(* Steps of a command.  Each leaves the bounds and the ghosts alone.       *)

Goto(place) ==
  pc' = place /\ UNCHANGED <<source, bounds, touched, kept>>

\* An identity drifted: the command ends with an error and leaves everything as it is.
Refuse == Goto("idle") /\ UNCHANGED <<disk, journal>>

Moves(place) == Goto(place) /\ UNCHANGED <<disk, journal>>

Writes(place, field, value) ==
  Goto(place) /\ journal' = [journal EXCEPT ![field] = value] /\ UNCHANGED disk

Starts(op) ==
  /\ pc = "idle" /\ journal = NoJournal /\ commands < MaxCommands
  /\ journal' = Begun(op)
  /\ commands' = commands + 1 /\ deaths' = 0 /\ touched' = {}
  /\ UNCHANGED <<source, disk, acts>>

\* A skill that is there is replaced only with --reinstall.
Install == Starts("install") /\ pc' = "stage" /\ kept' = kept \ {dest.text}

\* Mutant: the receipt is not asked.
Uninstall_Unchecked(force) ==
  /\ dest # NoTree
  /\ Starts("uninstall") /\ pc' = "finish"
  /\ kept' = IF force THEN kept \ {dest.text} ELSE kept

\* Without --force the receipt must name what is there.
Uninstall(force) ==
  /\ dest # NoTree
  /\ force \/ receipt.text = dest.text
  /\ Starts("uninstall") /\ pc' = "finish"
  /\ kept' = IF force THEN kept \ {dest.text} ELSE kept

Recover(place) ==
  /\ pc = "idle" /\ journal # NoJournal
  /\ Moves(place)

RecoverFinish == Recover("finish")
RecoverRollback == Recover("undo")

\* Mutant: what an earlier attempt copied is not removed, so that copying fails.
StageBegins_Existing ==
  /\ pc = "stage"
  /\ IF source # journal.source \/ stage # NoTree THEN Refuse
     ELSE /\ stage' = [id |-> NewTreeId, text |-> source.text, files |-> 0]
          /\ Goto("copy") /\ UNCHANGED <<dest, backup, receipt, replacement, journal>>

\* _step_stage: whatever an earlier attempt copied is removed and copied again.  A bundled
\* directory that was made anew is refused, also when its content is the same.
StageBegins ==
  /\ pc = "stage"
  /\ IF source # journal.source THEN Refuse
     ELSE /\ stage' = [id |-> NewTreeId, text |-> source.text, files |-> 0]
          /\ Goto("copy") /\ UNCHANGED <<dest, backup, receipt, replacement, journal>>

StageCopies ==
  /\ pc = "copy"
  /\ IF stage.files < MaxFiles
     THEN /\ stage' = [stage EXCEPT !.files = @ + 1]
          /\ Goto("copy") /\ UNCHANGED <<dest, backup, receipt, replacement, journal>>
     ELSE Writes("finish", "new", stage)

\* The first tests of _finish_install and _finish_uninstall, and the test before the rename.
InstallResumes ==
  /\ pc = "finish" /\ journal.op = "install"
  /\ IF journal.new = NoTree THEN Moves("stage")
     ELSE IF journal.old = NoTree \/ backup # NoTree \/ dest = journal.new THEN Moves("activate")
     ELSE IF dest = journal.old THEN Moves("backing") ELSE Refuse

UninstallResumes ==
  /\ pc = "finish" /\ journal.op = "uninstall"
  /\ IF dest = NoTree THEN Moves("commit")
     ELSE IF dest = journal.old /\ backup = NoTree THEN Moves("backing") ELSE Refuse

\* os.replace of a directory fails when its source is gone or its target is not empty.
BackupRenames ==
  /\ pc = "backing"
  /\ IF dest = NoTree THEN Refuse
     ELSE /\ backup' = dest /\ dest' = NoTree
          /\ Goto("backed") /\ UNCHANGED <<stage, receipt, replacement, journal>>

BackupVerified ==
  /\ pc = "backed"
  /\ IF backup = journal.old /\ dest = NoTree
     THEN Moves(IF journal.op = "install" THEN "activate" ELSE "commit")
     ELSE Refuse

Activate ==
  /\ pc = "activate"
  /\ IF dest = NoTree
     THEN IF stage = journal.new THEN Moves("activating") ELSE Refuse
     ELSE IF dest = journal.new THEN Moves("receipt") ELSE Refuse

ActivateRenames ==
  /\ pc = "activating"
  /\ IF dest # NoTree THEN Refuse
     ELSE /\ dest' = stage /\ stage' = NoTree
          /\ Goto("activated") /\ UNCHANGED <<backup, receipt, replacement, journal>>

ActivateVerified ==
  /\ pc = "activated"
  /\ IF dest = journal.new THEN Moves("receipt") ELSE Refuse

\* _step_receipt: a receipt that is neither the new one nor the one found at first is refused.
ReceiptWrites ==
  /\ pc = "receipt"
  /\ CASE receipt.text = journal.new.text -> Moves("commit")
       [] receipt.text # journal.new.text /\ receipt \in {NoFile, journal.prev} ->
            /\ receipt' = [id |-> NewFileId, text |-> journal.new.text]
            /\ Goto("written") /\ UNCHANGED <<dest, stage, backup, replacement, journal>>
       [] OTHER -> Refuse

ReceiptJournaled == pc = "written" /\ Writes("commit", "written", receipt)

Commit ==
  /\ pc = "commit"
  /\ Writes(IF journal.op = "install" THEN "cleanBackup" ELSE "removeReceipt", "committed", TRUE)

RemoveReceipt ==
  /\ pc = "removeReceipt"
  /\ IF receipt \in {NoFile, journal.prev}
     THEN receipt' = NoFile /\ Goto("cleanBackup")
          /\ UNCHANGED <<dest, stage, backup, replacement, journal>>
     ELSE Refuse

Cleaned(key, state) == [journal.cleaned EXCEPT ![key] = state]

\* _cleanup_tree: entry by entry once the directory is known to be the transaction's own.
CleanupTree(key, tree, expected, next) ==
  LET state == journal.cleaned[key] IN
  \/ state = "done" /\ (IF tree = NoTree THEN Moves(next) ELSE Refuse)
  \/ /\ state = "pending"
     /\ CASE tree = NoTree   -> Writes(pc, "cleaned", Cleaned(key, "done"))
          [] tree # NoTree /\ tree = expected -> Writes(pc, "cleaned", Cleaned(key, "removing"))
          [] OTHER -> Refuse
  \/ state = "removing" /\ tree = NoTree /\ Writes(pc, "cleaned", Cleaned(key, "done"))
  \/ state = "removing" /\ tree # NoTree /\ (tree.id # expected.id \/ ~Fits(tree, expected)) /\ Refuse

Shrunk(tree) == IF tree.files = 0 THEN NoTree ELSE [tree EXCEPT !.files = @ - 1]

Removable(key, tree, expected) ==
  journal.cleaned[key] = "removing" /\ tree # NoTree /\ tree.id = expected.id /\ Fits(tree, expected)

CleanBackup ==
  /\ pc = "cleanBackup"
  /\ \/ CleanupTree("backup", backup, journal.old, "cleanStage")
     \/ /\ Removable("backup", backup, journal.old)
        /\ backup' = Shrunk(backup)
        /\ Goto(pc) /\ UNCHANGED <<dest, stage, receipt, replacement, journal>>

CleanStage ==
  /\ pc = "cleanStage"
  /\ \/ CleanupTree("stage", stage, journal.new, "done")
     \/ /\ Removable("stage", stage, journal.new)
        /\ stage' = Shrunk(stage)
        /\ Goto(pc) /\ UNCHANGED <<dest, backup, receipt, replacement, journal>>

RemoveJournal ==
  /\ pc = "done"
  /\ journal' = NoJournal /\ replacement' = NoFile /\ Goto("idle")
  /\ UNCHANGED <<dest, stage, backup, receipt>>
-----------------------------------------------------------------------------
(* Rollback.                                                               *)

\* _validate_rollback_receipt
ReceiptKnown ==
  IF receipt = NoFile THEN journal.prev = NoFile
  ELSE \/ receipt = journal.prev
       \/ /\ journal.op = "install" /\ receipt.text = journal.source.text
          /\ journal.written \in {NoFile, receipt}
       \/ journal.replaced # NoFile /\ receipt = journal.replaced

StageKnown ==
  \/ journal.op = "uninstall"
  \/ stage = NoTree
  \/ journal.manifested /\ Fits(stage, journal.manifest)
  \/ /\ ~journal.manifested
     /\ IF journal.new = NoTree THEN stage.files = MaxFiles /\ stage.text = journal.source.text
        ELSE stage = journal.new

\* Mutant: a transaction past its commit point may be rolled back.
Undoable_Committed ==
  /\ ReceiptKnown /\ StageKnown
  /\ dest \in {NoTree, journal.old, journal.new}
  /\ backup \in {NoTree, journal.old}

Undoable ==
  /\ ~journal.committed
  /\ ReceiptKnown /\ StageKnown
  /\ dest \in {NoTree, journal.old, journal.new}
  /\ backup \in {NoTree, journal.old}

Activated == dest = journal.new /\ dest # NoTree

\* The old directory is where it was, or its place is free for it.
Restorable(tree) ==
  IF backup = NoTree THEN journal.old \in {NoTree, tree} ELSE tree = NoTree

\* What a rollback finds at its beginning is all that it compares until the receipt.
UndoBegins ==
  /\ pc = "undo"
  /\ IF Undoable /\ (IF Activated THEN stage = NoTree ELSE Restorable(dest))
     THEN Moves(IF Activated THEN "unactivating" ELSE "restore")
     ELSE Refuse

Unactivate ==
  /\ pc = "unactivating"
  /\ IF dest = NoTree THEN Refuse
     ELSE /\ stage' = dest /\ dest' = NoTree
          /\ Goto(IF Restorable(NoTree) THEN "restore" ELSE "idle")
          /\ UNCHANGED <<backup, receipt, replacement, journal>>

\* Only the rename itself fails on a directory that people have made meanwhile.
Restore ==
  /\ pc = "restore"
  /\ IF backup = NoTree THEN Moves("manifest")
     ELSE IF dest # NoTree THEN Refuse
          ELSE /\ dest' = backup /\ backup' = NoTree
               /\ Goto("manifest") /\ UNCHANGED <<stage, receipt, replacement, journal>>

\* _cleanup_rollback_stage: the manifest is taken once, before the first entry goes.
RecordManifest ==
  /\ pc = "manifest"
  /\ IF journal.manifested
     THEN IF Fits(stage, journal.manifest) THEN Moves("unstage") ELSE Refuse
     ELSE /\ journal' = [journal EXCEPT !.manifested = TRUE, !.manifest = stage]
          /\ Goto("unstage") /\ UNCHANGED disk

Unstage ==
  /\ pc = "unstage"
  /\ IF stage = NoTree THEN Moves("prepare")
     ELSE /\ stage' = Shrunk(stage)
          /\ Goto(pc) /\ UNCHANGED <<dest, backup, receipt, replacement, journal>>

Restored == receipt = journal.replaced

\* _restore_rollback_receipt: a copy of the earlier receipt, journaled before it replaces
\* the receipt.
PrepareReceipt ==
  /\ pc = "prepare"
  /\ IF journal.prev # NoFile /\ journal.replaced = NoFile
     THEN IF ~ReceiptKnown THEN Refuse
          ELSE LET copy == [id |-> NewFileId, text |-> journal.prev.text] IN
               /\ replacement' = copy
               /\ journal' = [journal EXCEPT !.replaced = copy]
               /\ Goto("replace") /\ UNCHANGED <<dest, stage, backup, receipt>>
     ELSE IF Restored THEN Moves("replaced")
          ELSE IF ReceiptKnown /\ replacement = journal.replaced THEN Moves("replace") ELSE Refuse

ReplaceReceipt ==
  /\ pc = "replace"
  /\ receipt' = replacement /\ replacement' = NoFile
  /\ Goto("replaced") /\ UNCHANGED <<dest, stage, backup, journal>>

ReceiptRestored ==
  /\ pc = "replaced"
  /\ IF Restored THEN Moves("done") ELSE Refuse
-----------------------------------------------------------------------------
(* Deaths, people and upgrades.                                            *)

Die ==
  /\ pc # "idle" /\ deaths < MaxDeaths
  /\ pc' = "idle" /\ deaths' = deaths + 1
  /\ UNCHANGED <<source, disk, journal, commands, acts, touched, kept>>

Acts(who) ==
  /\ acts < MaxActs /\ acts' = acts + 1
  /\ touched' = IF journal = NoJournal THEN touched ELSE touched \cup {who}
  /\ UNCHANGED <<stage, backup, replacement, journal, pc, commands, deaths>>

\* A rollback compares the new directory before it moves it aside, and not again after: what
\* people write between the two goes with it.
Noticed(text) == IF pc = "unactivating" THEN {} ELSE {text}

PersonEdits ==
  /\ dest # NoTree /\ Acts("people")
  /\ dest' = [dest EXCEPT !.text = Mine(acts + 1)]
  /\ kept' = (kept \ {dest.text}) \cup Noticed(Mine(acts + 1))
  /\ UNCHANGED <<source, receipt>>

PersonRemoves ==
  /\ dest # NoTree /\ Acts("people")
  /\ dest' = NoTree /\ kept' = kept \ {dest.text}
  /\ UNCHANGED <<source, receipt>>

PersonCreates ==
  /\ dest = NoTree /\ Acts("people")
  /\ dest' = [id |-> NewTreeId, text |-> Mine(acts + 1), files |-> MaxFiles]
  /\ kept' = kept \cup Noticed(Mine(acts + 1))
  /\ UNCHANGED <<source, receipt>>

PersonEditsReceipt ==
  /\ receipt # NoFile /\ Acts("people")
  /\ receipt' = [receipt EXCEPT !.text = Mine(acts + 1)]
  /\ UNCHANGED <<source, dest, kept>>

\* The bundled directory is made anew, by another version or the same.
Upgrade ==
  /\ pc = "idle" /\ Acts("package")
  /\ source' \in [id : 1..2, text : {Bundled(v) : v \in 1..2}] \ {source}
  /\ UNCHANGED <<dest, receipt, kept>>

Finishes ==
  \/ StageBegins \/ StageCopies \/ InstallResumes \/ UninstallResumes \/ BackupRenames
  \/ BackupVerified \/ Activate \/ ActivateRenames \/ ActivateVerified \/ ReceiptWrites
  \/ ReceiptJournaled \/ Commit \/ RemoveReceipt \/ CleanBackup \/ CleanStage \/ RemoveJournal

RollsBack ==
  \/ UndoBegins \/ Unactivate \/ Restore \/ RecordManifest \/ Unstage \/ PrepareReceipt
  \/ ReplaceReceipt \/ ReceiptRestored

People == PersonEdits \/ PersonRemoves \/ PersonCreates \/ PersonEditsReceipt \/ Upgrade

Next ==
  \/ Install \/ (\E force \in BOOLEAN : Uninstall(force)) \/ RecoverFinish \/ RecoverRollback
  \/ Finishes \/ RollsBack \/ Die \/ People

Spec == Init /\ [][Next]_vars

\* A command that is not killed goes on, and an operator who finds a journal tries both ways.
FairSpec ==
  /\ Spec /\ WF_vars(Finishes \/ RollsBack)
  /\ SF_vars(RecoverFinish) /\ SF_vars(RecoverRollback)
-----------------------------------------------------------------------------
(* Properties.                                                             *)

\* Until the commit the directory that was there at first is whole, in its place or in the
\* backup, whichever commands died and were recovered, unless people changed it themselves.
OldSurvives ==
  journal # NoJournal /\ ~journal.committed /\ "people" \notin touched =>
    journal.old \in {NoTree, dest, backup}

\* What people wrote is somewhere, whole, until they ask for its removal (--reinstall, --force)
\* or remove it, wherever between two steps of a command they wrote it.  (Noticed names the
\* exception.)
EditsSurvive ==
  \A text \in kept : \E tree \in {dest, stage, backup} :
    tree.text = text /\ tree.files = MaxFiles

\* No command and no recovery loses a skill: neither the one it set out to replace nor what
\* people wrote meanwhile.
NothingIsLost == OldSurvives /\ EditsSurvive

\* A transaction ends done or undone and nothing in between, however often its commands died:
\* the new skill with its receipt, or no skill and no receipt, or what was there at first with
\* its receipt; and the journal goes last, after everything the transaction made.
Done ==
  IF journal.op = "install"
  THEN dest' = journal.new /\ dest'.files = MaxFiles /\ receipt'.text = dest'.text
  ELSE dest' = NoTree /\ receipt' = NoFile
Undone == dest' = journal.old /\ receipt'.text = journal.prev.text
AllOrNothing ==
  [][journal # NoJournal /\ journal' = NoJournal =>
       /\ stage = NoTree /\ backup = NoTree
       /\ "people" \notin touched => IF journal.committed THEN Done ELSE Undone]_vars

\* A transaction that one death interrupted ends, as long as an operator tries both ways and
\* nobody changes the skill or tpo meanwhile: "Adjacent lock, journal, and receipt files make
\* each single-target operation recoverable" (docs/reference-cli.md:348-349).  After a second
\* death, in a rollback, it need not (README.md, Findings).
RecoveryEnds ==
  journal # NoJournal ~> journal = NoJournal \/ touched # {} \/ deaths > 1
=============================================================================
