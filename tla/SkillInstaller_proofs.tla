------------------------ MODULE SkillInstaller_proofs ------------------------
(***************************************************************************)
(* Theorems of SkillInstaller, for directories of every size and any       *)
(* number of commands, deaths and acts of people.                          *)
(***************************************************************************)
EXTENDS SkillInstaller, TLAPS

-----------------------------------------------------------------------------
(* The inductive invariant.                                                *)

Untouched == "people" \notin touched
Installs == journal.op = "install"
Undoing == {"unactivating", "restore", "manifest", "unstage", "prepare", "replace", "replaced"}

\* What people have written so far, and what tpo has.
Written == {NoText} \cup {Bundled(v) : v \in 1..2} \cup {Mine(k) : k \in 0..acts}

\* Nothing that a command compares with is worth keeping, and what people write next is new.
TextsKnown ==
  /\ source.text \in {Bundled(v) : v \in 1..2}
  /\ kept \subseteq {Mine(k) : k \in 0..acts}
  /\ dest.text \in Written
  /\ receipt.text \in Written \ kept /\ replacement.text \in Written \ kept
  /\ journal # NoJournal =>
       /\ journal.source.text \in {NoText} \cup {Bundled(v) : v \in 1..2}
       /\ journal.old.text \in Written \ kept /\ journal.prev.text \in Written \ kept
       /\ journal.new.text \in {NoText, journal.source.text}
       /\ journal.replaced = NoFile \/ journal.replaced.text = journal.prev.text

\* What people wrote is in the skill's place or in the backup, never in a stage.
EditsPlaced ==
  \A text \in kept : \E tree \in {dest, backup} : tree.text = text /\ tree.files = MaxFiles

\* Whole directories with inodes, and what a transaction has when it is where it is.
DiskFits ==
  /\ dest = NoTree \/ (dest.id # 0 /\ dest.files = MaxFiles)
  /\ stage = NoTree \/ stage.id # 0
  /\ backup = NoTree \/ backup.id # 0
  /\ journal = NoJournal => pc = "idle" /\ stage = NoTree /\ backup = NoTree
  /\ journal # NoJournal =>
       /\ ~journal.committed => backup = NoTree \/ backup.files = MaxFiles
       /\ ~Installs => journal.new = NoTree
       /\ journal.new # NoTree => journal.new.id # 0 /\ journal.new.files = MaxFiles
       /\ Installs /\ journal.new = NoTree => backup = NoTree /\ ~journal.committed

\* While nobody interferes the new directory is another one than the old, and a commit means
\* that the work is done.
Undisturbed ==
  journal # NoJournal /\ Untouched =>
    /\ journal.new = NoTree \/ journal.old = NoTree \/ journal.new.id # journal.old.id
    /\ ~journal.committed => journal.old \in {NoTree, dest, backup}
    /\ pc = "commit" \/ journal.committed =>
         IF Installs THEN dest = journal.new /\ receipt.text = journal.new.text ELSE dest = NoTree

\* What a command may rely on when it gets to its next step.
FinishRelies ==
  /\ pc \in {"stage", "copy"} => Installs /\ journal.new = NoTree
  /\ pc = "copy" =>
       /\ stage.id # 0 /\ stage.text = journal.source.text
       /\ Untouched => journal.old = NoTree \/ stage.id # journal.old.id
  /\ pc \in {"backing", "backed", "commit"} /\ Installs => journal.new # NoTree
  /\ pc = "backing" => backup = NoTree /\ (Untouched => ~journal.committed)
  /\ pc \in {"activate", "activating", "activated", "receipt", "written"} =>
       Installs /\ journal.new # NoTree
  /\ pc = "activating" => stage = journal.new
  /\ pc \in {"receipt", "written"} /\ Untouched => dest = journal.new
  /\ pc = "written" /\ Untouched => receipt.text = journal.new.text
  /\ pc = "removeReceipt" => ~Installs
  /\ pc \in {"removeReceipt", "cleanBackup", "cleanStage"} => journal.committed
  /\ pc \in {"cleanBackup", "cleanStage"} /\ ~Installs /\ Untouched => receipt = NoFile
  /\ pc = "cleanStage" => backup = NoTree

UndoRelies ==
  /\ pc \in Undoing => ~journal.committed
  /\ pc = "unactivating" =>
       dest.text \notin kept /\ (Untouched => dest = journal.new /\ dest # NoTree)
  /\ pc \in {"unactivating", "restore"} => backup \in {NoTree, journal.old}
  /\ pc = "restore" /\ Untouched => dest = IF backup = NoTree THEN journal.old ELSE NoTree
  /\ pc \in {"manifest", "unstage", "prepare", "replace", "replaced"} =>
       backup = NoTree /\ (Untouched => dest = journal.old)
  /\ pc \in {"prepare", "replace", "replaced"} => stage = NoTree
  /\ pc \in {"replace", "replaced"} => journal.replaced.text = journal.prev.text

\* A transaction at its end.
DoneRelies ==
  pc = "done" =>
    /\ stage = NoTree /\ backup = NoTree
    /\ Untouched /\ journal.committed /\ ~Installs => receipt = NoFile
    /\ Untouched /\ ~journal.committed => dest = journal.old /\ receipt.text = journal.prev.text

SkillInv ==
  /\ TypeOK /\ TextsKnown /\ EditsPlaced /\ DiskFits
  /\ Undisturbed /\ FinishRelies /\ UndoRelies /\ DoneRelies

-----------------------------------------------------------------------------
(* Numbers and records                                                     *)

(* Min picks a member of a set of inode numbers.                           *)
LEMMA Least ==
  ASSUME NEW S \in SUBSET (1..3), S # {}
  PROVE  Min(S) \in S
  <1>1. \E x \in S : \A y \in S : x =< y
    <2>0. \A y \in S : y = 1 \/ y = 2 \/ y = 3
      OBVIOUS
    <2>1. CASE 1 \in S
      BY <2>0, <2>1
    <2>2. CASE 1 \notin S /\ 2 \in S
      BY <2>0, <2>2
    <2>3. CASE 1 \notin S /\ 2 \notin S
      <3>1. 3 \in S /\ \A y \in S : y = 3
        BY <2>0, <2>3
      <3> QED BY <3>1
    <2> QED BY <2>1, <2>2, <2>3
  <1> QED BY <1>1 DEF Min

(* _atomic_json's file has an inode of its own.                            *)
LEMMA NewFile ==
  ASSUME TypeOK
  PROVE  NewFileId \in 1..3 /\ NewFileId # receipt.id
  <1>1. (1..3) \ {receipt.id, replacement.id} # {}
    OBVIOUS
  <1> QED BY <1>1, Least DEF NewFileId

(* A new directory has one too, as long as one of the three places is empty. *)
LEMMA NewTree ==
  ASSUME TypeOK, 0 \in {dest.id, backup.id}
  PROVE  NewTreeId \in 1..3 /\ NewTreeId # dest.id
  <1>1. (1..3) \ {dest.id, stage.id, backup.id} # {}
    OBVIOUS
  <1> QED BY <1>1, Least DEF NewTreeId

(* A write to one field of the journal.                                    *)
LEMMA JournalWrites ==
  ASSUME NEW j \in Journals
  PROVE  /\ \A tree \in Trees : [j EXCEPT !["new"] = tree] \in Journals
         /\ \A file \in Files : [j EXCEPT !["written"] = file] \in Journals
         /\ \A file \in Files : [j EXCEPT !.replaced = file] \in Journals
         /\ [j EXCEPT !["committed"] = TRUE] \in Journals
         /\ \A tree \in Trees : [j EXCEPT !.manifested = TRUE, !.manifest = tree] \in Journals
         /\ \A key \in {"backup", "stage"}, state \in {"pending", "removing", "done"} :
              [j EXCEPT !["cleaned"] = [j.cleaned EXCEPT ![key] = state]] \in Journals
  BY DEF Journals

(* What a removal entry by entry leaves is a directory or nothing.         *)
LEMMA ShrunkType ==
  ASSUME NEW tree \in Trees
  PROVE  Shrunk(tree) \in Trees /\ (Shrunk(tree) = NoTree \/ Shrunk(tree).id = tree.id)
  BY SkillInstallerAssumption DEF Shrunk, Trees, NoTree, Texts

(* The journal's constant is not a journal.                                *)
LEMMA NoJournalIsNone == NoJournal \notin Journals
  BY DEF NoJournal, Journals

-----------------------------------------------------------------------------
(* Type correctness                                                        *)

(* The values that a step may write.                                       *)
LEMMA Values ==
  /\ NoTree \in Trees /\ NoFile \in Files /\ NoText \in Texts
  /\ \A v \in 1..2 : Bundled(v) \in Texts
  /\ \A k \in 0..MaxActs : Mine(k) \in Texts
  /\ MaxFiles \in 0..MaxFiles /\ 0 \in 0..MaxFiles
  <1>1. NoText \in Texts /\ \A v \in 1..2 : Bundled(v) \in Texts
    BY DEF Texts
  <1>2. \A k \in 0..MaxActs : Mine(k) \in Texts
    BY DEF Texts
  <1>3. MaxFiles \in 0..MaxFiles /\ 0 \in 0..MaxFiles
    BY SkillInstallerAssumption
  <1>4. NoTree \in Trees /\ NoFile \in Files
    BY <1>1, <1>3 DEF NoTree, NoFile, Trees, Files
  <1> QED BY <1>1, <1>2, <1>3, <1>4

(* A step that goes on leaves the bounds and the ghosts as they are.       *)
LEMMA StepType ==
  ASSUME TypeOK, UNCHANGED <<source, bounds, touched, kept>>,
         pc' \in {"idle", "stage", "copy", "finish", "backing", "backed", "activate", "activating",
                  "activated", "receipt", "written", "commit", "removeReceipt", "cleanBackup",
                  "cleanStage", "undo", "unactivating", "restore", "manifest", "unstage",
                  "prepare", "replace", "replaced", "done"},
         {dest', stage', backup'} \subseteq Trees, {receipt', replacement'} \subseteq Files,
         journal' \in Journals \cup {NoJournal}
  PROVE  TypeOK'
  BY DEF TypeOK, bounds

(* Every step of a command keeps the types.                                *)
LEMMA FinishType ==
  ASSUME SkillInv, Finishes
  PROVE  TypeOK'
  <1> USE DEF SkillInv
  <1>0. /\ journal = NoJournal \/ journal \in Journals
        /\ pc # "idle" => journal \in Journals
    BY DEF TypeOK, DiskFits
  <1>1. CASE StageBegins
    <2>1. 0 \in {dest.id, backup.id}
      BY <1>1 DEF StageBegins, FinishRelies, DiskFits, NoTree, Refuse, Goto
    <2>2. NewTreeId \in 0..3
      BY <2>1, NewTree
    <2>3. [id |-> NewTreeId, text |-> source.text, files |-> 0] \in Trees
      BY <2>2, Values DEF Trees, Files, TypeOK
    <2> QED BY <1>1, <2>3, StepType DEF StageBegins, Refuse, Goto, disk, TypeOK
  <1>2. CASE StageCopies
    <2>1. stage.files < MaxFiles => [stage EXCEPT !.files = @ + 1] \in Trees
      BY SkillInstallerAssumption DEF TypeOK, Trees
    <2> QED BY <1>0, <1>2, <2>1, JournalWrites, StepType DEF StageCopies, Writes, Goto, disk, TypeOK
  <1>3. CASE InstallResumes \/ UninstallResumes
    BY <1>3, StepType DEF InstallResumes, UninstallResumes, Moves, Refuse, Goto, disk, TypeOK
  <1>4. CASE BackupRenames
    BY <1>4, Values, StepType DEF BackupRenames, Refuse, Goto, disk, TypeOK
  <1>5. CASE BackupVerified \/ Activate \/ ActivateVerified
    BY <1>5, StepType DEF BackupVerified, Activate, ActivateVerified, Moves, Refuse, Goto, disk, TypeOK
  <1>6. CASE ActivateRenames
    BY <1>6, Values, StepType DEF ActivateRenames, Refuse, Goto, disk, TypeOK
  <1>7. CASE ReceiptWrites
    <2>1. [id |-> NewFileId, text |-> journal.new.text] \in Files
      BY <1>0, <1>7, NewFile DEF ReceiptWrites, Files, Journals, Trees
    <2> QED BY <1>7, <2>1, StepType DEF ReceiptWrites, Moves, Refuse, Goto, disk, TypeOK
  <1>8. CASE ReceiptJournaled \/ Commit
    BY <1>0, <1>8, JournalWrites, StepType DEF ReceiptJournaled, Commit, Writes, Goto, disk, TypeOK
  <1>9. CASE RemoveReceipt
    BY <1>9, Values, StepType DEF RemoveReceipt, Refuse, Goto, disk, TypeOK
  <1>10. CASE CleanBackup \/ CleanStage
    <2>1. Shrunk(backup) \in Trees /\ Shrunk(stage) \in Trees
      BY ShrunkType DEF TypeOK
    <2>2. \A key \in {"backup", "stage"}, state \in {"removing", "done"} :
            [journal EXCEPT !["cleaned"] = Cleaned(key, state)] \in Journals
      BY <1>0, <1>10, JournalWrites DEF CleanBackup, CleanStage, Cleaned
    <2> QED BY <1>10, <2>1, <2>2, StepType
            DEF CleanBackup, CleanStage, CleanupTree, Writes, Moves, Refuse, Goto, disk, TypeOK
  <1>11. CASE RemoveJournal
    BY <1>11, Values, StepType DEF RemoveJournal, Goto, TypeOK
  <1> QED BY <1>1, <1>2, <1>3, <1>4, <1>5, <1>6, <1>7, <1>8, <1>9, <1>10, <1>11 DEF Finishes

(* Every step of a rollback keeps the types.                               *)
LEMMA UndoType ==
  ASSUME SkillInv, RollsBack
  PROVE  TypeOK'
  <1> USE DEF SkillInv
  <1>0. pc # "idle" => journal \in Journals
    BY DEF TypeOK, DiskFits
  <1>1. CASE UndoBegins \/ ReceiptRestored
    BY <1>1, StepType DEF UndoBegins, ReceiptRestored, Moves, Refuse, Goto, disk, TypeOK
  <1>2. CASE Unactivate \/ Restore
    BY <1>2, Values, StepType DEF Unactivate, Restore, Moves, Refuse, Goto, disk, TypeOK
  <1>3. CASE RecordManifest
    <2>1. journal' \in Journals
      BY <1>0, <1>3, JournalWrites DEF RecordManifest, Moves, Refuse, TypeOK
    <2> QED BY <1>3, <2>1, StepType DEF RecordManifest, Moves, Refuse, Goto, disk, TypeOK
  <1>4. CASE Unstage
    BY <1>4, ShrunkType, StepType DEF Unstage, Moves, Goto, disk, TypeOK
  <1>5. CASE PrepareReceipt
    <2> DEFINE copy == [id |-> NewFileId, text |-> journal.prev.text]
    <2>1. copy \in Files
      BY <1>0, <1>5, NewFile DEF PrepareReceipt, Files, Journals
    <2>2. [journal EXCEPT !.replaced = copy] \in Journals
      BY <1>0, <1>5, <2>1, JournalWrites DEF PrepareReceipt
    <2> QED BY <1>5, <2>1, <2>2, StepType DEF PrepareReceipt, Moves, Refuse, Goto, disk, TypeOK
  <1>6. CASE ReplaceReceipt
    BY <1>6, Values, StepType DEF ReplaceReceipt, Goto, TypeOK
  <1> QED BY <1>1, <1>2, <1>3, <1>4, <1>5, <1>6 DEF RollsBack

(* The commands' beginnings and ends and what people do keep the types.    *)
LEMMA OtherType ==
  ASSUME SkillInv,
         Install \/ (\E force \in BOOLEAN : Uninstall(force)) \/ RecoverFinish \/ RecoverRollback
         \/ Die \/ People
  PROVE  TypeOK'
  <1> USE DEF SkillInv
  <1>1. CASE Install \/ \E force \in BOOLEAN : Uninstall(force)
    <2>1. \E op \in {"install", "uninstall"} : Starts(op) /\ kept' \subseteq kept /\ pc' \in {"stage", "finish"}
      BY <1>1 DEF Install, Uninstall
    <2>2. PICK op \in {"install", "uninstall"} :
            Starts(op) /\ kept' \subseteq kept /\ pc' \in {"stage", "finish"}
      BY <2>1
    <2>3. Begun(op) \in Journals
      BY Values DEF TypeOK, Begun, Journals, Trees, Files
    <2> QED BY <2>2, <2>3, SkillInstallerAssumption DEF Starts, TypeOK, disk
  <1>2. CASE RecoverFinish \/ RecoverRollback
    BY <1>2, StepType DEF RecoverFinish, RecoverRollback, Recover, Moves, Goto, disk, TypeOK
  <1>3. CASE Die
    BY <1>3, SkillInstallerAssumption DEF Die, disk, TypeOK
  <1>4. CASE People
    <2>1. acts < MaxActs /\ acts' = acts + 1 /\ acts + 1 \in 0..MaxActs
          /\ touched' \subseteq {"people", "package"}
          /\ UNCHANGED <<stage, backup, replacement, journal, pc, commands, deaths>>
      BY <1>4, SkillInstallerAssumption
         DEF People, PersonEdits, PersonRemoves, PersonCreates, PersonEditsReceipt, Upgrade, Acts, TypeOK
    <2>2. Mine(acts + 1) \in Texts
      BY <2>1, Values
    <2>3. CASE PersonEdits
      <3>1. [dest EXCEPT !.text = Mine(acts + 1)] \in Trees
        BY <2>2 DEF TypeOK, Trees
      <3> QED BY <2>1, <2>2, <2>3, <3>1 DEF PersonEdits, Noticed, TypeOK
    <2>4. CASE PersonRemoves
      BY <2>1, <2>4, Values DEF PersonRemoves, TypeOK
    <2>5. CASE PersonCreates
      <3>1. NewTreeId \in 0..3
        BY <2>5, NewTree DEF PersonCreates, NoTree
      <3>2. [id |-> NewTreeId, text |-> Mine(acts + 1), files |-> MaxFiles] \in Trees
        BY <2>2, <3>1, Values DEF Trees
      <3> QED BY <2>1, <2>2, <2>5, <3>2 DEF PersonCreates, Noticed, TypeOK
    <2>6. CASE PersonEditsReceipt
      <3>1. [receipt EXCEPT !.text = Mine(acts + 1)] \in Files
        BY <2>2 DEF TypeOK, Files
      <3> QED BY <2>1, <2>6, <3>1 DEF PersonEditsReceipt, TypeOK
    <2>7. CASE Upgrade
      <3>1. source' \in Files
        BY <2>7, Values DEF Upgrade, Files
      <3> QED BY <2>1, <2>7, <3>1 DEF Upgrade, TypeOK
    <2> QED BY <1>4, <2>3, <2>4, <2>5, <2>6, <2>7 DEF People
  <1> QED BY <1>1, <1>2, <1>3, <1>4

-----------------------------------------------------------------------------
(* What steps leave alone                                                  *)

(* A step of a command changes neither the ghosts nor the bundled skill,   *)
(* and of the journal neither what it found nor what it is to do.          *)
LEMMA StepKeeps ==
  ASSUME SkillInv, Finishes \/ RollsBack, journal' # NoJournal \/ ~RemoveJournal
  PROVE  /\ journal' # NoJournal /\ journal' \in Journals
         /\ UNCHANGED <<source, commands, deaths, acts, touched, kept>>
         /\ journal # NoJournal /\ journal \in Journals
         /\ journal'.op = journal.op /\ journal'.old = journal.old
         /\ journal'.prev = journal.prev /\ journal'.source = journal.source
         /\ ~StageCopies => journal'.new = journal.new
         /\ ~Commit => journal'.committed = journal.committed
         /\ ~PrepareReceipt => journal'.replaced = journal.replaced
  <1>1. journal # NoJournal /\ journal \in Journals
    BY DEF SkillInv, TypeOK, DiskFits, Finishes, RollsBack, StageBegins, StageCopies, InstallResumes,
           UninstallResumes, BackupRenames, BackupVerified, Activate, ActivateRenames,
           ActivateVerified, ReceiptWrites, ReceiptJournaled, Commit, RemoveReceipt, CleanBackup,
           CleanStage, RemoveJournal, UndoBegins, Unactivate, Restore, RecordManifest, Unstage,
           PrepareReceipt, ReplaceReceipt, ReceiptRestored
  <1> DEFINE Keeps ==
         /\ UNCHANGED <<source, commands, deaths, acts, touched, kept>>
         /\ journal'.op = journal.op /\ journal'.old = journal.old
         /\ journal'.prev = journal.prev /\ journal'.source = journal.source
         /\ ~StageCopies => journal'.new = journal.new
         /\ ~Commit => journal'.committed = journal.committed
         /\ ~PrepareReceipt => journal'.replaced = journal.replaced
  <1>2. ASSUME Finishes PROVE Keeps
    <2> USE <1>1 DEF Journals, Goto, Moves, Refuse, Writes, disk, bounds
    <2>1. CASE StageBegins \/ StageCopies
      BY <2>1 DEF StageBegins, StageCopies, PrepareReceipt, Commit
    <2>2. CASE InstallResumes \/ UninstallResumes \/ BackupRenames \/ BackupVerified
      BY <2>2 DEF InstallResumes, UninstallResumes, BackupRenames, BackupVerified
    <2>3. CASE Activate \/ ActivateRenames \/ ActivateVerified
      BY <2>3 DEF Activate, ActivateRenames, ActivateVerified
    <2>4. CASE ReceiptWrites \/ ReceiptJournaled
      BY <2>4 DEF ReceiptWrites, ReceiptJournaled
    <2>5. CASE Commit
      BY <2>5 DEF Commit
    <2>6. CASE RemoveReceipt \/ CleanBackup \/ CleanStage
      BY <2>6 DEF RemoveReceipt, CleanBackup, CleanStage, CleanupTree
    <2>7. CASE RemoveJournal
      BY <2>7 DEF RemoveJournal
    <2> QED BY <1>2, <2>1, <2>2, <2>3, <2>4, <2>5, <2>6, <2>7 DEF Finishes
  <1>3. ASSUME RollsBack PROVE Keeps
    <2> USE <1>1 DEF Journals, Goto, Moves, Refuse, disk, bounds
    <2>1. CASE UndoBegins \/ Unactivate \/ Restore \/ Unstage
      BY <2>1 DEF UndoBegins, Unactivate, Restore, Unstage
    <2>2. CASE RecordManifest
      BY <2>2 DEF RecordManifest
    <2>3. CASE PrepareReceipt
      BY <2>3 DEF PrepareReceipt
    <2>4. CASE ReplaceReceipt \/ ReceiptRestored
      BY <2>4 DEF ReplaceReceipt, ReceiptRestored
    <2> QED BY <1>3, <2>1, <2>2, <2>3, <2>4 DEF RollsBack
  <1>4. journal'.op = journal.op
    BY <1>2, <1>3
  <1>5. journal' # NoJournal
    BY <1>1, <1>4 DEF Journals, NoJournal
  <1>6. journal' \in Journals
    BY <1>5, FinishType, UndoType DEF TypeOK
  <1> QED BY <1>1, <1>2, <1>3, <1>5, <1>6

-----------------------------------------------------------------------------
(* The texts                                                               *)

(* What people write next nobody has written yet; tpo's text is not theirs. *)
LEMMA FreshText ==
  ASSUME SkillInv
  PROVE  /\ Mine(acts + 1) \notin Written /\ Mine(acts + 1) \notin kept
         /\ \A v \in 1..2 : Bundled(v) \in Written \ kept
         /\ NoText \in Written \ kept
  <1>1. acts \in Nat /\ kept \subseteq {Mine(k) : k \in 0..acts}
    BY DEF SkillInv, TypeOK, TextsKnown
  <1>2. \A k \in 0..acts : Mine(k) # Mine(acts + 1)
    BY <1>1 DEF Mine
  <1>3. \A k \in 0..acts + 1, v \in 1..2 : Mine(k) # Bundled(v) /\ Mine(k) # NoText
    BY DEF Mine, Bundled, NoText
  <1>4. Mine(acts + 1) # NoText /\ \A v \in 1..2 : Mine(acts + 1) # Bundled(v)
    BY DEF Mine, Bundled, NoText
  <1> QED BY <1>1, <1>2, <1>3, <1>4 DEF Written

(* One more act adds one text.                                             *)
LEMMA WrittenGrows ==
  ASSUME acts \in Nat, acts' = acts + 1
  PROVE  Written' = Written \cup {Mine(acts + 1)}
  BY DEF Written

(* Commands and people keep TextsKnown.                                    *)
LEMMA TextsInductive ==
  ASSUME SkillInv, Next
  PROVE  TextsKnown'
  <1> USE DEF SkillInv
  <1>1. CASE Finishes \/ RollsBack
    <2>1. UNCHANGED <<source, acts, kept>> /\ UNCHANGED Written
      BY <1>1 DEF Finishes, RollsBack, StageBegins, StageCopies, InstallResumes, UninstallResumes,
           BackupRenames, BackupVerified, Activate, ActivateRenames, ActivateVerified,
           ReceiptWrites, ReceiptJournaled, Commit, RemoveReceipt, CleanBackup, CleanStage,
           CleanupTree, RemoveJournal, UndoBegins, Unactivate, Restore, RecordManifest, Unstage,
           PrepareReceipt, ReplaceReceipt, ReceiptRestored, Goto, Moves, Refuse, Writes, bounds, Written
    <2>2. NoText \in Written \ kept /\ \A v \in 1..2 : Bundled(v) \in Written \ kept
      BY FreshText
    <2>3. dest'.text \in Written
      <3>1. CASE ActivateRenames
        BY <2>2, <3>1 DEF ActivateRenames, FinishRelies, TextsKnown, DiskFits, Refuse, Goto, disk
      <3>2. CASE BackupRenames \/ Unactivate \/ Restore
        BY <2>2, <3>2 DEF BackupRenames, Unactivate, Restore, UndoRelies, TextsKnown, DiskFits, NoTree,
             Moves, Refuse, Goto, disk
      <3>3. CASE ~ActivateRenames /\ ~BackupRenames /\ ~Unactivate /\ ~Restore
        <4>1. dest' = dest
          BY <1>1, <3>3 DEF Finishes, RollsBack, StageBegins, StageCopies, InstallResumes,
             UninstallResumes, BackupVerified, Activate, ActivateVerified,
             ReceiptWrites, ReceiptJournaled, Commit, RemoveReceipt, CleanBackup, CleanStage,
             CleanupTree, RemoveJournal, UndoBegins, RecordManifest, Unstage,
             PrepareReceipt, ReplaceReceipt, ReceiptRestored, Moves, Refuse, Writes, disk
        <4> QED BY <4>1 DEF TextsKnown
      <3> QED BY <3>1, <3>2, <3>3
    <2>4. receipt'.text \in Written \ kept /\ replacement'.text \in Written \ kept
      <3>1. CASE ReceiptWrites
        BY <2>2, <3>1 DEF ReceiptWrites, TextsKnown, DiskFits, Moves, Refuse, Goto, disk
      <3>2. CASE RemoveReceipt \/ RemoveJournal \/ ReplaceReceipt
        BY <2>2, <3>2 DEF RemoveReceipt, RemoveJournal, ReplaceReceipt, TextsKnown, NoFile, Refuse, Goto, disk
      <3>3. CASE PrepareReceipt
        BY <3>3 DEF PrepareReceipt, TextsKnown, DiskFits, Moves, Refuse, Goto, disk
      <3>4. CASE ~ReceiptWrites /\ ~RemoveReceipt /\ ~RemoveJournal /\ ~ReplaceReceipt /\ ~PrepareReceipt
        <4>1. UNCHANGED <<receipt, replacement>>
          BY <1>1, <3>4 DEF Finishes, RollsBack, StageBegins, StageCopies, InstallResumes,
             UninstallResumes, BackupRenames, BackupVerified, Activate, ActivateRenames,
             ActivateVerified, ReceiptJournaled, Commit, CleanBackup, CleanStage, CleanupTree,
             UndoBegins, Unactivate, Restore, RecordManifest, Unstage, ReceiptRestored,
             Moves, Refuse, Writes, disk
        <4> QED BY <4>1 DEF TextsKnown
      <3> QED BY <3>1, <3>2, <3>3, <3>4
    <2>5. journal' # NoJournal => journal'.new.text \in {NoText, journal'.source.text}
                               /\ (journal'.replaced = NoFile \/ journal'.replaced.text = journal'.prev.text)
      <3> SUFFICES ASSUME journal' # NoJournal
                   PROVE  /\ journal'.new.text \in {NoText, journal'.source.text}
                          /\ journal'.replaced = NoFile \/ journal'.replaced.text = journal'.prev.text
        OBVIOUS
      <3>1. CASE StageCopies
        BY <1>1, <3>1, StepKeeps
           DEF StageCopies, FinishRelies, TextsKnown, Writes, Goto, Journals, PrepareReceipt
      <3>2. CASE PrepareReceipt
        BY <1>1, <3>2, StepKeeps
           DEF PrepareReceipt, TextsKnown, StageCopies, Moves, Refuse, Goto, disk, Journals
      <3> QED BY <1>1, <3>1, <3>2, StepKeeps DEF TextsKnown
    <2> QED BY <1>1, <2>1, <2>3, <2>4, <2>5, StepKeeps DEF TextsKnown
  <1>2. CASE Install \/ \E force \in BOOLEAN : Uninstall(force)
    <2>1. PICK op \in {"install", "uninstall"} :
            /\ Starts(op) /\ kept' \subseteq kept
            /\ dest.text \notin kept' \/ receipt.text = dest.text
      BY <1>2 DEF Install, Uninstall
    <2>2. UNCHANGED <<source, dest, receipt, replacement, acts>> /\ UNCHANGED Written
      BY <2>1 DEF Starts, disk, Written
    <2>3. NoText \in Written \ kept
      BY FreshText
    <2> QED BY <2>1, <2>2, <2>3 DEF Starts, Begun, TextsKnown, NoTree, NoFile
  <1>3. CASE RecoverFinish \/ RecoverRollback \/ Die
    BY <1>3 DEF RecoverFinish, RecoverRollback, Recover, Die, Moves, Goto, disk, TextsKnown, Written, bounds
  <1>4. CASE People
    <2>1. acts \in Nat /\ acts' = acts + 1 /\ UNCHANGED <<replacement, journal>>
      BY <1>4 DEF People, PersonEdits, PersonRemoves, PersonCreates, PersonEditsReceipt, Upgrade,
           Acts, TypeOK
    <2>2. Written' = Written \cup {Mine(acts + 1)} /\ Mine(acts + 1) \notin Written
      BY <2>1, WrittenGrows, FreshText
    <2>3. {Mine(k) : k \in 0..acts'} = {Mine(k) : k \in 0..acts} \cup {Mine(acts + 1)}
      BY <2>1
    <2>4. NoText \in Written \ kept
      BY FreshText
    <2>5. CASE PersonEdits \/ PersonRemoves \/ PersonCreates
      <3>1. UNCHANGED <<source, receipt>> /\ kept' \subseteq kept \cup {Mine(acts + 1)}
        BY <2>5 DEF PersonEdits, PersonRemoves, PersonCreates, Noticed
      <3>2. dest'.text \in {Mine(acts + 1), NoText}
        BY <2>5 DEF PersonEdits, PersonRemoves, PersonCreates, NoTree, TypeOK, Trees
      <3> QED BY <2>1, <2>2, <2>3, <2>4, <3>1, <3>2 DEF TextsKnown
    <2>6. CASE PersonEditsReceipt
      <3>1. UNCHANGED <<source, dest, kept>> /\ receipt'.text = Mine(acts + 1)
        BY <2>6 DEF PersonEditsReceipt, TypeOK, Files
      <3>2. Mine(acts + 1) \notin kept
        BY FreshText
      <3> QED BY <2>1, <2>2, <2>3, <3>1, <3>2 DEF TextsKnown
    <2>7. CASE Upgrade
      <3>1. source'.text \in {Bundled(v) : v \in 1..2}
        BY <2>7 DEF Upgrade
      <3> QED BY <2>1, <2>2, <2>3, <2>7, <3>1 DEF Upgrade, TextsKnown
    <2> QED BY <1>4, <2>5, <2>6, <2>7 DEF People
  <1> QED BY <1>1, <1>2, <1>3, <1>4 DEF Next

-----------------------------------------------------------------------------
(* The parts about the disk                                                *)

(* Which steps of a command write the skill's directory, the backup, the  *)
(* stage and the receipt.                                                  *)
LEMMA DiskSteps ==
  ASSUME Finishes \/ RollsBack
  PROVE  /\ ~BackupRenames /\ ~ActivateRenames /\ ~Unactivate /\ ~Restore => dest' = dest
         /\ ~BackupRenames /\ ~CleanBackup /\ ~Restore => backup' = backup
         /\ ~StageBegins /\ ~StageCopies /\ ~ActivateRenames /\ ~CleanStage /\ ~Unactivate /\ ~Unstage
              => stage' = stage
         /\ ~ReceiptWrites /\ ~RemoveReceipt /\ ~ReplaceReceipt => receipt' = receipt
         /\ UNCHANGED <<source, acts, touched, kept>>
  <1> USE DEF Goto, Moves, Refuse, Writes, disk, bounds
  <1>1. CASE Finishes
    BY <1>1 DEF Finishes, StageBegins, StageCopies, InstallResumes, UninstallResumes, BackupRenames,
         BackupVerified, Activate, ActivateRenames, ActivateVerified, ReceiptWrites,
         ReceiptJournaled, Commit, RemoveReceipt, CleanBackup, CleanStage, CleanupTree, RemoveJournal
  <1>2. CASE RollsBack
    BY <1>2 DEF RollsBack, UndoBegins, Unactivate, Restore, RecordManifest, Unstage, PrepareReceipt,
         ReplaceReceipt, ReceiptRestored
  <1> QED BY <1>1, <1>2

(* No step takes away what people wrote.                                   *)
LEMMA EditsInductive ==
  ASSUME SkillInv, Next
  PROVE  EditsPlaced'
  <1> USE DEF SkillInv
  <1>0. MaxFiles \in Nat /\ MaxFiles # 0
    BY SkillInstallerAssumption
  <1>1. CASE BackupRenames
    <2>1. kept' = kept /\ (UNCHANGED <<dest, backup>> \/ backup' = dest) /\ backup = NoTree
      BY <1>1 DEF BackupRenames, FinishRelies, Refuse, Goto, disk
    <2> QED BY <1>0, <2>1 DEF EditsPlaced, NoTree
  <1>2. CASE ActivateRenames
    <2>1. UNCHANGED <<kept, backup>> /\ (dest' = dest \/ dest = NoTree)
      BY <1>2 DEF ActivateRenames, Refuse, Goto, disk
    <2> QED BY <1>0, <2>1 DEF EditsPlaced, NoTree
  <1>3. CASE CleanBackup
    <2>1. UNCHANGED <<dest, kept>>
      BY <1>3 DEF CleanBackup, CleanupTree, Writes, Moves, Refuse, Goto, disk
    <2>2. backup' = backup \/ (Removable("backup", backup, journal.old) /\ journal # NoJournal)
      BY <1>3 DEF CleanBackup, CleanupTree, Writes, Moves, Refuse, Goto, disk, DiskFits
    <2>3. Removable("backup", backup, journal.old) /\ journal # NoJournal =>
            backup.files # MaxFiles \/ backup.text \notin kept
      BY <1>0 DEF Removable, Fits, TextsKnown, TypeOK, Trees
    <2> QED BY <2>1, <2>2, <2>3 DEF EditsPlaced
  <1>4. CASE Unactivate
    <2>1. UNCHANGED <<kept, backup>> /\ dest.text \notin kept
      BY <1>4 DEF Unactivate, UndoRelies, Refuse, Goto, disk
    <2> QED BY <2>1 DEF EditsPlaced
  <1>5. CASE Restore
    <2>1. kept' = kept /\ (UNCHANGED <<dest, backup>> \/ (dest = NoTree /\ dest' = backup))
      BY <1>5 DEF Restore, Moves, Refuse, Goto, disk
    <2> QED BY <1>0, <2>1 DEF EditsPlaced, NoTree
  <1>6. CASE PersonEdits
    <2>1. dest' = [dest EXCEPT !.text = Mine(acts + 1)] /\ backup' = backup
          /\ kept' \subseteq (kept \ {dest.text}) \cup {Mine(acts + 1)} /\ dest # NoTree
      BY <1>6 DEF PersonEdits, Noticed, Acts
    <2>2. dest'.text = Mine(acts + 1) /\ dest'.files = MaxFiles
      BY <2>1 DEF TypeOK, Trees, DiskFits
    <2> QED BY <2>1, <2>2 DEF EditsPlaced
  <1>7. CASE PersonCreates
    <2>1. dest = NoTree /\ dest'.text = Mine(acts + 1) /\ dest'.files = MaxFiles /\ backup' = backup
          /\ kept' \subseteq kept \cup {Mine(acts + 1)}
      BY <1>7 DEF PersonCreates, Noticed, Acts
    <2> QED BY <1>0, <2>1 DEF EditsPlaced, NoTree
  <1>8. CASE PersonRemoves
    BY <1>8 DEF PersonRemoves, Acts, EditsPlaced
  <1>9. CASE PersonEditsReceipt \/ Upgrade
    BY <1>9 DEF PersonEditsReceipt, Upgrade, Acts, EditsPlaced
  <1>10. CASE Install \/ \E force \in BOOLEAN : Uninstall(force)
    BY <1>10 DEF Install, Uninstall, Starts, disk, EditsPlaced
  <1>11. CASE RecoverFinish \/ RecoverRollback \/ Die
    BY <1>11 DEF RecoverFinish, RecoverRollback, Recover, Die, Moves, Goto, disk, EditsPlaced
  <1>12. CASE /\ Finishes \/ RollsBack
              /\ ~BackupRenames /\ ~ActivateRenames /\ ~CleanBackup /\ ~Unactivate /\ ~Restore
    <2>1. UNCHANGED <<dest, backup, kept>>
      BY <1>12, DiskSteps
    <2> QED BY <2>1 DEF EditsPlaced
  <1> QED BY <1>1, <1>2, <1>3, <1>4, <1>5, <1>6, <1>7, <1>8, <1>9, <1>10, <1>11, <1>12
          DEF Next, People

(* Directories stay whole, and the journal says what there may be.         *)
LEMMA DiskInductive ==
  ASSUME SkillInv, Next
  PROVE  DiskFits'
  <1> USE DEF SkillInv, DiskFits, Installs, Goto, Moves, Refuse, Writes, disk, NoTree, NoJournal
  <1>1. CASE StageBegins
    <2>1. backup = NoTree
      BY <1>1 DEF StageBegins, FinishRelies
    <2> QED BY <1>1, <2>1, NewTree DEF StageBegins
  <1>2. CASE StageCopies
    <2>0. stage \in Trees /\ stage.files \in 0..MaxFiles /\ journal \in Journals
      BY <1>2 DEF StageCopies, TypeOK, Trees
    <2>1. stage'.id = stage.id
      BY <1>2, <2>0 DEF StageCopies, Trees
    <2>2. journal'.new # journal.new => journal'.new = stage /\ stage.files = MaxFiles
      BY <1>2, <2>0, SkillInstallerAssumption DEF StageCopies, Journals
    <2>3. /\ UNCHANGED <<dest, backup>> /\ journal' # NoJournal
          /\ journal'.op = journal.op /\ journal'.committed = journal.committed
      BY <1>2, <2>0, StepKeeps, DiskSteps
         DEF Finishes, StageCopies, RemoveJournal, Commit, BackupRenames, ActivateRenames, Unactivate,
             Restore, CleanBackup
    <2>4. stage.id # 0 /\ backup = NoTree /\ ~journal.committed /\ Installs /\ journal.new = NoTree
      BY <1>2 DEF StageCopies, FinishRelies
    <2> QED BY <2>0, <2>1, <2>2, <2>3, <2>4
  <1>3. CASE BackupRenames
    BY <1>3 DEF BackupRenames, FinishRelies
  <1>4. CASE ActivateRenames
    BY <1>4 DEF ActivateRenames, FinishRelies
  <1>5. CASE Commit
    BY <1>5 DEF Commit, FinishRelies, Journals, TypeOK
  <1>6. CASE CleanBackup \/ CleanStage
    BY <1>6 DEF CleanBackup, CleanStage, CleanupTree, Removable, Shrunk, FinishRelies, TypeOK, Trees, Journals
  <1>7. CASE RemoveJournal
    BY <1>7 DEF RemoveJournal, DoneRelies
  <1>8. CASE Unactivate \/ Restore \/ Unstage
    BY <1>8 DEF Unactivate, Restore, Unstage, Shrunk, UndoRelies, Undoing, TypeOK, Trees
  <1>9. CASE /\ Finishes \/ RollsBack
             /\ ~StageBegins /\ ~StageCopies /\ ~BackupRenames /\ ~ActivateRenames /\ ~Commit
             /\ ~CleanBackup /\ ~CleanStage /\ ~RemoveJournal /\ ~Unactivate /\ ~Restore /\ ~Unstage
    <2>1. UNCHANGED <<dest, stage, backup>>
      BY <1>9, DiskSteps
    <2> QED BY <1>9, <2>1, StepKeeps
  <1>10. CASE Install \/ \E force \in BOOLEAN : Uninstall(force)
    BY <1>10 DEF Install, Uninstall, Starts, Begun
  <1>11. CASE RecoverFinish \/ RecoverRollback \/ Die
    BY <1>11 DEF RecoverFinish, RecoverRollback, Recover, Die
  <1>12. CASE People
    BY <1>12, NewTree DEF People, PersonEdits, PersonRemoves, PersonCreates, PersonEditsReceipt,
                          Upgrade, Acts, TypeOK, Trees
  <1> QED BY <1>1, <1>2, <1>3, <1>4, <1>5, <1>6, <1>7, <1>8, <1>9, <1>10, <1>11, <1>12 DEF Next

(* While nobody interferes the old directory is found again, and a commit  *)
(* stands for what was done.                                               *)
LEMMA UndisturbedInductive ==
  ASSUME SkillInv, Next
  PROVE  Undisturbed'
  <1> USE DEF SkillInv, Undisturbed, Untouched, Installs, Goto, Moves, Refuse, Writes, disk, NoTree
  <1>1. CASE StageBegins
    BY <1>1, StepKeeps, DiskSteps DEF StageBegins
  <1>2. CASE StageCopies
    BY <1>2 DEF StageCopies, FinishRelies, DiskFits, Journals, TypeOK
  <1>3. CASE InstallResumes \/ UninstallResumes
    BY <1>3 DEF InstallResumes, UninstallResumes
  <1>4. CASE BackupRenames
    BY <1>4 DEF BackupRenames, FinishRelies
  <1>5. CASE BackupVerified
    BY <1>5 DEF BackupVerified
  <1>6. CASE ActivateRenames
    BY <1>6 DEF ActivateRenames, FinishRelies, DiskFits
  <1>7. CASE ReceiptWrites \/ ReceiptJournaled
    BY <1>7 DEF ReceiptWrites, ReceiptJournaled, FinishRelies, Journals, TypeOK, DiskFits
  <1>8. CASE Commit
    BY <1>8 DEF Commit, Journals, TypeOK, DiskFits
  <1>9. CASE RemoveReceipt
    BY <1>9 DEF RemoveReceipt, FinishRelies
  <1>10. CASE CleanBackup
    BY <1>10 DEF CleanBackup, CleanupTree, FinishRelies, Journals, TypeOK, DiskFits
  <1>11. CASE RemoveJournal
    BY <1>11 DEF RemoveJournal
  <1>12. CASE Unactivate \/ Restore
    BY <1>12 DEF Unactivate, Restore, UndoRelies, Undoing
  <1>13. CASE ReplaceReceipt
    BY <1>13 DEF ReplaceReceipt, UndoRelies, Undoing
  <1>14. CASE /\ Activate \/ ActivateVerified \/ CleanStage \/ UndoBegins \/ RecordManifest \/ Unstage
                 \/ PrepareReceipt \/ ReceiptRestored
    <2>1. Finishes \/ RollsBack
      BY <1>14 DEF Finishes, RollsBack
    <2>2. ~StageCopies /\ ~Commit /\ ~RemoveJournal /\ pc' # "commit"
      BY <1>14 DEF Activate, ActivateVerified, CleanStage, CleanupTree, UndoBegins, RecordManifest,
           Unstage, PrepareReceipt, ReceiptRestored, StageCopies, Commit, RemoveJournal
    <2>3. UNCHANGED <<dest, backup, receipt>>
      BY <1>14 DEF Activate, ActivateVerified, CleanStage, CleanupTree, UndoBegins, RecordManifest,
           Unstage, PrepareReceipt, ReceiptRestored
    <2> QED BY <2>1, <2>2, <2>3, StepKeeps
  <1>15. CASE Install \/ \E force \in BOOLEAN : Uninstall(force)
    BY <1>15 DEF Install, Uninstall, Starts, Begun, DiskFits
  <1>16. CASE RecoverFinish \/ RecoverRollback \/ Die
    BY <1>16 DEF RecoverFinish, RecoverRollback, Recover, Die
  <1>17. CASE People
    BY <1>17 DEF People, PersonEdits, PersonRemoves, PersonCreates, PersonEditsReceipt,
                 Upgrade, Acts
  <1> QED BY <1>1, <1>2, <1>3, <1>4, <1>5, <1>6, <1>7, <1>8, <1>9, <1>10, <1>11, <1>12, <1>13, <1>14,
             <1>15, <1>16, <1>17 DEF Next, Finishes, RollsBack

(* Every step of a command or of a finish gets where it may go on.         *)
LEMMA FinishInductive ==
  ASSUME SkillInv, Next
  PROVE  FinishRelies'
  <1> USE DEF SkillInv, FinishRelies, Untouched, Installs, Goto, Moves, Refuse, Writes, disk
  <1>1. CASE StageBegins
    <2>1. /\ 0 \in {dest.id, backup.id} /\ 0 \notin 1..3
          /\ Untouched => journal.old \in {NoTree, dest}
      BY <1>1 DEF StageBegins, DiskFits, Undisturbed, NoTree
    <2> QED BY <1>1, <2>1, NewTree DEF StageBegins, NoTree
  <1>2. CASE StageCopies
    BY <1>2, StepKeeps DEF StageCopies, Finishes, RemoveJournal, TypeOK, Trees
  <1>3. CASE InstallResumes \/ UninstallResumes
    BY <1>3 DEF InstallResumes, UninstallResumes, Undisturbed, DiskFits, NoTree
  <1>4. CASE BackupRenames \/ BackupVerified
    BY <1>4 DEF BackupRenames, BackupVerified
  <1>5. CASE Activate \/ ActivateRenames \/ ActivateVerified
    BY <1>5 DEF Activate, ActivateRenames, ActivateVerified
  <1>6. CASE ReceiptWrites \/ ReceiptJournaled
    BY <1>6, StepKeeps DEF ReceiptWrites, ReceiptJournaled, Finishes, RemoveJournal, StageCopies
  <1>7. CASE Commit
    BY <1>7 DEF Commit, Undisturbed, DiskFits, Journals, TypeOK
  <1>8. CASE RemoveReceipt
    BY <1>8 DEF RemoveReceipt
  <1>9. CASE CleanBackup \/ CleanStage
    <2>1. /\ journal'.committed = journal.committed /\ journal'.op = journal.op
          /\ UNCHANGED <<receipt, touched>>
      BY <1>9, StepKeeps DEF CleanBackup, CleanStage, CleanupTree, Finishes, RemoveJournal, Commit
    <2>2. CASE CleanBackup
      <3>1. pc' \in {"idle", "cleanBackup", "cleanStage"} /\ (pc' = "cleanStage" => backup' = NoTree)
        BY <2>2 DEF CleanBackup, CleanupTree
      <3> QED BY <2>1, <2>2, <3>1 DEF CleanBackup
    <2>3. CASE CleanStage
      <3>1. pc' \in {"idle", "cleanStage", "done"} /\ backup' = backup
        BY <2>3 DEF CleanStage, CleanupTree
      <3> QED BY <2>1, <2>3, <3>1 DEF CleanStage
    <2> QED BY <1>9, <2>2, <2>3
  <1>10. CASE RemoveJournal
    BY <1>10 DEF RemoveJournal
  <1>11. CASE RollsBack
    <2>1. pc' \in Undoing \cup {"idle", "done"}
      BY <1>11 DEF RollsBack, UndoBegins, Unactivate, Restore, RecordManifest, Unstage, PrepareReceipt,
           ReplaceReceipt, ReceiptRestored, Undoing
    <2> QED BY <2>1 DEF Undoing
  <1>12. CASE Install \/ \E force \in BOOLEAN : Uninstall(force)
    BY <1>12 DEF Install, Uninstall, Starts, Begun
  <1>13. CASE RecoverFinish \/ RecoverRollback \/ Die
    BY <1>13 DEF RecoverFinish, RecoverRollback, Recover, Die
  <1>14. CASE People
    BY <1>14 DEF People, PersonEdits, PersonRemoves, PersonCreates, PersonEditsReceipt,
                 Upgrade, Acts, DiskFits
  <1> QED BY <1>1, <1>2, <1>3, <1>4, <1>5, <1>6, <1>7, <1>8, <1>9, <1>10, <1>11, <1>12, <1>13, <1>14
          DEF Next, Finishes

(* So does every step of a rollback.                                       *)
LEMMA UndoInductive ==
  ASSUME SkillInv, Next
  PROVE  UndoRelies'
  <1> USE DEF SkillInv, UndoRelies, Untouched, Undoing, Goto, Moves, Refuse, Writes, disk
  <1>1. CASE Finishes
    <2>1. pc' \notin Undoing
      BY <1>1 DEF Finishes, StageBegins, StageCopies, InstallResumes, UninstallResumes, BackupRenames,
         BackupVerified, Activate, ActivateRenames, ActivateVerified, ReceiptWrites,
         ReceiptJournaled, Commit, RemoveReceipt, CleanBackup, CleanStage, CleanupTree, RemoveJournal
    <2> QED BY <2>1
  <1>2. CASE UndoBegins
    <2>1. Activated => dest.text \notin kept
      <3>1. journal.new.text \notin kept
        BY <1>2, FreshText DEF UndoBegins, TextsKnown, DiskFits
      <3> QED BY <3>1 DEF Activated
    <2> QED BY <1>2, <2>1 DEF UndoBegins, Undoable, Restorable, Activated
  <1>3. CASE Unactivate
    BY <1>3 DEF Unactivate, Restorable
  <1>4. CASE Restore
    BY <1>4 DEF Restore
  <1>5. CASE RecordManifest
    BY <1>5, StepKeeps DEF RecordManifest, RollsBack, RemoveJournal, StageCopies, Commit, PrepareReceipt
  <1>6. CASE Unstage
    BY <1>6 DEF Unstage
  <1>7. CASE PrepareReceipt
    <2>1. journal'.committed = journal.committed /\ journal'.prev = journal.prev
          /\ journal'.old = journal.old /\ journal # NoJournal /\ journal \in Journals
      BY <1>7, StepKeeps DEF PrepareReceipt, RollsBack, RemoveJournal, Commit
    <2>2. pc' = "replace" => journal'.replaced.text = journal.prev.text
      <3>1. CASE journal.prev # NoFile /\ journal.replaced = NoFile
        BY <1>7, <2>1, <3>1 DEF PrepareReceipt, Journals
      <3>2. CASE ~(journal.prev # NoFile /\ journal.replaced = NoFile)
        BY <1>7, <2>1, <3>2 DEF PrepareReceipt, TextsKnown, NoFile
      <3> QED BY <3>1, <3>2
    <2>3. pc' = "replaced" => journal'.replaced.text = journal.prev.text
      BY <1>7, <2>1 DEF PrepareReceipt, TextsKnown, NoFile
    <2>4. UNCHANGED <<dest, stage, backup, touched>> /\ pc' \in {"replace", "replaced", "idle"}
      BY <1>7 DEF PrepareReceipt
    <2> QED BY <1>7, <2>1, <2>2, <2>3, <2>4 DEF PrepareReceipt
  <1>8. CASE ReplaceReceipt \/ ReceiptRestored
    BY <1>8 DEF ReplaceReceipt, ReceiptRestored
  <1>9. CASE Install \/ \E force \in BOOLEAN : Uninstall(force)
    BY <1>9 DEF Install, Uninstall, Starts
  <1>10. CASE RecoverFinish \/ RecoverRollback \/ Die
    BY <1>10 DEF RecoverFinish, RecoverRollback, Recover, Die
  <1>11. CASE People
    <2>1. UNCHANGED <<stage, backup, journal, pc>> /\ (journal # NoJournal => ~Untouched' \/ Upgrade)
      BY <1>11 DEF People, PersonEdits, PersonRemoves, PersonCreates, PersonEditsReceipt, Upgrade, Acts
    <2>2. pc = "unactivating" => dest'.text \notin kept'
      <3>1. Mine(acts + 1) \notin kept /\ NoText \notin kept
        BY FreshText
      <3>2. CASE PersonEdits
        BY <3>1, <3>2 DEF PersonEdits, Noticed, TypeOK, Trees
      <3>3. CASE PersonRemoves \/ PersonCreates
        BY <3>1, <3>3 DEF PersonRemoves, PersonCreates, Noticed, NoTree
      <3>4. CASE PersonEditsReceipt \/ Upgrade
        BY <3>4 DEF PersonEditsReceipt, Upgrade
      <3> QED BY <1>11, <3>2, <3>3, <3>4 DEF People
    <2>3. Upgrade => pc = "idle"
      BY DEF Upgrade
    <2> QED BY <2>1, <2>2, <2>3 DEF DiskFits
  <1> QED BY <1>1, <1>2, <1>3, <1>4, <1>5, <1>6, <1>7, <1>8, <1>9, <1>10, <1>11 DEF Next, RollsBack

(* A transaction gets to its end done or undone.                           *)
LEMMA DoneInductive ==
  ASSUME SkillInv, Next
  PROVE  DoneRelies'
  <1> USE DEF SkillInv, DoneRelies, Untouched, Installs
  <1>1. CASE CleanStage
    <2>1. journal'.committed = journal.committed /\ journal'.op = journal.op
      BY <1>1, StepKeeps DEF CleanStage, CleanupTree, Finishes, RemoveJournal, Commit, Goto, Writes,
                             Moves, Refuse
    <2>2. /\ pc' = "done" => stage' = NoTree
          /\ UNCHANGED <<backup, receipt, touched>> /\ pc = "cleanStage"
      BY <1>1 DEF CleanStage, CleanupTree, Writes, Moves, Refuse, Goto, disk
    <2> QED BY <2>1, <2>2 DEF FinishRelies
  <1>2. CASE ReceiptRestored
    <2>1. /\ UNCHANGED <<dest, stage, backup, receipt, journal, touched>> /\ pc = "replaced"
          /\ pc' = "done" => receipt = journal.replaced
      BY <1>2 DEF ReceiptRestored, Restored, Moves, Refuse, Goto, disk
    <2> QED BY <2>1 DEF UndoRelies, Undoing
  <1>3. CASE Finishes /\ ~CleanStage
    <2>1. pc' # "done"
      BY <1>3 DEF Finishes, StageBegins, StageCopies, InstallResumes, UninstallResumes, BackupRenames,
         BackupVerified, Activate, ActivateRenames, ActivateVerified, ReceiptWrites, ReceiptJournaled,
         Commit, RemoveReceipt, CleanBackup, CleanupTree, RemoveJournal, Writes, Moves, Refuse, Goto
    <2> QED BY <2>1
  <1>4. CASE RollsBack /\ ~ReceiptRestored
    <2>1. pc' # "done"
      BY <1>4 DEF RollsBack, UndoBegins, Unactivate, Restore, RecordManifest, Unstage, PrepareReceipt,
         ReplaceReceipt, Moves, Refuse, Goto
    <2> QED BY <2>1
  <1>5. CASE \/ Install \/ (\E force \in BOOLEAN : Uninstall(force))
              \/ RecoverFinish \/ RecoverRollback \/ Die
    BY <1>5 DEF Install, Uninstall, RecoverFinish, RecoverRollback, Recover, Die, Moves, Goto
  <1>6. CASE People
    BY <1>6 DEF People, PersonEdits, PersonRemoves, PersonCreates, PersonEditsReceipt,
                Upgrade, Acts, DiskFits
  <1> QED BY <1>1, <1>2, <1>3, <1>4, <1>5, <1>6 DEF Next

-----------------------------------------------------------------------------
(* Theorems                                                                *)

(* Every state of every behaviour: types, texts, disk and what each step   *)
(* relies on.                                                              *)
THEOREM SkillInvariantHolds == Spec => []SkillInv
  <1>1. Init => SkillInv
    <2> SUFFICES ASSUME Init
                 PROVE  SkillInv
      OBVIOUS
    <2>1. TypeOK
      <3>1. \A text \in Texts : Whole(text) \in Trees /\ [id |-> 1, text |-> text] \in Files
        BY Values DEF Whole, Trees, Files
      <3>2. Mine(0) \in Texts
        BY Values, SkillInstallerAssumption
      <3>3. dest \in Trees /\ receipt \in Files /\ kept \subseteq Texts
        BY <3>1, <3>2, Values DEF Init
      <3>4. source \in Files
        BY Values DEF Init, Files
      <3>5. 0 \in 0..MaxCommands /\ 0 \in 0..MaxDeaths /\ 0 \in 0..MaxActs
        BY SkillInstallerAssumption
      <3> QED BY <3>3, <3>4, <3>5, Values DEF Init, TypeOK
    <2>2. TextsKnown
      <3>1. kept \subseteq {Mine(0)} /\ acts = 0 /\ source.text = Bundled(1)
        BY DEF Init
      <3>2. \A v \in 1..2 : Bundled(v) # Mine(0) /\ NoText # Mine(0)
        BY DEF Bundled, Mine, NoText
      <3>3. dest.text \in {NoText, Mine(0)} \cup {Bundled(v) : v \in 1..2}
            /\ receipt.text \in {NoText} \cup {Bundled(v) : v \in 1..2} /\ replacement.text = NoText
        BY DEF Init, Whole, NoTree, NoFile
      <3>4. Written = {NoText, Mine(0)} \cup {Bundled(v) : v \in 1..2}
        BY <3>1 DEF Written
      <3>5. {Mine(k) : k \in 0..acts} = {Mine(0)} /\ Bundled(1) \in {Bundled(v) : v \in 1..2}
        BY <3>1
      <3> QED BY <3>1, <3>2, <3>3, <3>4, <3>5 DEF Init, TextsKnown
    <2>3. EditsPlaced
      BY DEF Init, EditsPlaced, Whole
    <2>4. DiskFits /\ Undisturbed /\ FinishRelies /\ UndoRelies /\ DoneRelies
      BY DEF Init, DiskFits, Undisturbed, FinishRelies, UndoRelies, DoneRelies, Undoing, Whole
    <2> QED BY <2>1, <2>2, <2>3, <2>4 DEF SkillInv
  <1>2. SkillInv /\ [Next]_vars => SkillInv'
    <2> SUFFICES ASSUME SkillInv, [Next]_vars
                 PROVE  SkillInv'
      OBVIOUS
    <2>1. CASE Next
      <3>1. TypeOK'
        BY <2>1, FinishType, UndoType, OtherType DEF Next
      <3> QED BY <2>1, <3>1, TextsInductive, EditsInductive, DiskInductive, UndisturbedInductive,
                 FinishInductive, UndoInductive, DoneInductive DEF SkillInv
    <2>2. CASE UNCHANGED vars
      BY <2>2 DEF vars, disk, bounds, SkillInv, TypeOK, TextsKnown, EditsPlaced, DiskFits, Undisturbed,
                  FinishRelies, UndoRelies, DoneRelies, Untouched, Installs, Undoing, Written
    <2> QED BY <2>1, <2>2
  <1> QED BY <1>1, <1>2, PTL DEF Spec

(* Variables have their types: inodes are used again but never run out,    *)
(* and a directory never has more entries than the skill.                  *)
THEOREM TypesHold == Spec => []TypeOK
  <1>1. SkillInv => TypeOK
    BY DEF SkillInv
  <1> QED BY <1>1, SkillInvariantHolds, PTL

(* No command and no recovery loses a skill: until the commit the earlier  *)
(* directory is whole, in its place or in the backup, and what people wrote *)
(* is whole somewhere until they ask for its removal.                      *)
THEOREM NothingLost == Spec => []NothingIsLost
  <1>1. SkillInv => NothingIsLost
    BY DEF SkillInv, Undisturbed, Untouched, EditsPlaced, NothingIsLost, OldSurvives, EditsSurvive
  <1> QED BY <1>1, SkillInvariantHolds, PTL

(* A transaction ends done or undone and leaves no stage and no backup,    *)
(* however many of its commands died on the way.                           *)
THEOREM TransactionsAreAtomic == Spec => AllOrNothing
  <1> DEFINE Ends == /\ stage = NoTree /\ backup = NoTree
                     /\ "people" \notin touched => IF journal.committed THEN Done ELSE Undone
  <1>1. SkillInv /\ [Next]_vars => [journal # NoJournal /\ journal' = NoJournal => Ends]_vars
    <2> SUFFICES ASSUME SkillInv, Next, journal # NoJournal, journal' = NoJournal
                 PROVE  Ends
      BY DEF vars
    <2> USE DEF SkillInv
    <2>1. RemoveJournal
      <3>1. Finishes \/ RollsBack
        BY NoJournalIsNone DEF Next, Install, Uninstall, RecoverFinish, RecoverRollback, Recover, Die, Starts, Moves,
           People, PersonEdits, PersonRemoves, PersonCreates, PersonEditsReceipt, Upgrade, Acts
      <3> QED BY <3>1, StepKeeps
    <2>2. pc = "done" /\ UNCHANGED <<dest, receipt>>
      BY <2>1 DEF RemoveJournal
    <2>3. Untouched /\ journal.committed => Done
      BY <2>2 DEF DoneRelies, Undisturbed, DiskFits, Installs, Done
    <2>4. Untouched /\ ~journal.committed => Undone
      BY <2>2 DEF DoneRelies, Undone
    <2> QED BY <2>2, <2>3, <2>4 DEF DoneRelies, Untouched
  <1> QED BY <1>1, SkillInvariantHolds, PTL DEF Spec, AllOrNothing

=====
