------------------------------- MODULE Settings -------------------------------
(***************************************************************************)
(* How settings get to disk: the main form and the PDF dialog of the GUI   *)
(* (cmd/erp-connector), secrets.Set and config.Save.                       *)
(*                                                                         *)
(* Each click of a Save button is a save: the form's saves write the       *)
(* settings of the form (Start goes on to start the service), the dialog's  *)
(* those of the dialog.  Either writes the whole                           *)
(* configuration, from a copy of the GUI's f.cfg, after the password that  *)
(* was entered with it.  A file is replaced by writing a temporary file,   *)
(* removing the old one and renaming.                                      *)
(*                                                                         *)
(* A group of settings is abstracted to the save they were entered for.    *)
(***************************************************************************)
EXTENDS Naturals, Sequences, FiniteSets

CONSTANTS
  FormSaves,      \* clicks of Save or Start in the main form
  DialogSaves,    \* clicks of Save in the PDF dialog
  NeedsPassword,  \* cfg.ERP = Hasavshevet: the procedures need the password
  MaxRestarts,    \* bound on ends of the GUI's process
  MaxFaults,      \* bound on file system errors
  Factory,        \* settings nobody has saved: config.Default, or an old file's
  Missing         \* content of a file that does not exist

Saves == FormSaves \cup DialogSaves

Config == [form : FormSaves \cup {Factory}, pdf : DialogSaves \cup {Factory}]

ASSUME SettingsAssumption ==
  /\ FormSaves \cap DialogSaves = {}
  /\ {Factory, Missing} \cap Saves = {}
  /\ Factory # Missing
  /\ Missing \notin Config
  /\ NeedsPassword \in BOOLEAN
  /\ MaxRestarts \in Nat
  /\ MaxFaults \in Nat

VARIABLES
  disk,       \* content of config.yaml and of the two secrets
  cfg,        \* f.cfg, the GUI's configuration in memory
  busy,       \* f.busy
  pc,         \* where each save is
  step,       \* which file of its plan a save is at
  copy,       \* the configuration a save is to write
  entered,    \* a password was entered with the save
  reported,   \* what the user was told
  restarts,   \* number of ends of the GUI's process so far
  faults,     \* number of file system errors so far
  kept,       \* history: whose settings last reached the configuration file
  stored,     \* history: the saves whose password reached its file
  cut,        \* history: the replacement of the configuration stopped halfway
  swallowed,  \* history: the renaming of a secret failed
  overlapped, \* history: a save was started while another was in progress
  behind      \* history: a start of the service failed; f.cfg lagged behind the file

guiVars == <<cfg, busy, entered, reported>>
historyVars == <<kept, stored, cut, swallowed, overlapped, behind>>
boundVars == <<restarts, faults>>
vars == <<disk, pc, step, copy, guiVars, historyVars, boundVars>>

Files == {"config", "db", "smtp"}

Stages == {"idle", "prepare", "next", "copy form", "copy pdf", "temp", "remove",
           "rename", "written", "error", "over"}

InProgress(s) == pc[s] \notin {"idle", "over"}

Quiet == \A s \in Saves : ~InProgress(s)

FactoryConfig == [form |-> Factory, pdf |-> Factory]

SettingsTypeOK ==
  /\ disk \in [Files -> Config \cup Saves \cup {Factory, Missing}]
  /\ disk["config"] \in Config \cup {Missing}
  /\ cfg \in Config
  /\ busy \in BOOLEAN
  /\ pc \in [Saves -> Stages]
  /\ step \in [Saves -> 1..3]
  /\ copy \in [Saves -> Config]
  /\ entered \in [Saves -> BOOLEAN]
  /\ reported \in [Saves -> {"nothing", "ok", "failed"}]
  /\ restarts \in 0..MaxRestarts
  /\ faults \in 0..MaxFaults
  /\ kept \in Config
  /\ stored \in SUBSET Saves
  /\ cut \in BOOLEAN
  /\ swallowed \in BOOLEAN
  /\ overlapped \in BOOLEAN
  /\ behind \in BOOLEAN

\* The GUI has loaded the configuration there is, or config.Default.
Init ==
  /\ disk \in [config : {FactoryConfig, Missing}, db : {Factory, Missing}, smtp : {Missing}]
  /\ cfg = FactoryConfig
  /\ busy = FALSE
  /\ pc = [s \in Saves |-> "idle"]
  /\ step = [s \in Saves |-> 1]
  /\ copy = [s \in Saves |-> FactoryConfig]
  /\ entered = [s \in Saves |-> FALSE]
  /\ reported = [s \in Saves |-> "nothing"]
  /\ restarts = 0
  /\ faults = 0
  /\ kept = FactoryConfig
  /\ stored = {}
  /\ cut = FALSE
  /\ swallowed = FALSE
  /\ overlapped = FALSE
  /\ behind = FALSE

\* Mutant: the configuration is saved before the password.
PlanConfigFirst(s) ==
  <<"config">> \o (IF entered[s] THEN <<IF s \in FormSaves THEN "db" ELSE "smtp">> ELSE <<>>)

\* The files a save replaces, in this order.
Plan(s) ==
  (IF entered[s] THEN <<IF s \in FormSaves THEN "db" ELSE "smtp">> ELSE <<>>) \o <<"config">>

File(s) == Plan(s)[step[s]]

Content(s) == IF File(s) = "config" THEN copy[s] ELSE s

Goto(s, from, to) ==
  /\ pc[s] = from
  /\ pc' = [pc EXCEPT ![s] = to]

Fault ==
  /\ faults < MaxFaults
  /\ faults' = faults + 1

-----------------------------------------------------------------------------
(* The clicks, on the UI thread.                                           *)

Click(s) ==
  /\ \E password \in BOOLEAN : entered' = [entered EXCEPT ![s] = password]
  /\ overlapped' = (overlapped \/ ~Quiet)

\* onSave or onStartServer: readFormConfig takes f.cfg and puts the form's
\* fields into it.
ClickForm(s) ==
  /\ ~busy
  /\ busy' = TRUE
  /\ Goto(s, "idle", "prepare")
  /\ Click(s)
  /\ copy' = [copy EXCEPT ![s] = [cfg EXCEPT !.form = s]]
  /\ UNCHANGED <<disk, step, cfg, reported, kept, stored, cut, swallowed, behind, boundVars>>

\* The dialog puts its fields into f.cfg itself, saved or not.
ClickDialog(s) ==
  /\ Goto(s, "idle", "next")
  /\ Click(s)
  /\ cfg' = [cfg EXCEPT !.pdf = s]
  /\ UNCHANGED <<disk, step, copy, busy, reported, kept, stored, cut, swallowed, behind, boundVars>>

-----------------------------------------------------------------------------
(* The saves, each on a goroutine of its own.                              *)

\* persistConfig: the password is at hand, the database accepts it and has
\* its procedures.
Prepare(s) ==
  /\ Goto(s, "prepare", "next")
  /\ NeedsPassword => entered[s] \/ disk["db"] # Missing
  /\ UNCHANGED <<disk, step, copy, guiVars, historyVars, boundVars>>

\* No password, no connection, or no permission to create a procedure.
PrepareFails(s) ==
  /\ NeedsPassword
  /\ Goto(s, "prepare", "error")
  /\ UNCHANGED <<disk, step, copy, guiVars, historyVars, boundVars>>

\* The next file.  The dialog hands *cfg to config.Save only now ...
NextFile(s) ==
  /\ Goto(s, "next", IF s \in DialogSaves /\ File(s) = "config" THEN "copy form" ELSE "temp")
  /\ UNCHANGED <<disk, step, copy, guiVars, historyVars, boundVars>>

\* ... and copies it while the UI thread may be writing it.
CopyForm(s) ==
  /\ Goto(s, "copy form", "copy pdf")
  /\ copy' = [copy EXCEPT ![s].form = cfg.form]
  /\ UNCHANGED <<disk, step, guiVars, historyVars, boundVars>>

CopyPdf(s) ==
  /\ Goto(s, "copy pdf", "temp")
  /\ copy' = [copy EXCEPT ![s].pdf = cfg.pdf]
  /\ UNCHANGED <<disk, step, guiVars, historyVars, boundVars>>

\* The temporary file is created, written, synced and closed.
WriteTemp(s) ==
  /\ Goto(s, "temp", "remove")
  /\ UNCHANGED <<disk, step, copy, guiVars, historyVars, boundVars>>

\* Any of that fails: the temporary file is removed and the save ends.
WriteTempFails(s) ==
  /\ Goto(s, "temp", "error")
  /\ Fault
  /\ UNCHANGED <<disk, step, copy, guiVars, historyVars, restarts>>

RemoveOld(s) ==
  /\ Goto(s, "remove", "rename")
  /\ disk' = [disk EXCEPT ![File(s)] = Missing]
  /\ UNCHANGED <<step, copy, guiVars, historyVars, boundVars>>

\* The old file cannot be removed: ignored.
RemoveFails(s) ==
  /\ Goto(s, "remove", "rename")
  /\ Fault
  /\ UNCHANGED <<disk, step, copy, guiVars, historyVars, restarts>>

Advance(s) ==
  IF step[s] = Len(Plan(s))
  THEN Goto(s, "rename", "written") /\ UNCHANGED step
  ELSE Goto(s, "rename", "next") /\ step' = [step EXCEPT ![s] = step[s] + 1]

\* os.Rename, which replaces a file that is there.
Rename(s) ==
  /\ Advance(s)
  /\ disk' = [disk EXCEPT ![File(s)] = Content(s)]
  /\ IF File(s) = "config"
     THEN /\ kept' = IF s \in FormSaves THEN [kept EXCEPT !.form = s]
                                        ELSE [kept EXCEPT !.pdf = s]
          /\ cut' = FALSE
          /\ UNCHANGED stored
     ELSE /\ stored' = stored \cup {s}
          /\ UNCHANGED <<kept, cut>>
  /\ UNCHANGED <<copy, guiVars, swallowed, overlapped, behind, boundVars>>

\* The rename fails.  config.Save returns the error; secrets.Set returns the
\* err of an earlier call, which is nil, and the save goes on.
RenameFails(s) ==
  /\ Fault
  /\ IF File(s) = "config"
     THEN Goto(s, "rename", "error") /\ cut' = TRUE /\ UNCHANGED <<step, swallowed>>
     ELSE Advance(s) /\ swallowed' = TRUE /\ UNCHANGED cut
  /\ UNCHANGED <<disk, copy, guiVars, kept, stored, overlapped, behind, restarts>>

-----------------------------------------------------------------------------
(* The outcome, posted to the UI thread.                                   *)

Report(s, from, result) ==
  /\ Goto(s, from, "over")
  /\ reported' = [reported EXCEPT ![s] = result]

\* Mutant: f.cfg keeps the settings from before the save.
FormSavedKeepsCfg(s) ==
  /\ s \in FormSaves
  /\ Report(s, "written", "ok")
  /\ busy' = FALSE
  /\ UNCHANGED <<disk, step, copy, cfg, entered, historyVars, boundVars>>

\* Saved, and started if that was asked for: f.cfg takes the saved settings.
FormSaved(s) ==
  /\ s \in FormSaves
  /\ Report(s, "written", "ok")
  /\ busy' = FALSE
  /\ cfg' = copy[s]
  /\ UNCHANGED <<disk, step, copy, entered, historyVars, boundVars>>

\* onStartServer: saved, but the service is not found, created or started:
\* f.cfg keeps the settings from before the save.
StartFails(s) ==
  /\ s \in FormSaves
  /\ Report(s, "written", "failed")
  /\ busy' = FALSE
  /\ behind' = TRUE
  /\ UNCHANGED <<disk, step, copy, cfg, entered, kept, stored, cut, swallowed, overlapped, boundVars>>

FormFails(s) ==
  /\ s \in FormSaves
  /\ Report(s, "error", "failed")
  /\ busy' = FALSE
  /\ UNCHANGED <<disk, step, copy, cfg, entered, historyVars, boundVars>>

DialogEnds(s) ==
  /\ s \in DialogSaves
  /\ Report(s, "written", "ok") \/ Report(s, "error", "failed")
  /\ UNCHANGED <<disk, step, copy, cfg, busy, entered, historyVars, boundVars>>

-----------------------------------------------------------------------------
\* Mutant: the GUI opens with what config.Load returns, found or not.
RestartLoads ==
  /\ restarts < MaxRestarts
  /\ restarts' = restarts + 1
  /\ pc' = [s \in Saves |-> IF InProgress(s) THEN "over" ELSE pc[s]]
  /\ busy' = FALSE
  /\ cfg' = disk["config"]
  /\ UNCHANGED <<disk, step, copy, entered, reported, historyVars, faults>>

\* The GUI is closed or killed, which ends its goroutines where they are, and
\* opened again: LoadOrDefault.
Restart ==
  /\ restarts < MaxRestarts
  /\ restarts' = restarts + 1
  /\ pc' = [s \in Saves |-> IF InProgress(s) THEN "over" ELSE pc[s]]
  /\ cut' = (cut \/ \E s \in Saves : pc[s] = "rename" /\ File(s) = "config")
  /\ busy' = FALSE
  /\ cfg' = IF disk["config"] = Missing THEN FactoryConfig ELSE disk["config"]
  /\ kept' = IF disk["config"] = Missing THEN FactoryConfig ELSE kept
  /\ UNCHANGED <<disk, step, copy, entered, reported, stored, swallowed, overlapped, behind, faults>>

SaveStep(s) ==
  \/ Prepare(s) \/ PrepareFails(s) \/ NextFile(s) \/ CopyForm(s) \/ CopyPdf(s)
  \/ WriteTemp(s) \/ WriteTempFails(s) \/ RemoveOld(s) \/ RemoveFails(s)
  \/ Rename(s) \/ RenameFails(s)
  \/ FormSaved(s) \/ StartFails(s) \/ FormFails(s) \/ DialogEnds(s)

Next ==
  \/ \E s \in FormSaves : ClickForm(s)
  \/ \E s \in DialogSaves : ClickDialog(s)
  \/ \E s \in Saves : SaveStep(s)
  \/ Restart

Spec == Init /\ [][Next]_vars

-----------------------------------------------------------------------------
(* Properties.                                                             *)

\* When nothing is being saved, the file holds the form settings that were
\* last written from the form, and the dialog settings last written from the
\* dialog or those of a dialog save that failed: neither writer puts back
\* settings of the other, unless saves overlapped or a start failed.  There is
\* no file only where a replacement stopped halfway (io.go:105-114).
SettingsKept ==
  (Quiet /\ ~overlapped /\ ~behind) =>
    IF disk["config"] = Missing
    THEN cut \/ kept = FactoryConfig
    ELSE /\ disk["config"].form = kept.form
         /\ \/ disk["config"].pdf = kept.pdf
            \/ disk["config"].pdf \in {d \in DialogSaves : reported[d] = "failed"}

\* The form settings in the file never rely on a password that was not stored
\* before them, whoever wrote the file and wherever the GUI died
\* (main.go:639-647). Nor do the dialog settings, once a save of the dialog has
\* written them or was reported to have succeeded; but a save of the form carries
\* along what the dialog put into f.cfg before it stored its password
\* (pdf_settings.go:256-288, main.go:554), and the file relies on that password
\* even if it is never stored. A secret whose renaming failed is left out here.
PasswordBeforeConfig ==
  (~swallowed /\ disk["config"] # Missing) =>
    LET form == disk["config"].form
        pdf  == disk["config"].pdf
    IN  /\ form \in FormSaves /\ entered[form] => form \in stored
        /\ pdf \in DialogSaves /\ entered[pdf] =>
             \/ pdf \in stored
             \/ pdf # kept.pdf /\ reported[pdf] # "ok"

\* The documented purpose of the dialog: it is a window for PDF, print and
\* e-mail configuration (pdf_settings.go:22), so saving it, when no other save
\* is in progress, does not put back settings of the main form.
DialogKeepsFormSettings ==
  (Quiet /\ disk["config"] # Missing /\ ~overlapped) =>
    disk["config"].form = kept.form
=============================================================================
